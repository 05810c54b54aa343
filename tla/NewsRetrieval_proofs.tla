-------------------------- MODULE NewsRetrieval_proofs --------------------------
(***************************************************************************)
(* News and contacts, for every set of fetchers, operators, controls,      *)
(* policies, entries and requests: a provider is called only after all     *)
(* that must allow it did, a change of a control is lost only to another   *)
(* that overlaps it, and news are answered from fresh items, once each.    *)
(***************************************************************************)
EXTENDS NewsRetrieval, FiniteSetTheorems, SequenceTheorems, TLAPS

\* What of a request is looked at again: fields that every request has.
RunFields == {"pc", "kind", "grant"}

\* The requests are a list, what is at hand is one; and there are only so many
\* entries in the feeds, as they are published one after the other.
Shapes ==
    /\ log \in Seq(ToSet(log))
    /\ RunFields \subseteq DOMAIN run
    /\ IsFiniteSet(feed) /\ \A f \in Fetchers : IsFiniteSet(fetcher[f].ids)

\* Whether files allow the provider, each for itself.
Permits(files) == \A name \in PolicyNames : AllowsAlone(name, files[name])

\* What a policy file that the process keeps allows has been seen.
KeptWasSeen ==
    \A name \in PolicyNames :
        cached[name] # <<>> /\ AllowsAlone(name, cached[name][1]) => name \in seen

\* All that is allowed has been seen; so was the grant that a request has read,
\* and what is allowed by the policy files that the process keeps: all of them
\* once the grant is read.
AllowedWasSeen ==
    /\ Allowed \subseteq seen
    /\ run.pc = "granted" /\ run.grant => "grant" \in seen
    /\ run.pc = "granted" => \A name \in PolicyNames : cached[name] # <<>>
    /\ KeptWasSeen

\* A policy file is kept as it was, or read now; or the process is gone with all.
KeepsOrReads ==
    /\ DOMAIN cached' = PolicyNames
    /\ \A name \in PolicyNames :
          cached'[name] = cached[name] \/ cached'[name] = <<policy[name]>>

Forgets == cached' = [name \in PolicyNames |-> <<>>]

\* What a file shows of the control of a change: Shown of any file.
ShownIn(file, c) ==
    CASE c.control \in Switches -> file.switch[c.control].state = "enabled"
      [] c.control = "provider_authorization" ->
            (IF c.target = "" THEN file.provider_default
             ELSE file.provider[c.target].state) = "allowed"
      [] OTHER ->
            (IF c.target = "" THEN file.user_default
             ELSE file.user[c.target].state) = "allowed"

\* A receipt is overtaken by a later one for the same control, or by one of an
\* operator who had loaded the file before it.
Overtaken(r) ==
    \E later \in receipts :
        /\ later.to > r.to
        /\ \/ later.from < r.to
           \/ /\ later.receipt.change.control = r.receipt.change.control
              /\ later.receipt.change.target = r.receipt.change.target

\* A file that an operator has loaded shows the changes made until then: what
\* ChangesLostOnlyByOverlap says of the file there is.
LoadedShowsChanges ==
    /\ version \in Nat
    /\ \A r \in receipts :
          /\ r.from \in Nat /\ r.to \in 1 .. version
          /\ r.receipt.effective = r.receipt.change.on
    /\ \A o \in Operators :
          /\ operator[o].from <= version
          /\ operator[o].loaded =>
                \A r \in receipts : r.to <= operator[o].from =>
                    \/ r.receipt.effective = ShownIn(operator[o].file, r.receipt.change)
                    \/ Overtaken(r)

NewsInv ==
    /\ TypeOK /\ Shapes
    /\ AllowedWasSeen /\ CallsFollowControls
    /\ LoadedShowsChanges /\ ChangesLostOnlyByOverlap
    /\ ServedIsFresh

--------------------------------------------------------------------------------
(* The cache. *)

\* What is read of the file has each id once.
LEMMA DedupedOnce ==
    ASSUME NEW st \in Seq(Item)
    PROVE  /\ DedupeItems(st) \subseteq Item /\ IsFiniteSet(DedupeItems(st))
           /\ \A x, y \in DedupeItems(st) : x.id = y.id => x = y
<1> DEFINE K == {k \in DOMAIN st :
                    \A j \in DOMAIN st : st[j].id = st[k].id /\ j # k =>
                        \/ SortTime(st[j]) < SortTime(st[k])
                        \/ SortTime(st[j]) = SortTime(st[k]) /\ j < k}
<1>1. DOMAIN st = 1..Len(st) /\ Len(st) \in Nat /\ \A k \in DOMAIN st : st[k] \in Item
  BY LenProperties, ElementOfSeq
<1>2. \A x \in Item : SortTime(x) \in Nat
  BY NewsAssumption DEF SortTime, Item
<1>3. DedupeItems(st) = {st[i] : i \in K}
  BY DEF DedupeItems
<1>4. ASSUME NEW i \in K, NEW j \in K, st[i].id = st[j].id PROVE i = j
  <2>1. /\ i \in Nat /\ j \in Nat /\ SortTime(st[i]) \in Nat /\ SortTime(st[j]) \in Nat
    BY <1>1, <1>2
  <2> SUFFICES ASSUME i # j PROVE FALSE
    OBVIOUS
  <2>2. \/ SortTime(st[j]) < SortTime(st[i])
        \/ SortTime(st[j]) = SortTime(st[i]) /\ j < i
    BY <1>4
  <2>3. \/ SortTime(st[i]) < SortTime(st[j])
        \/ SortTime(st[i]) = SortTime(st[j]) /\ i < j
    BY <1>4
  <2> QED
    BY <2>1, <2>2, <2>3
<1>5. K \subseteq 1..Len(st) /\ IsFiniteSet(1..Len(st))
  BY <1>1, FS_Interval
<1>6. IsFiniteSet(K)
  BY <1>5, FS_Subset
<1> HIDE DEF K
<1>7. IsFiniteSet({st[i] : i \in K})
  <2> DEFINE f == [i \in K |-> st[i]]
  <2>1. f \in Surjection(K, {st[i] : i \in K})
    BY DEF Surjection
  <2> QED
    BY <1>6, <2>1, FS_Surjection
<1> QED
  BY <1>1, <1>3, <1>4, <1>5, <1>7

\* What is judged fresh is among the items, is not too old, and is enough if the
\* judgement says so (evaluate_source_item_freshness).
LEMMA FreshItems ==
    ASSUME NEW items \in SUBSET Item, NEW topic, NEW now \in Nat,
           NEW e, e = EvaluateFreshness(items, topic, now)
    PROVE  /\ e.fresh \subseteq items
           /\ \A x \in e.fresh : /\ now <= EntryDate(x.id) + MaxItemAge
                                 /\ now <= x.fetched + MaxFetchAge
           /\ e.status = "adequate" => ~(Cardinality(e.fresh) < MinFresh)
<1> DEFINE valid == {x \in items : EntryDate(x.id) # 0}
           fetched == {x \in valid : WithinAge(x.fetched, now, MaxFetchAge)}
           current == {x \in fetched : WithinAge(EntryDate(x.id), now, MaxItemAge)}
           fresh == Latest(current, MaxItems)
<1>1. e.fresh = fresh
  BY DEF EvaluateFreshness
<1>2. e.status = "adequate" => ~(Cardinality(fresh) < MinFresh)
  BY DEF EvaluateFreshness
<1>3. fresh \subseteq current
  BY DEF Latest
<1>4. \A x \in current : /\ x \in items
                         /\ now <= EntryDate(x.id) + MaxItemAge
                         /\ now <= x.fetched + MaxFetchAge
  <2> SUFFICES ASSUME NEW x \in current
               PROVE  /\ x \in items
                      /\ now <= EntryDate(x.id) + MaxItemAge
                      /\ now <= x.fetched + MaxFetchAge
    OBVIOUS
  <2>1. /\ x \in items /\ x.fetched + MaxFetchAge >= now
        /\ EntryDate(x.id) + MaxItemAge >= now
    BY DEF WithinAge
  <2>2. x.id \in Entries /\ x.fetched \in Nat /\ EntryDate(x.id) \in Nat
    BY <2>1, NewsAssumption DEF Item
  <2> QED
    BY <2>1, <2>2, NewsAssumption
<1> HIDE DEF fresh, current
<1> QED
  BY <1>1, <1>2, <1>3, <1>4

\* So that news are answered as ServedIsFresh wants them.
LEMMA AnswersAreFresh ==
    ASSUME NEW st \in Seq(Item), NEW topic, NEW now \in Nat,
           NEW e, e = EvaluateFreshness(Candidates(st, topic), topic, now),
           Adequacy(e).outcome = "adequate"
    PROVE  /\ Cardinality({x.id : x \in e.fresh}) = Cardinality(e.fresh)
           /\ Cardinality(e.fresh) >= MinFresh
           /\ \A x \in e.fresh : /\ now <= EntryDate(x.id) + MaxItemAge
                                 /\ now <= x.fetched + MaxFetchAge
<1>1. /\ DedupeItems(st) \subseteq Item /\ IsFiniteSet(DedupeItems(st))
      /\ \A x, y \in DedupeItems(st) : x.id = y.id => x = y
  BY DedupedOnce
<1>2. Candidates(st, topic) \subseteq DedupeItems(st)
  BY DEF Candidates, Latest
<1>3. e.status = "adequate"
  BY DEF Adequacy
<1>4. PICK items : items = Candidates(st, topic)
  OBVIOUS
<1>5. /\ e.fresh \subseteq items
      /\ \A x \in e.fresh : /\ now <= EntryDate(x.id) + MaxItemAge
                            /\ now <= x.fetched + MaxFetchAge
      /\ ~(Cardinality(e.fresh) < MinFresh)
  BY <1>1, <1>2, <1>3, <1>4, FreshItems
<1>6. IsFiniteSet(e.fresh)
  BY <1>1, <1>2, <1>4, <1>5, FS_Subset
<1>7. Cardinality(e.fresh) \in Nat
  BY <1>6, FS_CardinalityType
<1>8. Cardinality({x.id : x \in e.fresh}) = Cardinality(e.fresh)
  <2>1. PICK F : F = e.fresh
    OBVIOUS
  <2>2. \A x, y \in F : x.id = y.id => x = y
    BY <1>1, <1>2, <1>4, <1>5, <2>1
  <2>3. [x \in F |-> x.id] \in Bijection(F, {x.id : x \in F})
    BY <2>2 DEF Bijection, Injection, Surjection, IsInjective
  <2> QED
    BY <1>6, <2>1, <2>3, FS_Bijection DEF ExistsBijection
<1> QED
  BY <1>5, <1>7, <1>8, NewsAssumption

--------------------------------------------------------------------------------
(* Lists. *)

\* Appending puts an element behind what a list has.
LEMMA AppendFacts ==
    ASSUME NEW S, NEW s \in Seq(S), NEW x \in S
    PROVE  /\ Append(s, x) \in Seq(S) /\ Len(s) \in Nat
           /\ DOMAIN s = 1..Len(s) /\ DOMAIN Append(s, x) = 1..(Len(s) + 1)
           /\ Len(Append(s, x)) = Len(s) + 1 /\ Append(s, x)[Len(s) + 1] = x
           /\ \A i \in 1..Len(s) : s[i] \in S /\ Append(s, x)[i] = s[i]
OBVIOUS

\* A list of whatever it has stays one, and has the new element last.
LEMMA ListGrows ==
    ASSUME NEW s, s \in Seq(ToSet(s)), NEW x
    PROVE  /\ Append(s, x) \in Seq(ToSet(Append(s, x)))
           /\ Last(Append(s, x)) = x
           /\ \A i \in DOMAIN Append(s, x) :
                 Append(s, x)[i] = x \/ (i \in DOMAIN s /\ Append(s, x)[i] = s[i])
<1> DEFINE T == ToSet(s) \cup {x}
           t == Append(s, x)
<1>1. s \in Seq(T) /\ x \in T
  <2>1. ToSet(s) \subseteq T /\ x \in T
    OBVIOUS
  <2> HIDE DEF T
  <2> QED
    BY <2>1, SeqMonotonic
<1>2. /\ t \in Seq(T) /\ Len(s) \in Nat /\ DOMAIN s = 1..Len(s) /\ DOMAIN t = 1..(Len(s) + 1)
      /\ Len(t) = Len(s) + 1 /\ t[Len(s) + 1] = x /\ \A i \in 1..Len(s) : t[i] = s[i]
  <2> HIDE DEF T
  <2> QED
    BY <1>1, AppendFacts
<1> HIDE DEF t
<1>3. t \in Seq(ToSet(t))
  <2>1. t \in [1..Len(t) -> T]
    BY <1>2, LenProperties
  <2>2. t \in [1..Len(t) -> ToSet(t)]
    BY <1>2, <2>1 DEF ToSet
  <2>3. Len(t) \in Nat
    BY <1>2
  <2> QED
    BY <2>2, <2>3, SeqDef
<1>4. Last(t) = x
  BY <1>2 DEF Last
<1>5. \A i \in DOMAIN t : t[i] = x \/ (i \in DOMAIN s /\ t[i] = s[i])
  <2> SUFFICES ASSUME NEW i \in DOMAIN t PROVE t[i] = x \/ (i \in DOMAIN s /\ t[i] = s[i])
    OBVIOUS
  <2>1. i \in 1..(Len(s) + 1)
    BY <1>2, Zenon
  <2>2. CASE i \in 1..Len(s)
    BY <1>2, <2>2, Zenon
  <2>3. CASE i = Len(s) + 1
    BY <1>2, <2>3
  <2> QED
    BY <1>2, <2>1, <2>2, <2>3
<1> QED
  BY <1>3, <1>4, <1>5 DEF t

--------------------------------------------------------------------------------
(* The controls. *)

\* A switch that is found on is on.
LEMMA SwitchAllows ==
    ASSUME TypeOK, EvaluateSwitch("tavily_execution", controls, env, clock).allowed
    PROVE  "switch" \in Allowed
<1>1. /\ controls.kind \in {"missing", "malformed", "controls"}
      /\ controls.switch["tavily_execution"].expires \in Expiries
  BY DEF TypeOK, ControlFile, Switches, Switch
<1>2. clock \in Int /\ controls.switch["tavily_execution"].expires \in Int
  BY <1>1 DEF TypeOK, Expiries
<1>3. CASE controls.kind = "missing"
  BY <1>3 DEF EvaluateSwitch, BootstrapSwitch, Blocked, Decide, Allowed, SwitchOn
<1>4. CASE controls.kind = "malformed"
  BY <1>4 DEF EvaluateSwitch, Blocked
<1>5. CASE controls.kind = "controls"
  <2>1. /\ controls.switch["tavily_execution"].state = "enabled"
        /\ ~Expired(controls.switch["tavily_execution"].expires, clock)
    BY <1>5 DEF EvaluateSwitch, Blocked, Decide
  <2>2. Lasting(controls.switch["tavily_execution"])
    BY <1>2, <2>1 DEF Lasting, Expired
  <2> QED
    BY <1>5, <2>1, <2>2 DEF Allowed, SwitchOn
<1> QED
  BY <1>1, <1>3, <1>4, <1>5

\* A grant that is found is there.
LEMMA GrantAllows ==
    ASSUME TypeOK,
           EvaluateControl("provider_authorization", Tavily, controls, env, clock).allowed
    PROVE  "grant" \in Allowed
<1>1. /\ controls.kind \in {"missing", "malformed", "controls"}
      /\ controls.provider["tavily"].expires \in Expiries
  BY NewsAssumption DEF TypeOK, ControlFile, Grant
<1>2. clock \in Int /\ controls.provider["tavily"].expires \in Int
  BY <1>1 DEF TypeOK, Expiries
<1>3. EvaluateProvider("tavily", controls, clock).allowed
  BY DEF EvaluateControl, Tavily
<1>4. CASE controls.kind = "missing"
  BY <1>4 DEF Allowed, GrantOn
<1>5. CASE controls.kind = "malformed"
  BY <1>3, <1>5 DEF EvaluateProvider, Blocked
<1>6. CASE controls.kind = "controls" /\ controls.provider["tavily"].state = "none"
  <2>1. controls.provider_default = "allowed"
    BY <1>3, <1>6 DEF EvaluateProvider, Decide
  <2> QED
    BY <1>6, <2>1 DEF Allowed, GrantOn
<1>7. CASE controls.kind = "controls" /\ controls.provider["tavily"].state # "none"
  <2>1. /\ controls.provider["tavily"].state = "allowed"
        /\ ~Expired(controls.provider["tavily"].expires, clock)
    BY <1>3, <1>7 DEF EvaluateProvider, Blocked, Decide
  <2>2. Lasting(controls.provider["tavily"])
    BY <1>2, <2>1 DEF Lasting, Expired
  <2> QED
    BY <1>7, <2>1, <2>2 DEF Allowed, GrantOn
<1> QED
  BY <1>1, <1>4, <1>5, <1>6, <1>7

\* A decision that leaves no reason against it was allowed by the files, and by
\* the controls (rss_fallback_provider_authorization, execute_external_search).
LEMMA DecisionPermits ==
    ASSUME NEW files, NEW allow, NEW config, NEW dry,
           DisabledReasons(config, Authorize(Tavily, files, allow), dry) = {}
    PROVE  Permits(files) /\ allow
<1> DEFINE declared == IF GovernanceLoads(files) THEN files.governance.state["tavily"] ELSE "none"
           state == CASE declared # "none" -> declared
                      [] declared = "none" /\ GovernanceLoads(files) -> files.governance.default
                      [] OTHER -> "blocked"
           live == state = "allowed" /\ PolicyLoads(files)
           faults == Malformed(files)
               \cup {r \in {"missing_provider_binding", "missing_provider_authorization",
                            "operational_control"} :
                       \/ r = "missing_provider_binding" /\ MissingBinding("tavily", files)
                       \/ r = "missing_provider_authorization" /\ declared = "none"
                       \/ r = "operational_control" /\ state = "allowed" /\ ~allow}
           reasons == faults
               \cup {r \in {"state_not_allowed", "policy_disallows_live_execution"} :
                       \/ r = "state_not_allowed" /\ state # "allowed"
                       \/ r = "policy_disallows_live_execution" /\ ~live}
<1>1. Authorize(Tavily, files, allow).live = (reasons = {})
  BY DEF Authorize, Tavily
<1>2. Authorize(Tavily, files, allow).live
  BY DEF DisabledReasons, LiveAuthorizationReasons
<1>3. reasons = {}
  BY <1>1, <1>2
<1>4. state = "allowed" /\ live
  BY <1>3
<1>5. Malformed(files) = {} /\ declared # "none" /\ ~MissingBinding("tavily", files)
  BY <1>3
<1>6. allow
  BY <1>3, <1>4
<1>7. /\ ContractLoads(files) /\ GovernanceLoads(files) /\ PolicyLoads(files)
      /\ BindingsLoad(files)
  BY <1>5 DEF Malformed
<1>8. files.governance.state["tavily"] = "allowed"
  BY <1>4, <1>5, <1>7
<1> HIDE DEF reasons, faults, live, state, declared
<1>9. AllowsAlone("bindings", files.bindings)
  <2> DEFINE list == files.bindings.list
  <2>1. /\ files.bindings.readable /\ \A b \in ToSet(list) : b.sound
        /\ \A i, j \in DOMAIN list : list[i].id = list[j].id => i = j
        /\ list = <<>> \/ \E b \in ToSet(list) : b.provider = "tavily"
    BY <1>5, <1>7 DEF BindingsLoad, MissingBinding, ToSet
  <2> QED
    BY <2>1 DEF AllowsAlone
<1>10. /\ AllowsAlone("contract", files.contract) /\ AllowsAlone("policy", files.policy)
       /\ AllowsAlone("governance", files.governance)
  BY <1>7, <1>8 DEF AllowsAlone, ContractLoads, GovernanceLoads, PolicyLoads
<1> QED
  BY <1>6, <1>9, <1>10 DEF Permits, PolicyNames

\* A change is shown by the file it makes, which shows all else as it was.
LEMMA ChangeIsShown ==
    ASSUME NEW file \in ControlFile, NEW c \in Change
    PROVE  /\ ApplyChange(file, c) \in ControlFile
           /\ ShownIn(ApplyChange(file, c), c) <=> c.on
           /\ \A d \in Change : d.control # c.control \/ d.target # c.target =>
                 (ShownIn(ApplyChange(file, c), d) <=> ShownIn(file, d))
<1> DEFINE new == ApplyChange(file, c)
           State(r, on) == [state |-> on, expires |-> Kept(c.expires, r.expires)]
<1>1. /\ file = [kind |-> file.kind, switch |-> file.switch,
                 provider_default |-> file.provider_default, provider |-> file.provider,
                 user_default |-> file.user_default, user |-> file.user]
      /\ file.kind \in {"missing", "malformed", "controls"}
      /\ file.switch \in [Switches -> Switch] /\ file.provider_default \in {"allowed", "blocked"}
      /\ file.provider \in [Providers -> Grant] /\ file.user_default \in {"allowed", "blocked"}
      /\ file.user \in [Users -> Grant]
  BY DEF ControlFile
<1>2. c.on \in BOOLEAN /\ c.expires \in Expiries
  BY DEF Change
<1>3. \A r : r.expires \in Expiries => Kept(c.expires, r.expires) \in Expiries
  BY <1>2 DEF Kept
<1>4. CASE c.control \in Switches
  <2> DEFINE s == [state |-> IF c.on THEN "enabled" ELSE "disabled",
                   expires |-> Kept(c.expires, file.switch[c.control].expires)]
  <2>1. new = [file EXCEPT !.switch = [file.switch EXCEPT ![c.control] = s]]
    <3>1. new = [file EXCEPT !.switch[c.control] =
                    [state |-> IF c.on THEN "enabled" ELSE "disabled",
                     expires |-> Kept(c.expires, @.expires)]]
      BY <1>4 DEF ApplyChange, Switches
    <3> HIDE DEF new
    <3> QED
      BY <1>1, <1>4, <3>1
  <2>2. c.target = ""
    BY <1>4 DEF Change, Switches
  <2>3. s \in Switch
    BY <1>1, <1>3, <1>4 DEF Switch
  <2>4. s.state = "enabled" <=> c.on
    BY <1>2
  <2> HIDE DEF s, new
  <2>5. new = [file EXCEPT !.switch = [file.switch EXCEPT ![c.control] = s]]
    BY <2>1
  <2>6. /\ new = [kind |-> file.kind, switch |-> [file.switch EXCEPT ![c.control] = s],
                  provider_default |-> file.provider_default, provider |-> file.provider,
                  user_default |-> file.user_default, user |-> file.user]
    BY <1>1, <2>5
  <2>7. [file.switch EXCEPT ![c.control] = s] \in [Switches -> Switch]
    BY <1>1, <2>3
  <2>8. new \in ControlFile
    BY <1>1, <2>6, <2>7 DEF ControlFile
  <2>9. ShownIn(new, c) <=> c.on
    <3>1. new.switch[c.control] = s
      BY <1>1, <1>4, <2>6
    <3>2. ShownIn(new, c) <=> new.switch[c.control].state = "enabled"
      BY <1>4 DEF ShownIn, Switches
    <3> QED
      BY <2>4, <3>1, <3>2
  <2>10. ASSUME NEW d \in Change, d.control # c.control \/ d.target # c.target
         PROVE  ShownIn(new, d) <=> ShownIn(file, d)
    <3>1. CASE d.control \in Switches
      <4>1. d.target = "" /\ d.control # c.control
        BY <2>2, <2>10, <3>1 DEF Change, Switches
      <4> QED
        BY <1>1, <1>4, <2>6, <3>1, <4>1 DEF ShownIn
    <3>2. CASE d.control \notin Switches
      BY <2>6, <3>2 DEF ShownIn
    <3> QED
      BY <3>1, <3>2
  <2>11. new = ApplyChange(file, c)
    BY DEF new
  <2> QED
    BY <2>8, <2>9, <2>10, <2>11, Zenon
<1>5. CASE c.control = "provider_authorization" /\ c.target = ""
  <2>1. Granted(c.on) \in {"allowed", "blocked"} /\ (Granted(c.on) = "allowed" <=> c.on)
    BY <1>2 DEF Granted
  <2>2. new = [file EXCEPT !.provider_default = Granted(c.on)]
    BY <1>5 DEF ApplyChange, Switches
  <2> HIDE DEF new
  <2>3. new = [kind |-> file.kind, switch |-> file.switch,
               provider_default |-> Granted(c.on), provider |-> file.provider,
               user_default |-> file.user_default, user |-> file.user]
    BY <1>1, <2>2
  <2>4. new \in ControlFile
    BY <1>1, <2>1, <2>3 DEF ControlFile
  <2>5. ShownIn(new, c) <=> c.on
    BY <1>5, <2>1, <2>3 DEF ShownIn, Switches
  <2>6. ASSUME NEW d \in Change, d.control # c.control \/ d.target # c.target
        PROVE  ShownIn(new, d) <=> ShownIn(file, d)
    <3>1. d.control \in Switches \/ d.control \in {"provider_authorization", "telegram_user_access"}
      BY DEF Change
    <3> QED
      BY <1>5, <2>3, <2>6, <3>1 DEF ShownIn, Switches
  <2>7. new = ApplyChange(file, c)
    BY DEF new
  <2> QED
    BY <2>4, <2>5, <2>6, <2>7, Zenon
<1>6. CASE c.control = "provider_authorization" /\ c.target # ""
  <2> DEFINE g == [state |-> Granted(c.on),
                   expires |-> Kept(c.expires, file.provider[c.target].expires)]
  <2>1. Granted(c.on) \in {"allowed", "blocked"} /\ (Granted(c.on) = "allowed" <=> c.on)
    BY <1>2 DEF Granted
  <2>2. c.target \in Providers
    BY <1>6 DEF Change, Switches
  <2>3. new = [file EXCEPT !.provider = [file.provider EXCEPT ![c.target] = g]]
    BY <1>1, <1>6, <2>2 DEF ApplyChange, UpsertTarget, Switches
  <2>4. g \in Grant
    BY <1>1, <1>3, <2>1, <2>2 DEF Grant
  <2>5. g.state = "allowed" <=> c.on
    BY <2>1
  <2> HIDE DEF g, new
  <2>6. new = [kind |-> file.kind, switch |-> file.switch,
               provider_default |-> file.provider_default, provider |-> [file.provider EXCEPT ![c.target] = g],
               user_default |-> file.user_default, user |-> file.user]
    BY <1>1, <2>3
  <2>7. [file.provider EXCEPT ![c.target] = g] \in [Providers -> Grant]
    BY <1>1, <2>4
  <2>8. new \in ControlFile
    BY <1>1, <2>6, <2>7 DEF ControlFile
  <2>9. ShownIn(new, c) <=> c.on
    BY <1>1, <1>6, <2>2, <2>5, <2>6 DEF ShownIn, Switches
  <2>10. ASSUME NEW d \in Change, d.control # c.control \/ d.target # c.target
         PROVE  ShownIn(new, d) <=> ShownIn(file, d)
    <3>1. CASE d.control = c.control /\ d.target # ""
      <4>1. d.target \in Providers /\ d.target # c.target
        BY <1>6, <2>10, <3>1 DEF Change, Switches
      <4>2. new.provider[d.target] = file.provider[d.target]
        BY <1>1, <2>6, <4>1
      <4> QED
        BY <1>6, <3>1, <4>2 DEF ShownIn, Switches
    <3>2. CASE d.control = c.control /\ d.target = ""
      BY <1>6, <2>6, <3>2 DEF ShownIn, Switches
    <3>3. CASE d.control # c.control
      <4>1. d.control \in Switches
               \/ d.control \in {"provider_authorization", "telegram_user_access"}
        BY DEF Change
      <4> QED
        BY <1>6, <2>6, <3>3, <4>1 DEF ShownIn, Switches
    <3> QED
      BY <3>1, <3>2, <3>3
  <2>11. new = ApplyChange(file, c)
    BY DEF new
  <2> QED
    BY <2>8, <2>9, <2>10, <2>11, Zenon
<1>7. CASE c.control = "telegram_user_access" /\ c.target = ""
  <2>1. Granted(c.on) \in {"allowed", "blocked"} /\ (Granted(c.on) = "allowed" <=> c.on)
    BY <1>2 DEF Granted
  <2>2. new = [file EXCEPT !.user_default = Granted(c.on)]
    BY <1>7 DEF ApplyChange, Switches
  <2> HIDE DEF new
  <2>3. new = [kind |-> file.kind, switch |-> file.switch,
               provider_default |-> file.provider_default, provider |-> file.provider,
               user_default |-> Granted(c.on), user |-> file.user]
    BY <1>1, <2>2
  <2>4. new \in ControlFile
    BY <1>1, <2>1, <2>3 DEF ControlFile
  <2>5. ShownIn(new, c) <=> c.on
    BY <1>7, <2>1, <2>3 DEF ShownIn, Switches
  <2>6. ASSUME NEW d \in Change, d.control # c.control \/ d.target # c.target
        PROVE  ShownIn(new, d) <=> ShownIn(file, d)
    <3>1. d.control \in Switches \/ d.control \in {"provider_authorization", "telegram_user_access"}
      BY DEF Change
    <3> QED
      BY <1>7, <2>3, <2>6, <3>1 DEF ShownIn, Switches
  <2>7. new = ApplyChange(file, c)
    BY DEF new
  <2> QED
    BY <2>4, <2>5, <2>6, <2>7, Zenon
<1>8. CASE c.control = "telegram_user_access" /\ c.target # ""
  <2> DEFINE g == [state |-> Granted(c.on),
                   expires |-> Kept(c.expires, file.user[c.target].expires)]
  <2>1. Granted(c.on) \in {"allowed", "blocked"} /\ (Granted(c.on) = "allowed" <=> c.on)
    BY <1>2 DEF Granted
  <2>2. c.target \in Users
    BY <1>8 DEF Change, Switches
  <2>3. new = [file EXCEPT !.user = [file.user EXCEPT ![c.target] = g]]
    BY <1>1, <1>8, <2>2 DEF ApplyChange, UpsertTarget, Switches
  <2>4. g \in Grant
    BY <1>1, <1>3, <2>1, <2>2 DEF Grant
  <2>5. g.state = "allowed" <=> c.on
    BY <2>1
  <2> HIDE DEF g, new
  <2>6. new = [kind |-> file.kind, switch |-> file.switch,
               provider_default |-> file.provider_default, provider |-> file.provider,
               user_default |-> file.user_default, user |-> [file.user EXCEPT ![c.target] = g]]
    BY <1>1, <2>3
  <2>7. [file.user EXCEPT ![c.target] = g] \in [Users -> Grant]
    BY <1>1, <2>4
  <2>8. new \in ControlFile
    BY <1>1, <2>6, <2>7 DEF ControlFile
  <2>9. ShownIn(new, c) <=> c.on
    BY <1>1, <1>8, <2>2, <2>5, <2>6 DEF ShownIn, Switches
  <2>10. ASSUME NEW d \in Change, d.control # c.control \/ d.target # c.target
         PROVE  ShownIn(new, d) <=> ShownIn(file, d)
    <3>1. CASE d.control = c.control /\ d.target # ""
      <4>1. d.target \in Users /\ d.target # c.target
        BY <1>8, <2>10, <3>1 DEF Change, Switches
      <4>2. new.user[d.target] = file.user[d.target]
        BY <1>1, <2>6, <4>1
      <4> QED
        BY <1>8, <3>1, <4>2 DEF ShownIn, Switches
    <3>2. CASE d.control = c.control /\ d.target = ""
      BY <1>8, <2>6, <3>2 DEF ShownIn, Switches
    <3>3. CASE d.control # c.control
      <4>1. d.control \in Switches
               \/ d.control \in {"provider_authorization", "telegram_user_access"}
        BY DEF Change
      <4> QED
        BY <1>8, <2>6, <3>3, <4>1 DEF ShownIn, Switches
    <3> QED
      BY <3>1, <3>2, <3>3
  <2>11. new = ApplyChange(file, c)
    BY DEF new
  <2> QED
    BY <2>8, <2>9, <2>10, <2>11, Zenon
<1> QED
  <2>1. c.control \in Switches \/ c.control = "provider_authorization"
           \/ c.control = "telegram_user_access"
    BY DEF Change
  <2> QED
    BY <1>4, <1>5, <1>6, <1>7, <1>8, <2>1

--------------------------------------------------------------------------------
(* The steps: types. *)

FetcherStates ==
    [pc : {"idle", "read", "loaded", "stored"}, at : Nat, ids : SUBSET Entries,
     known : SUBSET Entries, stored : Nat]
FetchLines == [status : {"fetched", "failed"}, at : Nat, stored : Nat]

\* What an append adds are items.
LEMMA NewItemsAreItems ==
    ASSUME NEW ids \in SUBSET Entries, IsFiniteSet(ids), NEW known, NEW at \in Nat
    PROVE  NewItems(ids, known, at) \in Seq(Item) /\ Len(NewItems(ids, known, at)) \in Nat
<1> DEFINE S == ids \ known
           n == Cardinality(S)
<1>1. IsFiniteSet(S) /\ S \subseteq Entries
  BY FS_Difference
<1>2. n \in Nat /\ ExistsBijection(1..n, S)
  <2> HIDE DEF S
  <2> QED
    BY <1>1, FS_CardinalityType
<1>3. SetToSeq(S) \in [1..n -> S]
  <2>1. \E f \in [1..n -> S] : IsInjective(f)
    BY <1>2 DEF ExistsBijection, Bijection, Injection
  <2> QED
    BY <2>1 DEF SetToSeq
<1>4. NewItems(ids, known, at) = [i \in 1..n |-> [id |-> SetToSeq(S)[i], fetched |-> at]]
  BY DEF NewItems
<1> HIDE DEF S, n
<1>5. NewItems(ids, known, at) \in [1..n -> Item]
  BY <1>1, <1>3, <1>4 DEF Item
<1>6. NewItems(ids, known, at) \in Seq(Item)
  BY <1>2, <1>5, SeqDef
<1> QED
  BY <1>6, LenProperties

\* The steps of the fetchers.
LEMMA FetchersKeepTypes ==
    ASSUME NewsInv, Fetching
    PROVE  TypeOK' /\ Shapes'
<1>1. /\ feed \subseteq Entries /\ store \in Seq(Item) /\ torn \in BOOLEAN
      /\ ingest \in Seq(FetchLines) /\ fetcher \in [Fetchers -> FetcherStates]
      /\ clock \in 1 .. budget.clock
  BY Zenon DEF NewsInv, TypeOK, FetchLines, FetcherStates
<1>2. IsFiniteSet(feed) /\ \A f \in Fetchers : IsFiniteSet(fetcher[f].ids)
  BY DEF NewsInv, Shapes
<1>3. clock \in Nat
  BY <1>1
<1>4. /\ UNCHANGED <<budget, clock, controls, version, operator, receipts, policy, edits, cached,
                     env, run, log, merged>>
      /\ seen' \subseteq {"switch", "grant"} \cup PolicyNames
  <2>1. FetcherOnly
    BY DEF Fetching, Publish, FetchFeed, LoadIds, AppendItems, AuditFetch, CrashFetch
  <2>2. seen \subseteq {"switch", "grant"} \cup PolicyNames
    BY Zenon DEF NewsInv, TypeOK
  <2>3. Remembered \subseteq seen /\ Allowed' \subseteq {"switch", "grant"} \cup PolicyNames
    BY DEF Remembered, Allowed
  <2> QED
    BY <2>1, <2>2, <2>3 DEF FetcherOnly, control, History
<1> SUFFICES /\ feed' \subseteq Entries /\ store' \in Seq(Item) /\ torn' \in BOOLEAN
             /\ ingest' \in Seq(FetchLines) /\ fetcher' \in [Fetchers -> FetcherStates]
             /\ IsFiniteSet(feed') /\ \A f \in Fetchers : IsFiniteSet(fetcher'[f].ids)
  BY <1>4 DEF NewsInv, TypeOK, Shapes, FetchLines, FetcherStates
<1>5. CASE \E e \in Entries : Publish(e)
  <2>1. PICK e \in Entries : feed' = feed \cup {e}
    BY <1>5 DEF Publish
  <2>2. UNCHANGED <<store, torn, ingest, fetcher>>
    BY <1>5 DEF Publish
  <2> QED
    BY <1>1, <1>2, <2>1, <2>2, FS_AddElement
<1>6. ASSUME NEW f \in Fetchers, FetchFeed(f)
      PROVE  /\ feed' \subseteq Entries /\ store' \in Seq(Item) /\ torn' \in BOOLEAN
             /\ ingest' \in Seq(FetchLines) /\ fetcher' \in [Fetchers -> FetcherStates]
             /\ IsFiniteSet(feed') /\ \A g \in Fetchers : IsFiniteSet(fetcher'[g].ids)
  <2>1. UNCHANGED <<feed, store, torn>>
    BY <1>6 DEF FetchFeed
  <2>2. CASE /\ fetcher' = [fetcher EXCEPT ![f] =
                   [NoFetch EXCEPT !.pc = "read", !.at = clock, !.ids = feed]]
             /\ UNCHANGED ingest
    <3> DEFINE r == [NoFetch EXCEPT !.pc = "read", !.at = clock, !.ids = feed]
    <3>1. r \in FetcherStates /\ r.ids = feed
      BY <1>1, <1>3 DEF NoFetch, FetcherStates
    <3>2. fetcher' = [fetcher EXCEPT ![f] = r]
      BY <2>2
    <3> HIDE DEF r
    <3>3. /\ fetcher' \in [Fetchers -> FetcherStates]
          /\ \A g \in Fetchers : fetcher'[g].ids = fetcher[g].ids \/ fetcher'[g].ids = feed
      BY <1>1, <3>1, <3>2
    <3> QED
      BY <1>1, <1>2, <2>1, <2>2, <3>3
  <2>3. CASE /\ ingest' = Append(ingest, [status |-> "failed", at |-> clock, stored |-> 0])
             /\ UNCHANGED fetcher
    <3>1. [status |-> "failed", at |-> clock, stored |-> 0] \in FetchLines
      BY <1>3 DEF FetchLines
    <3>2. ingest' \in Seq(FetchLines)
      BY <1>1, <2>3, <3>1, AppendFacts
    <3> QED
      BY <1>1, <1>2, <2>1, <2>3, <3>2
  <2> QED
    BY <1>6, <2>2, <2>3 DEF FetchFeed
<1>7. ASSUME NEW f \in Fetchers, LoadIds(f)
      PROVE  /\ feed' \subseteq Entries /\ store' \in Seq(Item) /\ torn' \in BOOLEAN
             /\ ingest' \in Seq(FetchLines) /\ fetcher' \in [Fetchers -> FetcherStates]
             /\ IsFiniteSet(feed') /\ \A g \in Fetchers : IsFiniteSet(fetcher'[g].ids)
  <2>1. UNCHANGED <<feed, store, torn, ingest>>
    BY <1>7 DEF LoadIds
  <2>2. StoredIds(store) \subseteq Entries
    <3>1. \A i \in DOMAIN store : store[i] \in Item
      BY <1>1, ElementOfSeq, LenProperties
    <3> QED
      BY <3>1 DEF StoredIds, Item
  <2>3. PICK r : /\ r \in FetcherStates /\ IsFiniteSet(r.ids)
                 /\ fetcher' = [fetcher EXCEPT ![f] = r]
    <3>1. CASE torn
      <4>1. fetcher' = [fetcher EXCEPT ![f] = NoFetch]
        BY <1>7, <3>1 DEF LoadIds
      <4>2. NoFetch \in FetcherStates /\ NoFetch.ids = {}
        BY DEF NoFetch, FetcherStates
      <4> QED
        BY <4>1, <4>2, FS_EmptySet
    <3>2. CASE ~torn
      <4> DEFINE r == [fetcher[f] EXCEPT !.pc = "loaded", !.known = StoredIds(store)]
      <4>1. fetcher' = [fetcher EXCEPT ![f] = r]
        BY <1>1, <1>7, <3>2 DEF LoadIds
      <4>2. r \in FetcherStates /\ r.ids = fetcher[f].ids
        BY <1>1, <2>2 DEF FetcherStates
      <4> QED
        BY <1>2, <4>1, <4>2
    <3> QED
      BY <3>1, <3>2
  <2>4. /\ fetcher' \in [Fetchers -> FetcherStates]
        /\ \A g \in Fetchers : fetcher'[g].ids = fetcher[g].ids \/ fetcher'[g].ids = r.ids
    BY <1>1, <2>3
  <2> QED
    BY <1>1, <1>2, <2>1, <2>3, <2>4
<1>8. ASSUME NEW f \in Fetchers, AppendItems(f) \/ AuditFetch(f) \/ CrashFetch(f)
      PROVE  /\ feed' \subseteq Entries /\ store' \in Seq(Item) /\ torn' \in BOOLEAN
             /\ ingest' \in Seq(FetchLines) /\ fetcher' \in [Fetchers -> FetcherStates]
             /\ IsFiniteSet(feed') /\ \A g \in Fetchers : IsFiniteSet(fetcher'[g].ids)
  <2> DEFINE new == NewItems(fetcher[f].ids, fetcher[f].known, fetcher[f].at)
  <2>1. /\ fetcher[f] \in FetcherStates /\ fetcher[f].ids \in SUBSET Entries
        /\ fetcher[f].at \in Nat /\ fetcher[f].stored \in Nat
    BY <1>1 DEF FetcherStates
  <2>2. new \in Seq(Item) /\ Len(new) \in Nat
    BY <1>2, <2>1, NewItemsAreItems
  <2>3. NoFetch \in FetcherStates /\ IsFiniteSet(NoFetch.ids)
    BY FS_EmptySet DEF NoFetch, FetcherStates
  <2>a. UNCHANGED feed
    BY <1>8 DEF AppendItems, AuditFetch, CrashFetch
  <2>4. CASE AppendItems(f)
    <3> DEFINE r == [fetcher[f] EXCEPT !.pc = "stored", !.stored = Len(new)]
    <3>1. /\ store' = store \o new /\ UNCHANGED <<torn, ingest>>
          /\ fetcher' = [fetcher EXCEPT ![f].pc = "stored", ![f].stored = Len(new)]
      BY <2>4 DEF AppendItems
    <3>2. r \in FetcherStates /\ r.ids = fetcher[f].ids
      BY <2>1, <2>2 DEF FetcherStates
    <3>3. fetcher' = [fetcher EXCEPT ![f] = r]
      BY <1>1, <3>1
    <3> HIDE DEF r, new
    <3>4. store' \in Seq(Item)
      BY <1>1, <2>2, <3>1, ConcatProperties
    <3> QED
      BY <1>1, <1>2, <2>a, <3>1, <3>2, <3>3, <3>4
  <2>5. CASE AuditFetch(f)
    <3>1. /\ ingest' = Append(ingest, [status |-> "fetched", at |-> fetcher[f].at,
                                       stored |-> fetcher[f].stored])
          /\ fetcher' = [fetcher EXCEPT ![f] = NoFetch] /\ UNCHANGED <<store, torn>>
      BY <2>5 DEF AuditFetch, Audited
    <3>2. [status |-> "fetched", at |-> fetcher[f].at, stored |-> fetcher[f].stored] \in FetchLines
      BY <2>1 DEF FetchLines
    <3>3. ingest' \in Seq(FetchLines)
      BY <1>1, <3>1, <3>2, AppendFacts
    <3>4. fetcher' \in [Fetchers -> FetcherStates] /\ \A g \in Fetchers : IsFiniteSet(fetcher'[g].ids)
      BY <1>1, <1>2, <2>3, <3>1
    <3> QED
      BY <1>1, <1>2, <2>a, <3>1, <3>3, <3>4
  <2>6. CASE CrashFetch(f)
    <3>1. fetcher' = [fetcher EXCEPT ![f] = NoFetch] /\ UNCHANGED ingest
      BY <2>6 DEF CrashFetch
    <3>2. store' \in Seq(Item) /\ torn' \in BOOLEAN
      <4>1. CASE UNCHANGED <<store, torn>>
        BY <1>1, <4>1
      <4>2. CASE \E n \in 0 .. Len(new) :
                    /\ store' = store \o SubSeq(new, 1, n)
                    /\ torn' \in {torn, n < Len(new) \/ torn}
        <5> HIDE DEF new
        <5>1. PICK n \in 0 .. Len(new) : /\ store' = store \o SubSeq(new, 1, n)
                                         /\ torn' \in {torn, n < Len(new) \/ torn}
          BY <4>2
        <5>2. SubSeq(new, 1, n) \in Seq(Item)
          <6>1. \A i \in 1..n : new[i] \in Item
            BY <2>2, <5>1, ElementOfSeq
          <6> QED
            BY <2>2, <5>1, <6>1, SubSeqProperties
        <5>3. store' \in Seq(Item)
          BY <1>1, <5>1, <5>2, ConcatProperties
        <5> QED
          BY <1>1, <5>1, <5>3
      <4> QED
        BY <2>6, <4>1, <4>2 DEF CrashFetch
    <3>3. fetcher' \in [Fetchers -> FetcherStates] /\ \A g \in Fetchers : IsFiniteSet(fetcher'[g].ids)
      BY <1>1, <1>2, <2>3, <3>1
    <3> QED
      BY <1>1, <1>2, <2>a, <3>1, <3>2, <3>3
  <2> QED
    BY <1>8, <2>4, <2>5, <2>6
<1> QED
  BY <1>5, <1>6, <1>7, <1>8 DEF Fetching

--------------------------------------------------------------------------------
(* The steps: what is remembered. *)

\* Nothing but the end of a process or a request makes anything forgotten, and
\* the end of a request not what the policy files have allowed.
LEMMA MemoryLasts ==
    ASSUME NewsInv, History
    PROVE  /\ seen' \subseteq {"switch", "grant"} \cup PolicyNames /\ Allowed' \subseteq seen'
           /\ run'.pc # "idle" => seen \subseteq seen'
           /\ run.pc = "idle" \/ run'.pc # "idle" \/ Last(log').pc # "crashed" =>
                 seen \cap PolicyNames \subseteq seen'
           /\ UNCHANGED budget
<1>1. seen \subseteq {"switch", "grant"} \cup PolicyNames
  BY Zenon DEF NewsInv, TypeOK
<1>2. Allowed' \subseteq {"switch", "grant"} \cup PolicyNames
  BY DEF Allowed
<1> QED
  BY <1>1, <1>2 DEF History, Remembered

\* A step of others than the bot leaves all it has seen and served as it was.
LEMMA QuietSteps ==
    ASSUME NewsInv, History, UNCHANGED <<cached, run, log>>
    PROVE  AllowedWasSeen' /\ CallsFollowControls' /\ ServedIsFresh'
<1>1. /\ Allowed' \subseteq seen'
      /\ run.pc # "idle" => seen \subseteq seen'
      /\ seen \cap PolicyNames \subseteq seen'
  BY MemoryLasts
<1>2. AllowedWasSeen'
  <2>1. /\ run.pc = "granted" /\ run.grant => "grant" \in seen
        /\ run.pc = "granted" => \A name \in PolicyNames : cached[name] # <<>>
        /\ KeptWasSeen
    BY DEF NewsInv, AllowedWasSeen
  <2>2. KeptWasSeen'
    BY <1>1, <2>1 DEF KeptWasSeen
  <2> QED
    BY <1>1, <2>1, <2>2 DEF AllowedWasSeen
<1>3. CallsFollowControls'
  BY <1>1 DEF NewsInv, CallsFollowControls
<1>4. ServedIsFresh'
  BY Zenon DEF NewsInv, ServedIsFresh
<1> QED
  BY <1>2, <1>3, <1>4

\* The property tells of the file there is what is told of those loaded.
LEMMA ChangesShown ==
    ChangesLostOnlyByOverlap <=>
        \A r \in receipts :
            \/ r.receipt.effective = ShownIn(controls, r.receipt.change)
            \/ Overtaken(r)
BY DEF ChangesLostOnlyByOverlap, Shown, ShownIn, Overtaken

\* So it does where the file and the receipts stay.
LEMMA NoOperatorShown ==
    ASSUME ChangesLostOnlyByOverlap, UNCHANGED <<controls, receipts>>
    PROVE  ChangesLostOnlyByOverlap'
<1> SUFFICES ASSUME NEW r \in receipts'
             PROVE  \/ r.receipt.effective = ShownIn(controls', r.receipt.change)
                    \/ Overtaken(r)'
  BY Zenon DEF ChangesLostOnlyByOverlap, Shown, ShownIn, Overtaken
<1>1. \/ r.receipt.effective = ShownIn(controls, r.receipt.change)
      \/ Overtaken(r)
  BY ChangesShown
<1> QED
  BY <1>1 DEF Overtaken

\* A step that is no operator's leaves the receipts true.
LEMMA NoOperator ==
    ASSUME NewsInv, UNCHANGED <<controls, version, operator, receipts>>
    PROVE  LoadedShowsChanges' /\ ChangesLostOnlyByOverlap'
<1>1. LoadedShowsChanges'
  BY DEF NewsInv, LoadedShowsChanges, Overtaken
<1> QED
  BY <1>1, NoOperatorShown DEF NewsInv

--------------------------------------------------------------------------------
(* The steps of the operators. *)

Loads == [loaded : BOOLEAN, from : Nat, file : ControlFile]

LEMMA ShownIsBoolean ==
    ASSUME NEW file, NEW c
    PROVE  ShownIn(file, c) \in BOOLEAN
BY DEF ShownIn

LEMMA SameBooleans ==
    ASSUME NEW a \in BOOLEAN, NEW b \in BOOLEAN, a <=> b
    PROVE  a = b
OBVIOUS

\* What an operator loads shows what the file shows.
LEMMA LoadKeeps ==
    ASSUME NewsInv, NEW o \in Operators, LoadControls(o)
    PROVE  /\ operator' \in [Operators -> Loads]
           /\ LoadedShowsChanges' /\ ChangesLostOnlyByOverlap'
<1>1. /\ operator \in [Operators -> Loads] /\ controls \in ControlFile
      /\ version \in Nat /\ \A p \in Operators : operator[p].from <= version
  BY Zenon DEF NewsInv, TypeOK, LoadedShowsChanges, Loads
<1>2. /\ operator' = [operator EXCEPT ![o] = [loaded |-> TRUE, from |-> version, file |-> controls]]
      /\ UNCHANGED <<controls, version, receipts>>
  BY DEF LoadControls
<1>3. operator' \in [Operators -> Loads]
  BY <1>1, <1>2 DEF Loads
<1>4. \A r \in receipts : \/ r.receipt.effective = ShownIn(controls, r.receipt.change)
                          \/ Overtaken(r)
  BY ChangesShown DEF NewsInv
<1>5. /\ operator'[o].from = version /\ operator'[o].file = controls
      /\ \A p \in Operators : p # o => operator'[p] = operator[p]
  BY <1>1, <1>2
<1>6. ChangesLostOnlyByOverlap'
  BY <1>2, NoOperatorShown DEF NewsInv
<1>7. LoadedShowsChanges'
  <2>1. \A r : Overtaken(r)' <=> Overtaken(r)
    BY <1>2 DEF Overtaken
  <2>2. /\ version' \in Nat
        /\ \A r \in receipts' : /\ r.from \in Nat /\ r.to \in 1 .. version'
                                /\ r.receipt.effective = r.receipt.change.on
    BY <1>2 DEF NewsInv, LoadedShowsChanges
  <2>3. ASSUME NEW p \in Operators
        PROVE  /\ operator'[p].from <= version'
               /\ operator'[p].loaded =>
                     \A r \in receipts' : r.to <= operator'[p].from =>
                         \/ r.receipt.effective = ShownIn(operator'[p].file, r.receipt.change)
                         \/ Overtaken(r)'
    <3>1. CASE p = o
      <4>1. version <= version
        BY <1>1
      <4> QED
        BY <1>2, <1>4, <1>5, <2>1, <3>1, <4>1
    <3>2. CASE p # o
      <4>1. operator'[p] = operator[p]
        BY <1>5, <3>2
      <4> QED
        BY <1>2, <2>1, <4>1 DEF NewsInv, LoadedShowsChanges
    <3> QED
      BY <3>1, <3>2
  <2> QED
    BY <2>2, <2>3 DEF LoadedShowsChanges
<1> QED
  BY <1>3, <1>6, <1>7

\* A change that is saved is shown, and overtakes those that its file lacks.
LEMMA SaveKeeps ==
    ASSUME NewsInv, NEW o \in Operators, SaveControls(o)
    PROVE  /\ operator' \in [Operators -> Loads] /\ controls' \in ControlFile
           /\ \A r \in receipts' : r.receipt.change \in OfferedChanges /\ r.from < r.to
           /\ LoadedShowsChanges' /\ ChangesLostOnlyByOverlap'
<1>1. /\ operator \in [Operators -> Loads] /\ version \in Nat
      /\ \A p \in Operators : operator[p].from <= version
      /\ \A r \in receipts : r.receipt.change \in OfferedChanges /\ r.from < r.to
  BY Zenon DEF NewsInv, TypeOK, LoadedShowsChanges, Loads
<1>2. PICK c \in OfferedChanges :
         /\ controls' = ApplyChange(operator[o].file, c)
         /\ receipts' = receipts \cup
               {[receipt |-> ChangeReceipt(c), from |-> operator[o].from, to |-> version + 1]}
  BY DEF SaveControls
<1>3. /\ version' = version + 1 /\ operator' = [operator EXCEPT ![o] = NotLoaded]
      /\ operator[o].loaded
  BY DEF SaveControls
<1>4. /\ operator[o].file \in ControlFile /\ operator[o].from \in Nat
      /\ operator[o].from <= version /\ c \in Change
  BY <1>1, <1>2, NewsAssumption DEF Loads
<1> DEFINE file == operator[o].file
<1>5. /\ controls' \in ControlFile
      /\ ShownIn(controls', c) <=> c.on
      /\ \A d \in Change : d.control # c.control \/ d.target # c.target =>
            (ShownIn(controls', d) <=> ShownIn(file, d))
  BY <1>2, <1>4, ChangeIsShown
<1>6. PICK n : /\ receipts' = receipts \cup {n}
               /\ n.from = operator[o].from /\ n.to = version + 1
               /\ n.receipt.change = c /\ n.receipt.effective = c.on
  <2>1. PICK n : n = [receipt |-> [change |-> c, effective |-> c.on],
                      from |-> operator[o].from, to |-> version + 1]
    OBVIOUS
  <2>2. receipts' = receipts \cup {n}
    BY <1>2, <2>1 DEF ChangeReceipt
  <2> QED
    BY <2>1, <2>2
<1>7. /\ operator'[o] = NotLoaded /\ \A p \in Operators : p # o => operator'[p] = operator[p]
  BY <1>1, <1>3
<1>8. operator' \in [Operators -> Loads]
  <2>1. Shipped \in ControlFile
    BY NewsAssumption DEF Shipped, ControlFile, Switch, Grant, Expiries
  <2>2. NotLoaded \in Loads
    BY <2>1 DEF NotLoaded, Loads
  <2> QED
    BY <1>1, <1>3, <2>2
<1>9. \A r \in receipts : /\ r.from \in Nat /\ r.to \in 1 .. version
                          /\ r.receipt.effective = r.receipt.change.on
                          /\ r.receipt.change \in Change
  BY <1>1, NewsAssumption DEF NewsInv, LoadedShowsChanges
<1>10. \A r \in receipts' : /\ r.from \in Nat /\ r.to \in 1 .. version'
                            /\ r.receipt.effective = r.receipt.change.on
                            /\ r.receipt.change \in OfferedChanges /\ r.from < r.to
  BY <1>1, <1>2, <1>3, <1>4, <1>6, <1>9
<1>11. \A r : Overtaken(r) => Overtaken(r)'
  BY <1>6 DEF Overtaken
<1>12. ChangesLostOnlyByOverlap'
  <2> SUFFICES ASSUME NEW r \in receipts'
               PROVE  \/ r.receipt.effective = ShownIn(controls', r.receipt.change)
                      \/ Overtaken(r)'
    BY Zenon DEF ChangesLostOnlyByOverlap, Shown, ShownIn, Overtaken
  <2>1. CASE r = n
    <3>1. c.on \in BOOLEAN /\ r.receipt.change = c /\ r.receipt.effective = c.on
      BY <1>4, <1>6, <2>1 DEF Change
    <3>2. c.on = ShownIn(controls', c)
      BY <1>5, <3>1, ShownIsBoolean, SameBooleans
    <3> QED
      BY <3>1, <3>2
  <2>2. CASE r # n /\ (r.to > operator[o].from \/ (/\ r.receipt.change.control = c.control
                                                   /\ r.receipt.change.target = c.target))
    <3>1. r \in receipts /\ n \in receipts' /\ n.to > r.to
      BY <1>1, <1>6, <1>9, <2>2
    <3>2. \/ n.from < r.to
          \/ /\ n.receipt.change.control = r.receipt.change.control
             /\ n.receipt.change.target = r.receipt.change.target
      BY <1>4, <1>6, <1>9, <2>2, <3>1
    <3> QED
      BY <3>1, <3>2 DEF Overtaken
  <2>3. CASE r # n /\ r.to <= operator[o].from
                   /\ (\/ r.receipt.change.control # c.control
                       \/ r.receipt.change.target # c.target)
    <3>1. r \in receipts
      BY <1>6, <2>3
    <3>2. \/ r.receipt.effective = ShownIn(file, r.receipt.change)
          \/ Overtaken(r)
      BY <1>3, <2>3, <3>1 DEF NewsInv, LoadedShowsChanges
    <3>3. r.receipt.change \in Change /\ r.receipt.effective \in BOOLEAN
      BY <1>9, <3>1 DEF Change
    <3>4. ShownIn(controls', r.receipt.change) <=> ShownIn(file, r.receipt.change)
      BY <1>5, <2>3, <3>3
    <3>5. ShownIn(controls', r.receipt.change) = ShownIn(file, r.receipt.change)
      BY <3>4, ShownIsBoolean, SameBooleans
    <3> QED
      BY <1>11, <3>2, <3>5
  <2>4. r # n => r.to \in Nat
    BY <1>1, <1>6, <1>9
  <2> QED
    BY <1>4, <2>1, <2>2, <2>3, <2>4
<1>13. LoadedShowsChanges'
  <2>1. version' \in Nat
    BY <1>1, <1>3
  <2>2. ASSUME NEW p \in Operators
        PROVE  /\ operator'[p].from <= version'
               /\ operator'[p].loaded =>
                     \A r \in receipts' : r.to <= operator'[p].from =>
                         \/ r.receipt.effective = ShownIn(operator'[p].file, r.receipt.change)
                         \/ Overtaken(r)'
    <3>1. CASE p = o
      BY <1>7, <2>1, <3>1 DEF NotLoaded
    <3>2. CASE p # o
      <4>1. operator'[p] = operator[p] /\ operator[p].from \in Nat /\ operator[p].from <= version
        BY <1>1, <1>7, <3>2 DEF Loads
      <4>2. ASSUME operator[p].loaded, NEW r \in receipts', r.to <= operator[p].from
            PROVE  \/ r.receipt.effective = ShownIn(operator[p].file, r.receipt.change)
                   \/ Overtaken(r)'
        <5>1. r \in receipts
          <6>1. r # n
            BY <1>1, <1>6, <4>1, <4>2
          <6> QED
            BY <1>6, <6>1
        <5> QED
          BY <1>11, <4>2, <5>1 DEF NewsInv, LoadedShowsChanges
      <4> QED
        BY <1>1, <1>3, <4>1, <4>2
    <3> QED
      BY <3>1, <3>2
  <2> QED
    BY <1>10, <2>1, <2>2 DEF LoadedShowsChanges
<1> QED
  BY <1>5, <1>8, <1>10, <1>12, <1>13

--------------------------------------------------------------------------------
(* The steps of the bot. *)

PcsAtWork == {"pilot", "authorize", "granted", "call", "escalate"}

\* What ServedIsFresh says of one request.
AnsweredFresh(r) ==
    r.pc = "answered" =>
        LET items == r.served IN
        /\ Cardinality({x.id : x \in items}) = Cardinality(items)
        /\ Cardinality(items) >= MinFresh
        /\ \A x \in items :
            /\ r.at <= EntryDate(x.id) + MaxItemAge
            /\ r.at <= x.fetched + MaxFetchAge

BotKeeps ==
    /\ TypeOK' /\ Shapes'
    /\ AllowedWasSeen' /\ CallsFollowControls' /\ ServedIsFresh'

\* What the bot does leaves what is allowed, and all types but its own.
LEMMA BotLeaves ==
    ASSUME NewsInv, Bot, KeepsOrReads \/ Forgets, run'.pc \in {"idle"} \cup PcsAtWork
    PROVE  TypeOK' /\ Allowed' = Allowed
<1>1. UNCHANGED <<clock, feed, store, torn, ingest, fetcher, fetches, controls, version, operator,
                  receipts, policy, edits, env, merged, budget>>
  BY DEF Bot, cache, control, History
<1>2. seen' \subseteq {"switch", "grant"} \cup PolicyNames
  BY MemoryLasts DEF Bot
<1>3. TypeOK'
  <2>1. /\ DOMAIN policy = PolicyNames
        /\ \A name \in PolicyNames :
              LET offered == {p[name] : p \in OfferedPolicies} IN
              policy[name] \in offered
                  /\ (cached[name] = <<>> \/ \E file \in offered : cached[name] = <<file>>)
    BY DEF NewsInv, TypeOK
  <2>2. DOMAIN cached' = PolicyNames
    BY DEF KeepsOrReads, Forgets
  <2>3. \A name \in PolicyNames :
            \/ cached'[name] = <<>> \/ cached'[name] = cached[name]
            \/ cached'[name] = <<policy[name]>>
    BY DEF KeepsOrReads, Forgets
  <2>4. \A name \in PolicyNames :
            LET offered == {p[name] : p \in OfferedPolicies} IN
            policy'[name] \in offered
                /\ (cached'[name] = <<>> \/ \E file \in offered : cached'[name] = <<file>>)
    BY <1>1, <2>1, <2>3
  <2> QED
    BY <1>1, <1>2, <2>1, <2>2, <2>4 DEF NewsInv, TypeOK, PcsAtWork
<1>4. Allowed' = Allowed
  BY <1>1 DEF Allowed, SwitchOn, GrantOn, Lasting
<1> QED
  BY <1>3, <1>4

\* The policy files that a process has read are remembered with what they allow.
LEMMA PolicyRemembered ==
    ASSUME NewsInv, History, Allowed' = Allowed,
           run.pc = "idle" \/ run'.pc # "idle" \/ Last(log').pc # "crashed",
           KeepsOrReads
    PROVE  KeptWasSeen'
<1> SUFFICES ASSUME NEW name \in PolicyNames, cached'[name] # <<>>,
                    AllowsAlone(name, cached'[name][1])
             PROVE  name \in seen'
  BY DEF KeptWasSeen
<1>1. seen \cap PolicyNames \subseteq seen' /\ Allowed' \subseteq seen'
  BY MemoryLasts
<1>2. CASE cached'[name] = cached[name]
  BY <1>1, <1>2 DEF NewsInv, AllowedWasSeen, KeptWasSeen
<1>3. CASE cached'[name] = <<policy[name]>>
  <2>1. AllowsAlone(name, policy[name])
    BY <1>3
  <2>2. name \in Allowed
    BY <2>1 DEF Allowed
  <2> QED
    BY <1>1, <2>2
<1> QED
  BY <1>2, <1>3 DEF KeepsOrReads

\* The end of a request.
LEMMA Ends ==
    ASSUME NewsInv, Bot, NEW r, End(r), AnsweredFresh(r),
           IF r.pc = "crashed" THEN Forgets ELSE KeepsOrReads
    PROVE  BotKeeps
<1>1. run' = Idle /\ log' = Append(log, r)
  BY DEF End
<1>2. run'.pc = "idle" /\ RunFields \subseteq DOMAIN run'
  BY <1>1 DEF Idle, RunFields
<1>3. TypeOK' /\ Allowed' = Allowed
  BY <1>2, BotLeaves
<1>4. log \in Seq(ToSet(log))
  BY DEF NewsInv, Shapes
<1>5. /\ log' \in Seq(ToSet(log')) /\ Last(log') = r
      /\ \A i \in DOMAIN log' : log'[i] = r \/ (i \in DOMAIN log /\ log'[i] = log[i])
  BY <1>1, <1>4, ListGrows
<1>6. Shapes'
  BY <1>2, <1>5 DEF NewsInv, Shapes, Bot, cache
<1>7. ServedIsFresh'
  <2>1. \A i \in DOMAIN log : AnsweredFresh(log[i])
    BY Zenon DEF NewsInv, ServedIsFresh, AnsweredFresh
  <2>2. \A i \in DOMAIN log' : AnsweredFresh(log'[i])
    BY <1>5, <2>1
  <2> QED
    BY <2>2, Zenon DEF ServedIsFresh, AnsweredFresh
<1>8. CallsFollowControls'
  BY <1>2 DEF CallsFollowControls
<1>9. AllowedWasSeen'
  <2>1. KeptWasSeen'
    <3>1. CASE r.pc = "crashed"
      BY <3>1 DEF KeptWasSeen, Forgets
    <3>2. CASE r.pc # "crashed"
      <4>1. Last(log').pc # "crashed" /\ History /\ KeepsOrReads
        BY <1>5, <3>2 DEF Bot
      <4> QED
        BY <1>3, <4>1, PolicyRemembered
    <3> QED
      BY <3>1, <3>2
  <2>2. Allowed' \subseteq seen'
    BY MemoryLasts DEF Bot
  <2> QED
    BY <1>2, <2>1, <2>2 DEF AllowedWasSeen
<1> QED
  BY <1>3, <1>6, <1>7, <1>8, <1>9 DEF BotKeeps

\* A request goes on: what has to be seen for that has been, or is allowed now.
LEMMA GoesOn ==
    ASSUME NewsInv, Bot, UNCHANGED log, KeepsOrReads,
           run'.pc \in PcsAtWork, RunFields \subseteq DOMAIN run',
           run'.pc = "granted" =>
               /\ run'.grant => "grant" \in Allowed
               /\ \A name \in PolicyNames : cached'[name] # <<>>,
           run'.pc = "call" => "switch" \in Allowed,
           run'.pc = "call" /\ run'.kind # "search" =>
               /\ "grant" \in seen
               /\ \A name \in PolicyNames :
                     cached'[name] # <<>> /\ AllowsAlone(name, cached'[name][1])
    PROVE  BotKeeps
<1>1. TypeOK' /\ Allowed' = Allowed
  BY BotLeaves
<1>2. run'.pc # "idle"
  BY DEF PcsAtWork
<1>3. Allowed \subseteq seen' /\ seen \subseteq seen' /\ KeptWasSeen'
  BY <1>1, <1>2, MemoryLasts, PolicyRemembered DEF Bot
<1>4. Shapes'
  BY DEF NewsInv, Shapes, Bot, cache
<1>5. AllowedWasSeen'
  BY <1>1, <1>3 DEF AllowedWasSeen
<1>6. CallsFollowControls'
  BY <1>1, <1>3 DEF CallsFollowControls, KeptWasSeen
<1>7. ServedIsFresh'
  BY Zenon DEF NewsInv, ServedIsFresh
<1> QED
  BY <1>1, <1>4, <1>5, <1>6, <1>7 DEF BotKeeps

\* A step that reads no policy file keeps those it has.
LEMMA CacheStays ==
    ASSUME NewsInv, UNCHANGED cached
    PROVE  KeepsOrReads
BY DEF NewsInv, TypeOK, KeepsOrReads

\* News are answered from what is fresh, or the request goes on.
LEMMA NewsStart ==
    ASSUME NewsInv, StartNews
    PROVE  BotKeeps
<1>1. store \in Seq(Item) /\ clock \in Nat
  BY DEF NewsInv, TypeOK
<1>2. Bot /\ KeepsOrReads
  BY CacheStays DEF StartNews
<1>3. PICK topic \in Topics, live \in BOOLEAN :
        LET evaluation == EvaluateFreshness(Candidates(store, topic), topic, clock)
            adequacy   == Adequacy(evaluation)
            r == [Idle EXCEPT !.kind = "news", !.live = live, !.topic = topic,
                              !.at = clock, !.reason = adequacy.reason,
                              !.offers = Offers(adequacy)]
        IN IF torn THEN End([r EXCEPT !.pc = "raised"])
           ELSE IF adequacy.outcome = "adequate"
               THEN End([r EXCEPT !.pc = "answered", !.served = evaluation.fresh])
           ELSE /\ run' = [r EXCEPT !.pc = IF live THEN "pilot" ELSE "escalate"]
                /\ UNCHANGED log
  BY Zenon DEF StartNews
<1> DEFINE e == EvaluateFreshness(Candidates(store, topic), topic, clock)
           r == [Idle EXCEPT !.kind = "news", !.live = live, !.topic = topic,
                             !.at = clock, !.reason = Adequacy(e).reason,
                             !.offers = Offers(Adequacy(e))]
<1>4. /\ RunFields \cup {"served", "at"} \subseteq DOMAIN r /\ r.at = clock
  BY DEF Idle, RunFields
<1>5. \/ End([r EXCEPT !.pc = "raised"])
      \/ /\ Adequacy(e).outcome = "adequate"
         /\ End([r EXCEPT !.pc = "answered", !.served = e.fresh])
      \/ run' = [r EXCEPT !.pc = IF live THEN "pilot" ELSE "escalate"] /\ UNCHANGED log
  BY <1>3, Zenon
<1> HIDE DEF r
<1>6. CASE End([r EXCEPT !.pc = "raised"])
  <2>1. PICK q : q = [r EXCEPT !.pc = "raised"] /\ End(q)
    BY <1>6
  <2>2. q.pc = "raised"
    BY <1>4, <2>1 DEF RunFields
  <2> QED
    BY <1>1, <1>2, <2>1, <2>2, Ends DEF AnsweredFresh
<1>7. CASE /\ Adequacy(e).outcome = "adequate"
           /\ End([r EXCEPT !.pc = "answered", !.served = e.fresh])
  <2>1. PICK q : q = [r EXCEPT !.pc = "answered", !.served = e.fresh] /\ End(q)
    BY <1>7
  <2>2. q.pc = "answered" /\ q.served = e.fresh /\ q.at = clock
    BY <1>4, <2>1 DEF RunFields
  <2>3. PICK f : f = e
    OBVIOUS
  <2>4. /\ Cardinality({x.id : x \in f.fresh}) = Cardinality(f.fresh)
        /\ Cardinality(f.fresh) >= MinFresh
        /\ \A x \in f.fresh : /\ clock <= EntryDate(x.id) + MaxItemAge
                              /\ clock <= x.fetched + MaxFetchAge
    BY <1>1, <1>7, <2>3, AnswersAreFresh
  <2>5. AnsweredFresh(q)
    BY <2>2, <2>3, <2>4, Zenon DEF AnsweredFresh
  <2> QED
    BY <1>1, <1>2, <2>1, <2>2, <2>5, Ends
<1>8. CASE run' = [r EXCEPT !.pc = IF live THEN "pilot" ELSE "escalate"] /\ UNCHANGED log
  <2>1. run'.pc \in {"pilot", "escalate"} /\ RunFields \subseteq DOMAIN run'
    BY <1>4, <1>8 DEF RunFields
  <2> QED
    BY <1>1, <1>2, <1>8, <2>1, GoesOn DEF PcsAtWork
<1> QED
  BY <1>5, <1>6, <1>7, <1>8

\* A request for guests goes on to the authorization, or ends.
LEMMA GuestStart ==
    ASSUME NewsInv, StartGuest
    PROVE  BotKeeps
<1>1. Bot /\ KeepsOrReads
  BY CacheStays DEF StartGuest
<1>2. PICK eligible \in BOOLEAN, live \in BOOLEAN, asked \in Requested :
        LET r == [Idle EXCEPT !.kind = "guest", !.live = live, !.at = clock] IN
        IF eligible /\ live
            THEN /\ run' = [r EXCEPT !.pc = "authorize", !.boundary = TRUE, !.asked = asked]
                 /\ UNCHANGED log
            ELSE End([r EXCEPT !.pc = "not_attempted"])
  BY Zenon DEF StartGuest
<1> DEFINE r == [Idle EXCEPT !.kind = "guest", !.live = live, !.at = clock]
<1>3. RunFields \subseteq DOMAIN r
  BY DEF Idle, RunFields
<1>4. \/ /\ run' = [r EXCEPT !.pc = "authorize", !.boundary = TRUE, !.asked = asked]
         /\ UNCHANGED log
      \/ End([r EXCEPT !.pc = "not_attempted"])
  BY <1>2, Zenon
<1> HIDE DEF r
<1>5. CASE /\ run' = [r EXCEPT !.pc = "authorize", !.boundary = TRUE, !.asked = asked]
           /\ UNCHANGED log
  <2>1. run'.pc = "authorize" /\ RunFields \subseteq DOMAIN run'
    BY <1>3, <1>5 DEF RunFields
  <2> QED
    BY <1>1, <1>5, <2>1, GoesOn DEF PcsAtWork
<1>6. CASE End([r EXCEPT !.pc = "not_attempted"])
  <2>1. PICK q : q = [r EXCEPT !.pc = "not_attempted"] /\ End(q)
    BY <1>6
  <2>2. q.pc = "not_attempted"
    BY <1>3, <2>1 DEF RunFields
  <2> QED
    BY <1>1, <2>1, <2>2, Ends DEF AnsweredFresh
<1> QED
  BY <1>4, <1>5, <1>6

\* The older adapter calls only where the switch is on.
LEMMA SearchStart ==
    ASSUME NewsInv, StartSearch
    PROVE  BotKeeps
<1>1. Bot /\ KeepsOrReads
  BY CacheStays DEF StartSearch
<1>2. PICK config \in SearchConfigs :
        LET refused == SearchRefused(config,
                EvaluateSwitch("tavily_execution", controls, env, clock).allowed, env)
            r == [Idle EXCEPT !.kind = "search", !.live = config.live, !.at = clock]
        IN IF refused = "" THEN run' = [r EXCEPT !.pc = "call"] /\ UNCHANGED log
           ELSE End([r EXCEPT !.pc = "closed", !.found = <<ClosedResult(refused)>>])
  BY Zenon DEF StartSearch
<1> DEFINE allowed == EvaluateSwitch("tavily_execution", controls, env, clock).allowed
           refused == SearchRefused(config, allowed, env)
           r == [Idle EXCEPT !.kind = "search", !.live = config.live, !.at = clock]
<1>3. RunFields \subseteq DOMAIN r /\ r.kind = "search"
  BY DEF Idle, RunFields
<1>4. \/ refused = "" /\ run' = [r EXCEPT !.pc = "call"] /\ UNCHANGED log
      \/ End([r EXCEPT !.pc = "closed", !.found = <<ClosedResult(refused)>>])
  BY <1>2, Zenon
<1>5. refused = "" => allowed
  BY DEF SearchRefused
<1> HIDE DEF r, refused
<1>6. CASE refused = "" /\ run' = [r EXCEPT !.pc = "call"] /\ UNCHANGED log
  <2>1. "switch" \in Allowed
    BY <1>5, <1>6, SwitchAllows DEF NewsInv
  <2>2. run'.pc = "call" /\ run'.kind = "search" /\ RunFields \subseteq DOMAIN run'
    BY <1>3, <1>6 DEF RunFields
  <2> QED
    BY <1>1, <1>6, <2>1, <2>2, GoesOn DEF PcsAtWork
<1>7. CASE End([r EXCEPT !.pc = "closed", !.found = <<ClosedResult(refused)>>])
  <2>1. PICK q : q = [r EXCEPT !.pc = "closed", !.found = <<ClosedResult(refused)>>] /\ End(q)
    BY <1>7
  <2>2. q.pc = "closed"
    BY <1>3, <2>1 DEF RunFields
  <2> QED
    BY <1>1, <2>1, <2>2, Ends DEF AnsweredFresh
<1> QED
  BY <1>4, <1>6, <1>7

\* What comes after the provider does nothing more than end or go on.
LEMMA ProviderEnds ==
    ASSUME NewsInv, Bot, NEW r, AfterProvider(r), RunFields \subseteq DOMAIN r, KeepsOrReads
    PROVE  BotKeeps
<1>1. CASE r.kind = "news"
  <2>1. run' = [r EXCEPT !.pc = "escalate"] /\ UNCHANGED log
    BY <1>1 DEF AfterProvider
  <2>2. run'.pc = "escalate" /\ RunFields \subseteq DOMAIN run'
    BY <2>1 DEF RunFields
  <2> QED
    BY <2>1, <2>2, GoesOn DEF PcsAtWork
<1>2. CASE r.kind # "news"
  <2>1. PICK q : q = [r EXCEPT !.pc = "handled"] /\ End(q)
    BY <1>2 DEF AfterProvider
  <2>2. q.pc = "handled"
    BY <2>1 DEF RunFields
  <2> QED
    BY <2>1, <2>2, Ends DEF AnsweredFresh
<1> QED
  BY <1>1, <1>2

\* A policy file is read.
LEMMA FileKeeps ==
    ASSUME NewsInv, LoadPolicyFile
    PROVE  BotKeeps
<1>1. PICK name \in PolicyNames : cached' = [cached EXCEPT ![name] = <<policy[name]>>]
  <2>1. DOMAIN LoadOrder = 1 .. 4 /\ \A k \in 1 .. 4 : LoadOrder[k] \in PolicyNames
    BY DEF LoadOrder, PolicyNames
  <2> QED
    BY <2>1 DEF LoadPolicyFile
<1>2. DOMAIN cached = PolicyNames
  BY DEF NewsInv, TypeOK
<1>3. KeepsOrReads
  BY <1>1, <1>2 DEF KeepsOrReads
<1>4. /\ Bot /\ UNCHANGED <<run, log>> /\ run'.pc = "authorize"
      /\ RunFields \subseteq DOMAIN run'
  BY DEF LoadPolicyFile, NewsInv, Shapes
<1> QED
  BY <1>3, <1>4, GoesOn DEF PcsAtWork

\* The pilot's boundary and the grant are read.
LEMMA BoundaryKeeps ==
    ASSUME NewsInv, PilotBoundary \/ ReadGrant
    PROVE  BotKeeps
<1>1. Bot /\ UNCHANGED <<cached, log>> /\ KeepsOrReads
  BY CacheStays DEF PilotBoundary, ReadGrant
<1>2. RunFields \subseteq DOMAIN run
  BY DEF NewsInv, Shapes
<1>3. CASE PilotBoundary
  <2>1. run'.pc \in {"authorize", "escalate"} /\ RunFields \subseteq DOMAIN run'
    <3>1. PICK b, a : run' = [run EXCEPT !.boundary = b,
                                         !.pc = IF a THEN "authorize" ELSE "escalate"]
      BY <1>3, Zenon DEF PilotBoundary
    <3> QED
      BY <1>2, <3>1 DEF RunFields
  <2> QED
    BY <1>1, <2>1, GoesOn DEF PcsAtWork
<1>4. CASE ReadGrant
  <2> DEFINE g == EvaluateControl("provider_authorization", Tavily, controls, env, clock).allowed
  <2>1. run' = [run EXCEPT !.pc = "granted", !.grant = g]
    BY <1>4, Zenon DEF ReadGrant
  <2>2. g => "grant" \in Allowed
    BY GrantAllows DEF NewsInv
  <2> HIDE DEF g
  <2>3. run'.pc = "granted" /\ run'.grant = g /\ RunFields \subseteq DOMAIN run'
    BY <1>2, <2>1 DEF RunFields
  <2>4. \A name \in PolicyNames : cached'[name] # <<>>
    BY <1>1, <1>4 DEF ReadGrant
  <2> QED
    BY <1>1, <2>2, <2>3, <2>4, GoesOn DEF PcsAtWork
<1> QED
  BY <1>3, <1>4

\* The call is opened by the grant, the switch and the policy files together.
LEMMA SwitchKeeps ==
    ASSUME NewsInv, ReadSwitch
    PROVE  BotKeeps
<1> DEFINE files == [name \in PolicyNames |-> cached[name][1]]
           allow == run.grant
                    /\ EvaluateControl("tavily_execution", Tavily, controls, env, clock).allowed
           authorization == Authorize(Tavily, files, allow)
           config == PilotConfig(run.boundary)
           reasons == DisabledReasons(config, authorization, DryRunRequested(env))
           receipt == Receipt("provider_execution_disabled", FALSE, NoResponse, "", authorization)
<1>1. /\ run.pc = "granted" /\ UNCHANGED cached /\ Bot
      /\ IF reasons = {}
            THEN /\ run' = [run EXCEPT !.pc = "call", !.authorization = authorization]
                 /\ UNCHANGED log
            ELSE AfterProvider([run EXCEPT !.authorization = authorization, !.receipt = receipt])
  BY Zenon DEF ReadSwitch
<1>2. \A name \in PolicyNames : cached'[name] # <<>> /\ cached'[name][1] = files[name]
  BY <1>1 DEF NewsInv, AllowedWasSeen
<1>3. KeepsOrReads /\ RunFields \subseteq DOMAIN run
  BY <1>1, CacheStays DEF NewsInv, Shapes
<1>4. reasons = {} => /\ Permits(files) /\ run.grant
                      /\ EvaluateSwitch("tavily_execution", controls, env, clock).allowed
  <2> SUFFICES ASSUME reasons = {}
               PROVE  /\ Permits(files) /\ run.grant
                      /\ EvaluateSwitch("tavily_execution", controls, env, clock).allowed
    OBVIOUS
  <2>1. PICK f, a, c, d : f = files /\ a = allow /\ c = config /\ d = DryRunRequested(env)
    OBVIOUS
  <2>2. DisabledReasons(c, Authorize(Tavily, f, a), d) = {}
    BY <2>1, Zenon
  <2>3. Permits(f) /\ a
    BY <2>2, DecisionPermits
  <2>4. EvaluateControl("tavily_execution", Tavily, controls, env, clock)
           = EvaluateSwitch("tavily_execution", controls, env, clock)
    BY DEF EvaluateControl
  <2> QED
    BY <2>1, <2>3, <2>4
<1> HIDE DEF files, authorization, reasons, receipt, config, allow
<1>5. CASE reasons = {}
  <2>1. run' = [run EXCEPT !.pc = "call", !.authorization = authorization] /\ UNCHANGED log
    BY <1>1, <1>5
  <2>2. run'.pc = "call" /\ RunFields \subseteq DOMAIN run'
    BY <1>3, <2>1 DEF RunFields
  <2>3. "switch" \in Allowed
    BY <1>4, <1>5, SwitchAllows DEF NewsInv
  <2>4. "grant" \in seen
    BY <1>1, <1>4, <1>5 DEF NewsInv, AllowedWasSeen
  <2>5. \A name \in PolicyNames :
            cached'[name] # <<>> /\ AllowsAlone(name, cached'[name][1])
    BY <1>2, <1>4, <1>5 DEF Permits
  <2> QED
    BY <1>1, <1>3, <2>1, <2>2, <2>3, <2>4, <2>5, GoesOn DEF PcsAtWork
<1>6. CASE reasons # {}
  <2>1. PICK q : /\ q = [run EXCEPT !.authorization = authorization, !.receipt = receipt]
                 /\ AfterProvider(q)
    BY <1>1, <1>6
  <2>2. RunFields \subseteq DOMAIN q
    BY <1>3, <2>1
  <2> QED
    BY <1>1, <1>3, <2>1, <2>2, ProviderEnds
<1> QED
  BY <1>5, <1>6

\* The calls, the escalation and the death of the bot.
LEMMA CallsEnd ==
    ASSUME NewsInv, CallProvider \/ CallSearchProvider \/ Escalate \/ CrashBot
    PROVE  BotKeeps
<1>1. RunFields \subseteq DOMAIN run
  BY DEF NewsInv, Shapes
<1>2. CASE CallProvider
  <2>1. Bot /\ KeepsOrReads
    BY <1>2, CacheStays DEF CallProvider
  <2>2. PICK receipt, results :
           AfterProvider([run EXCEPT !.called = TRUE, !.receipt = receipt, !.results = results])
    BY <1>2, Zenon DEF CallProvider
  <2>3. PICK q : /\ q = [run EXCEPT !.called = TRUE, !.receipt = receipt, !.results = results]
                 /\ AfterProvider(q)
    BY <2>2
  <2>4. RunFields \subseteq DOMAIN q
    BY <1>1, <2>3
  <2> QED
    BY <1>1, <2>1, <2>3, <2>4, ProviderEnds
<1>3. CASE CallSearchProvider
  <2>1. Bot /\ KeepsOrReads
    BY <1>3, CacheStays DEF CallSearchProvider
  <2>2. \/ End([run EXCEPT !.pc = "raised", !.called = TRUE])
        \/ \E found : End([run EXCEPT !.pc = "handled", !.called = TRUE, !.found = found])
    BY <1>3, Zenon DEF CallSearchProvider
  <2>3. ASSUME End([run EXCEPT !.pc = "raised", !.called = TRUE])
        PROVE  BotKeeps
    <3>1. PICK q : q = [run EXCEPT !.pc = "raised", !.called = TRUE] /\ End(q)
      BY <2>3
    <3>2. q.pc = "raised"
      BY <1>1, <3>1 DEF RunFields
    <3> QED
      BY <1>1, <2>1, <3>1, <3>2, Ends DEF AnsweredFresh
  <2>4. ASSUME NEW found, End([run EXCEPT !.pc = "handled", !.called = TRUE, !.found = found])
        PROVE  BotKeeps
    <3>1. PICK q : /\ q = [run EXCEPT !.pc = "handled", !.called = TRUE, !.found = found]
                   /\ End(q)
      BY <2>4
    <3>2. q.pc = "handled"
      BY <1>1, <3>1 DEF RunFields
    <3> QED
      BY <1>1, <2>1, <3>1, <3>2, Ends DEF AnsweredFresh
  <2> QED
    BY <2>2, <2>3, <2>4
<1>4. CASE Escalate
  <2>1. Bot /\ KeepsOrReads
    BY <1>4, CacheStays DEF Escalate
  <2>2. PICK escalation : End([run EXCEPT !.pc = "insufficient", !.escalation = escalation])
    BY <1>4, Zenon DEF Escalate
  <2>3. PICK q : /\ q = [run EXCEPT !.pc = "insufficient", !.escalation = escalation]
                 /\ End(q)
    BY <2>2
  <2>4. q.pc = "insufficient"
    BY <1>1, <2>3 DEF RunFields
  <2> QED
    BY <1>1, <2>1, <2>3, <2>4, Ends DEF AnsweredFresh
<1>5. CASE CrashBot
  <2>1. Bot /\ Forgets
    BY <1>5 DEF CrashBot, Forgets
  <2>2. PICK q : q = [run EXCEPT !.pc = "crashed"] /\ End(q)
    BY <1>5 DEF CrashBot
  <2>3. q.pc = "crashed"
    BY <1>1, <2>2 DEF RunFields
  <2> QED
    BY <2>1, <2>2, <2>3, Ends DEF AnsweredFresh
<1> QED
  BY <1>2, <1>3, <1>4, <1>5

--------------------------------------------------------------------------------
\* The invariant is inductive.
LEMMA NewsInduction == Spec => []NewsInv
<1>1. Init => NewsInv
  <2> SUFFICES ASSUME Init PROVE NewsInv
    OBVIOUS
  <2>1. TypeOK
    <3>1. /\ budget \in Scenarios /\ budget.controls \in ControlFile
          /\ budget.policy \in OfferedPolicies /\ 1 \in 1 .. budget.clock
      BY NewsAssumption DEF Init
    <3>2. clock \in 1 .. budget.clock /\ controls \in ControlFile /\ policy \in OfferedPolicies
      BY <3>1 DEF Init
    <3>8. /\ DOMAIN policy = PolicyNames /\ DOMAIN cached = PolicyNames
          /\ \A name \in PolicyNames :
                cached[name] = <<>> /\ policy[name] \in {p[name] : p \in OfferedPolicies}
      <4>1. policy \in PolicyFiles
        BY <3>2, NewsAssumption
      <4>2. DOMAIN policy = PolicyNames
        BY <4>1 DEF PolicyFiles, PolicyNames
      <4> QED
        BY <3>2, <4>2 DEF Init
    <3>3. /\ feed \subseteq Entries /\ torn \in BOOLEAN /\ receipts = {}
          /\ env = budget.env
          /\ seen \subseteq {"switch", "grant"} \cup PolicyNames
      BY DEF Init, Allowed
    <3>4. store \in Seq(Item) /\ ingest \in Seq(FetchLines)
      BY DEF Init
    <3>5. fetcher \in [Fetchers -> FetcherStates]
      BY DEF Init, NoFetch, FetcherStates
    <3>6. operator \in [Operators -> Loads]
      <4>1. Shipped \in ControlFile
        BY NewsAssumption DEF Shipped, ControlFile, Switch, Grant, Expiries
      <4> QED
        BY <4>1 DEF Init, NotLoaded, Loads
    <3>7. run.pc = "idle"
      BY DEF Init, Idle
    <3> QED
      BY <3>1, <3>2, <3>3, <3>4, <3>5, <3>6, <3>7, <3>8 DEF TypeOK, FetchLines, FetcherStates, Loads
  <2>2. Shapes
    <3>0. log \in Seq(ToSet(log))
      BY DEF Init, ToSet
    <3>1. RunFields \subseteq DOMAIN run
      BY DEF Init, Idle, RunFields
    <3>2. IsFiniteSet(feed) /\ \A f \in Fetchers : IsFiniteSet(fetcher[f].ids)
      BY FS_EmptySet DEF Init, NoFetch
    <3> QED
      BY <3>0, <3>1, <3>2 DEF Shapes
  <2>3. /\ run.pc = "idle" /\ log = <<>> /\ receipts = {} /\ seen = Allowed
        /\ \A name \in PolicyNames : cached[name] = <<>>
    BY DEF Init, Idle
  <2>4. AllowedWasSeen /\ CallsFollowControls /\ ServedIsFresh
    BY <2>3 DEF AllowedWasSeen, KeptWasSeen, CallsFollowControls, ServedIsFresh
  <2>5. LoadedShowsChanges /\ ChangesLostOnlyByOverlap
    BY DEF Init, NotLoaded, LoadedShowsChanges, ChangesLostOnlyByOverlap
  <2> QED
    BY <2>1, <2>2, <2>4, <2>5 DEF NewsInv
<1>2. NewsInv /\ [Next]_vars => NewsInv'
  <2> SUFFICES ASSUME NewsInv, [Next]_vars PROVE NewsInv'
    OBVIOUS
  <2>1. CASE Fetching
    <3>1. FetcherOnly
      BY <2>1 DEF Fetching, Publish, FetchFeed, LoadIds, AppendItems, AuditFetch, CrashFetch
    <3>2. /\ History /\ UNCHANGED <<cached, run, log>>
          /\ UNCHANGED <<controls, version, operator, receipts>>
      BY <3>1 DEF FetcherOnly, control
    <3> QED
      BY <2>1, <3>2, FetchersKeepTypes, QuietSteps, NoOperator DEF NewsInv
  <2>2. CASE Operating
    <3>1. /\ UNCHANGED <<clock, feed, store, torn, ingest, fetcher, fetches, policy, edits, cached,
                         env, run, log, merged>>
          /\ History
      BY <2>2 DEF Operating, LoadControls, SaveControls, OperatorOnly, cache
    <3>2. /\ operator' \in [Operators -> Loads] /\ controls' \in ControlFile
          /\ \A r \in receipts' : r.receipt.change \in OfferedChanges /\ r.from < r.to
          /\ LoadedShowsChanges' /\ ChangesLostOnlyByOverlap'
      <4>1. ASSUME NEW o \in Operators, LoadControls(o)
            PROVE  /\ operator' \in [Operators -> Loads] /\ controls' \in ControlFile
                   /\ \A r \in receipts' : r.receipt.change \in OfferedChanges /\ r.from < r.to
                   /\ LoadedShowsChanges' /\ ChangesLostOnlyByOverlap'
        <5>1. UNCHANGED <<controls, receipts>>
          BY <4>1 DEF LoadControls
        <5>2. /\ controls \in ControlFile
              /\ \A r \in receipts : r.receipt.change \in OfferedChanges /\ r.from < r.to
          BY Zenon DEF NewsInv, TypeOK
        <5> QED
          BY <4>1, <5>1, <5>2, LoadKeeps
      <4>2. ASSUME NEW o \in Operators, SaveControls(o)
            PROVE  /\ operator' \in [Operators -> Loads] /\ controls' \in ControlFile
                   /\ \A r \in receipts' : r.receipt.change \in OfferedChanges /\ r.from < r.to
                   /\ LoadedShowsChanges' /\ ChangesLostOnlyByOverlap'
        BY <4>2, SaveKeeps
      <4> QED
        BY <2>2, <4>1, <4>2 DEF Operating
    <3>3. TypeOK' /\ Shapes'
      <4>1. seen' \subseteq {"switch", "grant"} \cup PolicyNames /\ UNCHANGED budget
        BY <3>1, MemoryLasts
      <4> QED
        BY <3>1, <3>2, <4>1 DEF NewsInv, TypeOK, Shapes, Loads
    <3> QED
      BY <3>1, <3>2, <3>3, QuietSteps DEF NewsInv
  <2>3. CASE EditPolicy \/ Tick \/ Merge
    <3>1. /\ UNCHANGED <<feed, store, torn, ingest, fetcher, fetches, controls, version, operator,
                         receipts, cached, env, run, log>>
          /\ History
      BY <2>3 DEF EditPolicy, Tick, Merge, cache, control
    <3>2. /\ clock' \in 1 .. budget.clock /\ DOMAIN policy' = PolicyNames
          /\ \A name \in PolicyNames : policy'[name] \in {p[name] : p \in OfferedPolicies}
      <4>1. /\ clock \in 1 .. budget.clock /\ budget.clock \in Nat
            /\ DOMAIN policy = PolicyNames
            /\ \A name \in PolicyNames : policy[name] \in {p[name] : p \in OfferedPolicies}
        BY NewsAssumption DEF NewsInv, TypeOK
      <4>2. CASE EditPolicy
        <5>1. PICK n \in PolicyNames, p \in OfferedPolicies :
                  policy' = [policy EXCEPT ![n] = p[n]]
          BY <4>2 DEF EditPolicy
        <5>2. \A name \in PolicyNames :
                  policy'[name] = policy[name] \/ policy'[name] = p[name]
          BY <4>1, <5>1
        <5>3. DOMAIN policy' = PolicyNames
          BY <4>1, <5>1
        <5>4. UNCHANGED <<clock, budget>>
          BY <4>2 DEF EditPolicy, History
        <5>5. \A name \in PolicyNames : policy'[name] \in {q[name] : q \in OfferedPolicies}
          BY <4>1, <5>2
        <5> QED
          BY <4>1, <5>3, <5>4, <5>5
      <4>3. CASE Tick \/ Merge
        BY <4>1, <4>3 DEF Tick, Merge
      <4> QED
        BY <2>3, <4>2, <4>3
    <3>3. seen' \subseteq {"switch", "grant"} \cup PolicyNames /\ UNCHANGED budget
      BY <3>1, MemoryLasts
    <3>4. TypeOK' /\ Shapes'
      BY <3>1, <3>2, <3>3 DEF NewsInv, TypeOK, Shapes
    <3> QED
      BY <3>1, <3>4, QuietSteps, NoOperator DEF NewsInv
  <2>4. CASE \/ StartNews \/ StartGuest \/ StartSearch \/ PilotBoundary \/ LoadPolicyFile
             \/ ReadGrant \/ ReadSwitch \/ CallProvider \/ CallSearchProvider \/ Escalate
             \/ CrashBot
    <3>1. BotKeeps
      BY <2>4, NewsStart, GuestStart, SearchStart, FileKeeps, BoundaryKeeps, SwitchKeeps, CallsEnd
    <3>2. UNCHANGED <<controls, version, operator, receipts>>
      <4>1. Bot
        BY <2>4 DEF StartNews, StartGuest, StartSearch, PilotBoundary, LoadPolicyFile,
                    ReadGrant, ReadSwitch, CallProvider, CallSearchProvider, Escalate, CrashBot
      <4> QED
        BY <4>1 DEF Bot, control
    <3> QED
      BY <3>1, <3>2, NoOperator DEF NewsInv, BotKeeps
  <2>5. CASE UNCHANGED vars
    <3>1. UNCHANGED <<clock, feed, store, torn, ingest, fetcher, controls, version, operator,
                      receipts, policy, cached, env, run, log, budget, seen>>
      BY <2>5 DEF vars, cache, control
    <3>2. TypeOK' /\ Shapes'
      BY <3>1 DEF NewsInv, TypeOK, Shapes
    <3>3. Allowed' = Allowed
      BY <3>1 DEF Allowed, SwitchOn, GrantOn, Lasting
    <3>4. AllowedWasSeen'
      BY <3>1, <3>3 DEF NewsInv, AllowedWasSeen, KeptWasSeen
    <3>5. CallsFollowControls'
      BY <3>1 DEF NewsInv, CallsFollowControls
    <3>6. ServedIsFresh'
      BY <3>1 DEF NewsInv, ServedIsFresh
    <3> QED
      BY <3>1, <3>2, <3>4, <3>5, <3>6, NoOperator DEF NewsInv
  <2> QED
    BY <2>1, <2>2, <2>3, <2>4, <2>5 DEF Next, Answering
<1> QED
  BY <1>1, <1>2, PTL DEF Spec

--------------------------------------------------------------------------------
\* The variables keep their types: what operators make of the controls is a file
\* of controls, and what fetchers append are items.
THEOREM TypeCorrect == Spec => []TypeOK
<1>1. NewsInv => TypeOK
  BY DEF NewsInv
<1> QED
  BY <1>1, NewsInduction, PTL

\* A provider is called only after the switch was on, and the grant and each of
\* the policy files, where they are asked, have allowed it, whatever was edited
\* between the loads of the four (CallsFollowControls).
THEOREM CallsAreAllowed == Spec => []CallsFollowControls
<1>1. NewsInv => CallsFollowControls
  BY DEF NewsInv
<1> QED
  BY <1>1, NewsInduction, PTL

\* The newest receipt for a control tells what the file says of it, unless the
\* changes of two operators overlapped (operational_controls.py).
THEOREM LostChangesOverlapped == Spec => []ChangesLostOnlyByOverlap
<1>1. NewsInv => ChangesLostOnlyByOverlap
  BY DEF NewsInv
<1> QED
  BY <1>1, NewsInduction, PTL

\* News are answered from items that are fresh, different and enough, however
\* the fetchers overlapped (evaluate_source_item_freshness).
THEOREM AnswersServeFresh == Spec => []ServedIsFresh
<1>1. NewsInv => ServedIsFresh
  BY DEF NewsInv
<1> QED
  BY <1>1, NewsInduction, PTL

================================================================================

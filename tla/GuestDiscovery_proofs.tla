------------------------- MODULE GuestDiscovery_proofs -------------------------
(***************************************************************************)
(* The search for guests, for every set of requests, answers, registries,  *)
(* controls and environments: a provider is called only where the          *)
(* registries as the bot read them, and the control, allowed it, for no    *)
(* more results than each of them bears; receipts tell of the calls; and   *)
(* candidates are merged by what identifies them, and by nothing else.     *)
(***************************************************************************)
EXTENDS GuestDiscovery, SequenceTheorems, WellFoundedInduction, TLAPS

ProviderIds == {r.provider : r \in Requests}

\* What files allow a provider: Installed of any of them.
DeclaredIn(file, p) ==
    /\ file.readable /\ \A e \in Range(file.entries) : DeclarationValid(e, Allowed)
    /\ \E e \in Range(file.entries) : e.provider_id = p

PilotIn(file, p) ==
    /\ file.readable /\ \A e \in Range(file.entries) : PilotValid(e, Agent)
    /\ \E e \in Range(file.entries) : e.provider_id = p

\* What of a request is looked at again: fields that every request has.
RunFields == {"pc", "request", "asked", "called", "raised", "answer", "receipt", "shown"}

\* A registry that the bot knows is one that was installed.
KnownFiles ==
    /\ known = [f \in Registries |-> known[f]]
    /\ \A f \in Registries :
          known[f] = <<>> \/ \E installed \in FileSets : known[f] = <<installed[f]>>

Shapes ==
    /\ files \in FileSets /\ controls \in ControlFiles /\ env \in Environments
    /\ edits \in 0 .. MaxEdits /\ ended \in 0 .. MaxRequests

\* Before a request goes outside nothing was called, and none goes there before
\* the registries are read.
RunShapes ==
    /\ RunFields \subseteq DOMAIN run
    /\ run.pc \in {"idle", "judge", "cloud", "pilots", "decide", "calling", "tavily",
                  "merge", "rank", "done", "stopped"}
    /\ run.pc \notin {"idle", "stopped"} => run.request # <<>>
    /\ run.pc \notin {"idle", "done", "stopped"} => ended < MaxRequests
    /\ run.request = <<>> \/ \E r \in Requests : run.request = <<r>>
    /\ run.asked = <<>> \/ \E a : a.max_results >= 1 /\ run.asked = <<a>>
    /\ run.pc \in {"idle", "judge", "cloud", "pilots", "decide", "tavily", "stopped"} =>
          run.asked = <<>>
    /\ run.pc \in {"idle", "judge", "cloud", "pilots", "decide", "tavily", "calling",
                  "stopped"} => ~run.called /\ run.receipt = <<>>
    /\ run.pc \in {"pilots", "decide"} =>
          known["providers"] # <<>> /\ DeclarationFor(run.request[1].provider) # <<>>
    /\ run.pc = "decide" => known["pilots"] # <<>>
    /\ run.asked # <<>> => known["providers"] # <<>> /\ known["pilots"] # <<>>
    /\ run.pc = "stopped" => \A f \in Registries : known[f] = <<>>

\* All that is allowed now has been seen; so was what the registries allow that
\* the bot has read and keeps, whatever is installed in their place.
AllowedWasSeen ==
    /\ AllInstalled \subseteq seen
    /\ known["policy"] # <<>> => <<"policy", CloudPolicy(known["policy"][1])>> \in seen
    /\ \A p \in ProviderIds :
        /\ known["providers"] # <<>> =>
              (DeclaredIn(known["providers"][1], p) => <<"declared", p>> \in seen)
        /\ known["pilots"] # <<>> =>
              (PilotIn(known["pilots"][1], p) => <<"pilot", p>> \in seen)

GuestInv ==
    /\ TypeOK /\ KnownFiles /\ Shapes /\ RunShapes /\ AllowedWasSeen
    /\ CallsWereAuthorized /\ ReceiptsOwnUpToCalls

--------------------------------------------------------------------------------
(* What the operators return. *)

\* The least of natural numbers is one of them (Min is a CHOOSE).
LEMMA MinIsLeast ==
    ASSUME NEW S \in SUBSET Nat, S # {}
    PROVE  Min(S) \in S /\ \A y \in S : Min(S) <= y
<1>1. PICK x \in S : \A y \in S : ~(<<y, x>> \in OpToRel(<, Nat))
  BY NatLessThanWellFounded, WFMin
<1>2. \A y \in S : x <= y
  <2> SUFFICES ASSUME NEW y \in S PROVE x <= y
    OBVIOUS
  <2>1. ~(<<y, x>> \in OpToRel(<, Nat))
    BY <1>1
  <2>2. ~(y < x)
    BY <2>1 DEF OpToRel
  <2> QED
    BY <2>2
<1> QED
  BY <1>2 DEF Min

\* What is found of a registry is its first entry with these properties.
LEMMA FirstIsThere ==
    ASSUME NEW entries, entries \in Seq(Range(entries)),
           NEW places \in SUBSET DOMAIN entries, FirstOf(entries, places) # <<>>
    PROVE  \E i \in places : /\ FirstOf(entries, places) = <<entries[i]>>
                             /\ \A j \in places : i <= j
<1>1. places \in SUBSET Nat /\ places # {}
  BY DEF FirstOf
<1>2. Min(places) \in places /\ \A j \in places : Min(places) <= j
  BY <1>1, MinIsLeast
<1> QED
  BY <1>1, <1>2 DEF FirstOf

\* The bound of a call is one of those given that are above zero, and no more
\* than any of them (_minimum_positive_int).
LEMMA MinimumBounds ==
    ASSUME NEW a \in Int, NEW b \in Int, NEW c \in Int, a > 0
    PROVE  LET m == MinimumPositive({a, b, c}) IN
           /\ m \in Int /\ m > 0 /\ m <= a
           /\ b > 0 => m <= b
           /\ c > 0 => m <= c
<1> DEFINE positive == {v \in {a, b, c} : v > 0}
<1>1. positive # {} /\ a \in positive /\ positive \subseteq Int
  OBVIOUS
<1>2. \E v \in positive : \A w \in positive : v <= w
  <2>1. CASE (b > 0 => a <= b) /\ (c > 0 => a <= c)
    BY <2>1
  <2>2. CASE b > 0 /\ b < a /\ (c > 0 => b <= c)
    BY <2>2
  <2>3. CASE c > 0 /\ c < a /\ (b > 0 => c <= b)
    BY <2>3
  <2> QED
    BY <2>1, <2>2, <2>3
<1>3. MinimumPositive({a, b, c}) \in positive
      /\ \A w \in positive : MinimumPositive({a, b, c}) <= w
  BY <1>1, <1>2 DEF MinimumPositive
<1> QED
  BY <1>3

\* What is asked for is a result at least, and within the bounds.
LEMMA RequestBounds ==
    ASSUME NEW configured \in Int, NEW limits, limits.max_results \in Int,
           configured > 0, limits.max_results > 0
    PROVE  LET n == PreparedRequest(configured, limits).max_results IN
           n \in Int /\ n >= 1 /\ n <= limits.max_results
<1>1. LET m == MinimumPositive({configured, limits.max_results, limits.max_results}) IN
      m \in Int /\ m > 0 /\ m <= limits.max_results
  BY MinimumBounds
<1>2. {configured, limits.max_results, limits.max_results} = {configured, limits.max_results}
  OBVIOUS
<1>3. PreparedRequest(configured, limits).max_results
        = MinimumPositive({configured, limits.max_results})
  BY DEF PreparedRequest
<1> QED
  BY <1>1, <1>2, <1>3

\* A declaration that is found is of the provider, is valid, and is the only
\* one of the provider in its file, in which all are valid.
LEMMA DeclarationIsFound ==
    ASSUME NEW p, DeclarationFor(p) # <<>>,
           LET file == Read("providers") IN file.entries \in Seq(Range(file.entries))
    PROVE  LET file == Read("providers")
               e    == Head(DeclarationFor(p))
           IN /\ DeclaredIn(file, p) /\ e.provider_id = p /\ DeclarationValid(e, Allowed)
              /\ \A x \in Range(file.entries) : x.provider_id = p => x = e
<1> DEFINE file == Read("providers")
           loaded == LoadDeclarations(file, Allowed)
           places == {i \in DOMAIN loaded : loaded[i].provider_id = p}
<1>1. DeclarationFor(p) = FirstOf(loaded, places)
  BY DEF DeclarationFor
<1>2. loaded # <<>>
  BY <1>1 DEF FirstOf
<1>3. /\ loaded = file.entries /\ file.readable
      /\ Range(file.entries) \subseteq {e \in Range(file.entries) : DeclarationValid(e, Allowed)}
      /\ IsInjective([i \in DOMAIN file.entries |-> file.entries[i]["provider_id"]])
  BY <1>2 DEF LoadDeclarations, LoadStrict
<1> HIDE DEF file
<1>4. file.entries \in Seq(Range(file.entries))
  BY DEF file
<1>5. PICK i \in places : DeclarationFor(p) = <<file.entries[i]>>
  <2>1. places \in SUBSET DOMAIN file.entries
    BY <1>3
  <2>2. DeclarationFor(p) = FirstOf(file.entries, places) /\ DeclarationFor(p) # <<>>
    BY <1>1, <1>3
  <2> HIDE DEF places
  <2>3. \E i \in places : FirstOf(file.entries, places) = <<file.entries[i]>>
    BY <1>4, <2>1, <2>2, FirstIsThere
  <2> QED
    BY <2>2, <2>3
<1>6. i \in DOMAIN file.entries /\ file.entries[i].provider_id = p
  BY <1>3, <1>5
<1>7. Head(DeclarationFor(p)) = file.entries[i] /\ file.entries[i] \in Range(file.entries)
  BY <1>5, <1>6 DEF Range
<1>8. \A x \in Range(file.entries) : DeclarationValid(x, Allowed)
  BY <1>3
<1>9. DeclaredIn(file, p)
  BY <1>3, <1>6, <1>7, <1>8 DEF DeclaredIn
<1>10. ASSUME NEW x \in Range(file.entries), x.provider_id = p PROVE x = file.entries[i]
  <2>1. PICK j \in DOMAIN file.entries : x = file.entries[j]
    BY DEF Range
  <2> QED
    BY <1>3, <1>6, <1>10, <2>1 DEF IsInjective
<1> QED
  BY <1>6, <1>7, <1>8, <1>9, <1>10 DEF file

\* A decision with nothing against it (evaluate_cloud_provider_authorization).
LEMMA NothingAgainst ==
    ASSUME NEW policy, NEW control, NEW ask,
           CloudAuthorizationReasons(policy, control, ask) = {}
    PROVE  /\ control.allowed
           /\ ask.governance \in policy.live_states /\ (ask.test => ~policy.test_blocked)
           /\ ask.channel \notin policy.blocked_channels
           /\ ask.source \notin policy.blocked_sources
           /\ ask.channel = "telegram" /\ ask.mode # "blocked"
           /\ ask.mode = "allowlisted" => ask.listed
<1>1. control.allowed
  BY Zenon DEF CloudAuthorizationReasons
<1>2. ask.governance \in policy.live_states /\ (ask.test => ~policy.test_blocked)
  BY DEF CloudAuthorizationReasons
<1>3. ask.channel \notin policy.blocked_channels /\ ask.source \notin policy.blocked_sources
  BY DEF CloudAuthorizationReasons
<1>4. /\ ask.channel = "telegram" /\ ask.mode # "blocked"
      /\ ask.mode = "allowlisted" => ask.listed
  BY DEF CloudAuthorizationReasons
<1> QED
  BY <1>1, <1>2, <1>3, <1>4

\* A live authorization is that of the first pilot of the provider, or, without
\* any, of its declaration; the policy bears either.
LEMMA LiveByPilot ==
    ASSUME NEW pilots, pilots \in Seq(Range(pilots)), NEW policy, NEW declaration, NEW control,
           NEW r, declaration.provider_id = r.provider,
           \A e \in Range(pilots) : e.channel = "telegram",
           PilotAuthorization(pilots, policy, declaration, control, CloudAsk(r)).live
    PROVE  LET own == {i \in DOMAIN pilots : pilots[i].provider_id = r.provider}
               most == PilotAuthorization(pilots, policy, declaration, control,
                                          CloudAsk(r)).max_results
           IN /\ control.allowed /\ r.channel = "telegram"
              /\ own # {} => \E i \in own :
                    /\ \A j \in own : i <= j
                    /\ most = pilots[i].max_results
                    /\ Bears(policy, pilots[i].governance_state, r)
              /\ own = {} =>
                    /\ most = 0
                    /\ Bears(policy, declaration.governance_state, r) /\ OpenTo(policy, r)
<1> DEFINE ask == CloudAsk(r)
           provider == r.provider
           own == {i \in DOMAIN pilots : pilots[i].provider_id = r.provider}
           authorization == PilotAuthorization(pilots, policy, declaration, control, ask)
           places == {i \in DOMAIN pilots :
                         pilots[i].provider_id = provider /\ pilots[i].channel = ask.channel}
           found == PilotFor(pilots, provider, ask.channel)
           pilot == Head(found)
           bare == [ask EXCEPT !.mode = ModeOf(policy, provider),
                               !.governance = declaration.governance_state]
           piloted == [ask EXCEPT !.mode = pilot.authorization_mode, !.listed = FALSE,
                                  !.governance = pilot.governance_state]
           asked == IF found = <<>> THEN bare ELSE piloted
<1>1. CloudAuthorizationReasons(policy, control, asked) = {}
  BY DEF PilotAuthorization
<1>2. /\ asked.test = r.test /\ asked.channel = r.channel /\ asked.source = r.source
      /\ ask.channel = r.channel
      /\ found = <<>> => /\ asked.governance = declaration.governance_state
                         /\ asked.mode = ModeOf(policy, provider) /\ asked.listed = r.listed
      /\ found # <<>> => asked.governance = pilot.governance_state
  BY DEF CloudAsk
<1> HIDE DEF asked
<1>3. /\ control.allowed /\ r.channel = "telegram"
      /\ Bears(policy, asked.governance, r)
      /\ asked.mode # "blocked" /\ (asked.mode = "allowlisted" => asked.listed)
  BY <1>1, <1>2, NothingAgainst DEF Bears
<1>4. places = own
  BY <1>2, <1>3 DEF Range
<1>5. CASE found = <<>>
  <2>1. places = {}
    BY <1>5 DEF PilotFor, FirstOf
  <2>2. authorization.max_results = 0
    BY <1>5 DEF PilotAuthorization
  <2>3. Bears(policy, declaration.governance_state, r) /\ OpenTo(policy, r)
    BY <1>2, <1>3, <1>5 DEF OpenTo
  <2> QED
    BY <1>3, <1>4, <2>1, <2>2, <2>3
<1>6. CASE found # <<>>
  <2>1. PICK i \in places : found = <<pilots[i]>> /\ \A j \in places : i <= j
    BY <1>6, FirstIsThere DEF PilotFor
  <2>2. authorization.max_results = pilots[i].max_results
    BY <1>6, <2>1 DEF PilotAuthorization
  <2>3. Bears(policy, pilots[i].governance_state, r)
    BY <1>2, <1>3, <1>6, <2>1
  <2> HIDE DEF authorization
  <2> QED
    BY <1>3, <1>4, <2>1, <2>2, <2>3 DEF authorization
<1> QED
  BY <1>5, <1>6

\* The control allows what the installed one allows (EvaluateSwitch).
LEMMA ControlAllows ==
    ASSUME Shapes, NEW p \in ProviderIds,
           EvaluateSwitch("cloud_execution", controls, env, Now).allowed
    PROVE  <<"control", p>> \in AllInstalled
<1>1. /\ controls.kind \in {"missing", "malformed", "controls"}
      /\ env.CLOUD_DRY_RUN \in BOOLEAN /\ "cloud_execution" \in Switches
  BY GuestAssumption DEF Shapes, ControlFile, Environment, Switches
<1>2. "control" \in Installed(p)
  <2>1. CASE controls.kind = "missing"
    BY <1>1, <2>1 DEF EvaluateSwitch, BootstrapSwitch, Blocked, Decide, Installed
  <2>2. CASE controls.kind = "malformed"
    BY <2>2 DEF EvaluateSwitch, Blocked
  <2>3. CASE controls.kind = "controls"
    <3>1. controls.switch["cloud_execution"].state = "enabled"
      BY <2>3 DEF EvaluateSwitch, Blocked, Decide
    <3> QED
      BY <2>3, <3>1 DEF Installed
  <2> QED
    BY <1>1, <2>1, <2>2, <2>3
<1> QED
  BY <1>2 DEF AllInstalled, ProviderIds

\* What the installed registries allow is what is told of them.
LEMMA InstalledIsDeclared ==
    ASSUME NEW p \in ProviderIds
    PROVE  /\ DeclaredIn(files["providers"], p) => <<"declared", p>> \in AllInstalled
           /\ PilotIn(files["pilots"], p) => <<"pilot", p>> \in AllInstalled
           /\ <<"policy", CloudPolicy(files["policy"])>> \in AllInstalled
<1>1. DeclaredIn(files["providers"], p) => "declared" \in Installed(p)
  BY DEF DeclaredIn, Installed
<1>2. PilotIn(files["pilots"], p) => "pilot" \in Installed(p)
  BY DEF PilotIn, Installed
<1> QED
  BY <1>1, <1>2 DEF AllInstalled, ProviderIds

--------------------------------------------------------------------------------
(* What every step leaves as it was. *)

\* What the bot remembers: nothing is forgotten but by a stop, and but for the
\* control by a new request.
LEMMA MemoryLasts ==
    ASSUME History, AllowedWasSeen
    PROVE  /\ AllInstalled' \subseteq seen'
           /\ run'.pc # "stopped" => \A s \in seen : s[1] # "control" => s \in seen'
           /\ run'.pc # "stopped" /\ (run'.pc = "judge" => run.pc = "judge") =>
                 seen \subseteq seen'
<1>1. seen' = Remembered \cup AllInstalled'
  BY DEF History
<1> QED
  BY <1>1 DEF Remembered

\* What is read of a registry is one that was installed.
LEMMA ReadIsInstalled ==
    ASSUME KnownFiles, Shapes, NEW f \in Registries
    PROVE  /\ \E installed \in FileSets : Read(f) = installed[f]
           /\ known[f] # <<>> => known[f] = <<Read(f)>>
<1>1. CASE known[f] = <<>>
  BY <1>1 DEF Read, Shapes
<1>2. CASE known[f] # <<>>
  <2>1. PICK installed \in FileSets : known[f] = <<installed[f]>>
    BY <1>2 DEF KnownFiles
  <2> QED
    BY <1>2, <2>1 DEF Read
<1> QED
  BY <1>1, <1>2

\* Nothing, and one thing, are at most one.
LEMMA AtMostOne ==
    ASSUME NEW s, s = <<>> \/ \E installed \in FileSets : \E f : s = <<installed[f]>>
    PROVE  Len(s) <= 1
<1>1. CASE s = <<>>
  BY <1>1
<1>2. ASSUME NEW x, s = <<x>> PROVE Len(s) <= 1
  BY <1>2
<1> QED
  BY <1>1, <1>2

\* The bot keeps the registries it has read.
Grows ==
    /\ KnownFiles' /\ \A f \in Registries : Len(known'[f]) <= 1
    /\ \A f \in Registries : known[f] # <<>> => known'[f] = known[f]
    /\ \A f \in Registries : known'[f] = known[f] \/ known'[f] = <<Read(f)>>

\* A step that keeps registries, or reads none, forgets none.
LEMMA KeepGrows ==
    ASSUME KnownFiles, Shapes, NEW names, Keep(names) \/ UNCHANGED known
    PROVE  Grows
<1>1. CASE UNCHANGED known
  <2>1. KnownFiles'
    BY <1>1 DEF KnownFiles
  <2>2. \A f \in Registries : Len(known[f]) <= 1
    BY AtMostOne DEF KnownFiles
  <2> QED
    BY <1>1, <2>1, <2>2 DEF Grows
<1>2. CASE Keep(names)
  <2>1. known' = [f \in Registries |-> IF f \in names THEN <<Read(f)>> ELSE known[f]]
    BY <1>2 DEF Keep
  <2>2. \A f \in Registries : known'[f] = known[f] \/ known'[f] = <<Read(f)>>
    BY <2>1
  <2>3. \A f \in Registries : known[f] # <<>> => known'[f] = known[f]
    BY <2>2, ReadIsInstalled
  <2>4. \A f \in Registries :
            known'[f] = <<>> \/ \E installed \in FileSets : known'[f] = <<installed[f]>>
    BY <2>2, ReadIsInstalled DEF KnownFiles
  <2>5. known' = [f \in Registries |-> known'[f]]
    BY <2>1
  <2>6. \A f \in Registries : Len(known'[f]) <= 1
    BY <2>4, AtMostOne
  <2> QED
    BY <2>2, <2>3, <2>4, <2>5, <2>6 DEF Grows, KnownFiles
<1> QED
  BY <1>1, <1>2

\* What the bot has read is remembered with what it allows.
LEMMA RegistriesRemembered ==
    ASSUME GuestInv, History, Grows, run'.pc # "stopped"
    PROVE  AllowedWasSeen'
<1>1. /\ AllInstalled' \subseteq seen'
      /\ \A s \in seen : s[1] # "control" => s \in seen'
      /\ AllInstalled \subseteq seen
  BY MemoryLasts DEF GuestInv, AllowedWasSeen
<1>2. {"providers", "pilots", "policy"} \subseteq Registries
  BY DEF Registries
<1>3. ASSUME NEW p \in ProviderIds, known'["providers"] # <<>>,
             DeclaredIn(known'["providers"][1], p)
      PROVE  <<"declared", p>> \in seen'
  <2>1. CASE known["providers"] # <<>>
    <3>1. known'["providers"] = known["providers"]
      BY <1>2, <2>1 DEF Grows
    <3>2. <<"declared", p>> \in seen
      BY <1>3, <2>1, <3>1 DEF GuestInv, AllowedWasSeen
    <3> QED
      BY <1>1, <3>2
  <2>2. CASE known["providers"] = <<>>
    <3>1. known'["providers"] = <<files["providers"]>>
      BY <1>2, <1>3, <2>2 DEF Grows, Read
    <3>2. known'["providers"][1] = files["providers"]
      BY <3>1
    <3>3. DeclaredIn(files["providers"], p)
      BY <1>3, <3>2
    <3>4. <<"declared", p>> \in AllInstalled
      BY <3>3, InstalledIsDeclared
    <3> QED
      BY <1>1, <3>4
  <2> QED
    BY <2>1, <2>2
<1>4. ASSUME NEW p \in ProviderIds, known'["pilots"] # <<>>, PilotIn(known'["pilots"][1], p)
      PROVE  <<"pilot", p>> \in seen'
  <2>1. CASE known["pilots"] # <<>>
    <3>1. known'["pilots"] = known["pilots"]
      BY <1>2, <2>1 DEF Grows
    <3>2. <<"pilot", p>> \in seen
      BY <1>4, <2>1, <3>1 DEF GuestInv, AllowedWasSeen
    <3> QED
      BY <1>1, <3>2
  <2>2. CASE known["pilots"] = <<>>
    <3>1. known'["pilots"] = <<files["pilots"]>>
      BY <1>2, <1>4, <2>2 DEF Grows, Read
    <3>2. known'["pilots"][1] = files["pilots"]
      BY <3>1
    <3>3. PilotIn(files["pilots"], p)
      BY <1>4, <3>2
    <3>4. <<"pilot", p>> \in AllInstalled
      BY <3>3, InstalledIsDeclared
    <3> QED
      BY <1>1, <3>4
  <2> QED
    BY <2>1, <2>2
<1>5. ASSUME known'["policy"] # <<>>
      PROVE  <<"policy", CloudPolicy(known'["policy"][1])>> \in seen'
  <2>1. CASE known["policy"] # <<>>
    <3>1. known'["policy"] = known["policy"]
      BY <1>2, <2>1 DEF Grows
    <3>2. <<"policy", CloudPolicy(known["policy"][1])>> \in seen
      BY <2>1 DEF GuestInv, AllowedWasSeen
    <3> QED
      BY <1>1, <3>1, <3>2
  <2>2. CASE known["policy"] = <<>>
    <3>1. known'["policy"] = <<files["policy"]>>
      BY <1>2, <1>5, <2>2 DEF Grows, Read
    <3>2. <<"policy", CloudPolicy(files["policy"])>> \in seen
      BY <1>1, InstalledIsDeclared, Zenon DEF AllInstalled
    <3> QED
      BY <1>1, <3>1, <3>2
  <2> QED
    BY <2>1, <2>2
<1> QED
  BY <1>1, <1>3, <1>4, <1>5 DEF AllowedWasSeen, DeclaredIn, PilotIn

\* What is asked of a call, of the files that the bot keeps and of what was seen.
CallBorne(a, r, providers, pilotFile, memory) ==
    LET within(n) == n > 0 => a.max_results <= n
        declared == {e \in Range(providers.entries) : e.provider_id = r.provider}
        pilots == LoadPilots(pilotFile, Agent)
        own == {i \in DOMAIN pilots : pilots[i].provider_id = r.provider}
        policies == {s[2] : s \in {t \in memory : t[1] = "policy"}}
    IN /\ \A what \in {"declared", "control"} : <<what, r.provider>> \in memory
       /\ r.channel = "telegram"
       /\ within(r.limits.max_results) /\ \A e \in declared : within(e.max_results)
       /\ own # {} =>
             /\ <<"pilot", r.provider>> \in memory
             /\ \E i \in own, policy \in policies :
                   /\ \A j \in own : i <= j
                   /\ within(pilots[i].max_results)
                   /\ Bears(policy, pilots[i].governance_state, r)
       /\ own = {} =>
             \E e \in declared, policy \in policies :
                Bears(policy, e.governance_state, r) /\ OpenTo(policy, r)

LEMMA CallsAreBorne ==
    CallsWereAuthorized <=>
        \A a \in Range(run.asked) :
            CallBorne(a, run.request[1], known["providers"][1], known["pilots"][1], seen)
BY Zenon DEF CallsWereAuthorized, CallBorne

\* To have seen more takes nothing from a call.
LEMMA BorneStays ==
    ASSUME NEW a, NEW r, NEW providers, NEW pilotFile, NEW memory, NEW more,
           memory \subseteq more, CallBorne(a, r, providers, pilotFile, memory)
    PROVE  CallBorne(a, r, providers, pilotFile, more)
<1> DEFINE pilots == LoadPilots(pilotFile, Agent)
           policiesOf(m) == {s[2] : s \in {t \in m : t[1] = "policy"}}
<1>1. policiesOf(memory) \subseteq policiesOf(more)
  OBVIOUS
<1> HIDE DEF pilots, policiesOf
<1>2. CallBorne(a, r, providers, pilotFile, more)
  BY <1>1 DEF CallBorne, pilots, policiesOf
<1> QED
  BY <1>2

\* What a call was authorized by stays, whatever is edited after.
LEMMA CallsStay ==
    ASSUME GuestInv, History, Grows, run'.asked = run.asked, run'.request = run.request,
           run'.pc # "stopped", run'.pc = "judge" => run.pc = "judge"
    PROVE  CallsWereAuthorized'
<1>1. seen \subseteq seen'
  BY MemoryLasts DEF GuestInv
<1>2. CASE run.asked = <<>>
  BY <1>2 DEF CallsWereAuthorized, Range
<1>3. CASE run.asked # <<>>
  <2>1. known'["providers"] = known["providers"] /\ known'["pilots"] = known["pilots"]
    BY <1>3 DEF GuestInv, RunShapes, Grows, Registries
  <2>2. CallsWereAuthorized
    BY DEF GuestInv
  <2>3. PICK providers, pilotFile :
            /\ providers = known["providers"][1] /\ pilotFile = known["pilots"][1]
            /\ providers = known'["providers"][1] /\ pilotFile = known'["pilots"][1]
    BY <2>1
  <2>4. \A a \in Range(run'.asked) :
            CallBorne(a, run'.request[1], providers, pilotFile, seen')
    BY <1>1, <2>2, <2>3, CallsAreBorne, BorneStays
  <2>5. \A a \in Range(run'.asked) :
            CallBorne(a, run'.request[1], known'["providers"][1], known'["pilots"][1], seen')
    BY <2>3, <2>4
  <2> QED
    BY <2>5, Zenon DEF CallsWereAuthorized, CallBorne
<1> QED
  BY <1>2, <1>3

\* A declaration that was found in a file that is kept is found again.
LEMMA DeclarationStays ==
    ASSUME Grows, known["providers"] # <<>>, NEW p
    PROVE  known'["providers"] # <<>> /\ DeclarationFor(p)' = DeclarationFor(p)
<1>1. known'["providers"] = known["providers"]
  BY DEF Grows, Registries
<1> QED
  BY <1>1 DEF DeclarationFor, Read

\* What is left to show of a step.
LEMMA StepKeeps ==
    ASSUME GuestInv, History, Grows, Shapes', RunShapes', run'.pc # "stopped",
           CallsWereAuthorized', ReceiptsOwnUpToCalls'
    PROVE  GuestInv'
<1>1. AllowedWasSeen'
  BY RegistriesRemembered
<1>2. TypeOK'
  <2>1. \A f \in Registries : Len(known'[f]) <= 1
    BY DEF Grows
  <2>2. \A a \in Range(run'.asked) : a.max_results >= 1
    BY DEF RunShapes, Range
  <2>3. edits' <= MaxEdits /\ ended' <= MaxRequests
    BY GuestAssumption DEF Shapes
  <2> QED
    BY <2>1, <2>2, <2>3 DEF RunShapes, TypeOK
<1>3. KnownFiles'
  BY DEF Grows
<1> QED
  BY <1>1, <1>2, <1>3 DEF GuestInv

\* A step after which the request is further on, with the same calls behind it.
LEMMA GoesOn ==
    ASSUME GuestInv, History, Grows, Shapes', RunFields \subseteq DOMAIN run',
           run'.request = run.request, run'.asked = run.asked, run'.called = run.called,
           run'.raised = run.raised, run'.answer = run.answer, run'.receipt = run.receipt,
           run'.pc = "done" \/ ended' = ended,
           \/ run'.pc = run.pc /\ run.pc # "stopped"
           \/ run.pc = "judge" /\ run'.pc \in {"cloud", "tavily", "merge"}
           \/ run.pc = "cloud" /\ run'.pc = "pilots" /\ known'["providers"] # <<>>
              /\ \E p : p = run.request[1].provider /\ DeclarationFor(p)' # <<>>
           \/ run.pc = "pilots" /\ run'.pc = "decide" /\ known'["pilots"] # <<>>
           \/ run.pc \in {"tavily", "merge", "rank"} /\ run'.pc \in {"merge", "rank", "done"}
    PROVE  GuestInv'
<1>1. CallsWereAuthorized'
  BY CallsStay
<1>2. ReceiptsOwnUpToCalls'
  BY DEF GuestInv, ReceiptsOwnUpToCalls
<1>3. RunShapes'
  <2>1. run.asked # <<>> => known'["providers"] # <<>> /\ known'["pilots"] # <<>>
    BY DEF GuestInv, RunShapes, Grows, Registries
  <2>2. run'.pc \in {"pilots", "decide"} =>
          known'["providers"] # <<>> /\ DeclarationFor(run.request[1].provider)' # <<>>
    <3> SUFFICES ASSUME run'.pc \in {"pilots", "decide"}
                 PROVE  /\ known'["providers"] # <<>>
                        /\ \E p : p = run.request[1].provider /\ DeclarationFor(p)' # <<>>
      BY DEF DeclarationFor
    <3>1. CASE run.pc \in {"pilots", "decide"}
      <4>1. PICK p : p = run.request[1].provider
        OBVIOUS
      <4>2. known["providers"] # <<>> /\ DeclarationFor(p) # <<>>
        BY <3>1, <4>1 DEF GuestInv, RunShapes
      <4> QED
        BY <4>1, <4>2, DeclarationStays
    <3> QED
      BY <3>1
  <2>3. run'.pc = "decide" => known'["pilots"] # <<>>
    BY DEF GuestInv, RunShapes, Grows, Registries
  <2> QED
    BY <2>1, <2>2, <2>3 DEF GuestInv, RunShapes
<1> QED
  BY <1>1, <1>2, <1>3, StepKeeps DEF GuestInv, RunShapes

\* The request begins anew: nothing has been called for it.
LEMMA Begins ==
    ASSUME GuestInv, History, Grows, Shapes', RunFields \subseteq DOMAIN run',
           run'.asked = <<>>, run'.receipt = <<>>, ~run'.called,
           \/ run'.request = <<>> /\ run'.pc = "idle"
           \/ /\ run'.pc = "judge" /\ ended' < MaxRequests
              /\ \E r \in Requests : run'.request = <<r>>
    PROVE  GuestInv'
<1>1. run'.pc # "stopped"
  OBVIOUS
<1>2. RunShapes'
  <2>1. run'.pc # "idle" => run'.request # <<>>
    OBVIOUS
  <2> QED
    BY <2>1 DEF RunShapes
<1>3. CallsWereAuthorized'
  <2>1. Range(run'.asked) = {}
    BY DEF Range
  <2> QED
    BY <2>1 DEF CallsWereAuthorized
<1>4. ReceiptsOwnUpToCalls'
  <2>1. Range(run'.receipt) = {}
    BY DEF Range
  <2> QED
    BY <2>1 DEF ReceiptsOwnUpToCalls
<1> QED
  BY <1>1, <1>2, <1>3, <1>4, StepKeeps

\* The bot is stopped: it has forgotten the registries, and what they allowed.
LEMMA IsStopped ==
    ASSUME GuestInv, History, Shapes', RunFields \subseteq DOMAIN run', run'.pc = "stopped",
           run'.request = <<>> \/ \E r \in Requests : run'.request = <<r>>,
           run'.asked = <<>>, run'.receipt = <<>>, ~run'.called,
           known' = [f \in Registries |-> <<>>]
    PROVE  GuestInv'
<1>1. \A f \in Registries : known'[f] = <<>>
  OBVIOUS
<1>2. KnownFiles' /\ RunShapes'
  <2>1. known' = [f \in Registries |-> known'[f]]
    OBVIOUS
  <2> QED
    BY <1>1, <2>1 DEF KnownFiles, RunShapes
<1>3. AllowedWasSeen'
  <2>1. AllInstalled' \subseteq seen'
    BY DEF History
  <2>2. \A f \in {"providers", "pilots", "policy"} : known'[f] = <<>>
    BY <1>1 DEF Registries
  <2> QED
    BY <2>1, <2>2 DEF AllowedWasSeen
<1>4. Range(run'.asked) = {} /\ Range(run'.receipt) = {}
  BY DEF Range
<1>5. CallsWereAuthorized'
  BY <1>4 DEF CallsWereAuthorized
<1>6. ReceiptsOwnUpToCalls'
  BY <1>4 DEF ReceiptsOwnUpToCalls
<1>7. TypeOK'
  <2>1. \A f \in Registries : Len(known'[f]) <= 1
    BY <1>1, AtMostOne
  <2>2. edits' <= MaxEdits /\ ended' <= MaxRequests
    BY GuestAssumption DEF Shapes
  <2> QED
    BY <1>4, <2>1, <2>2 DEF TypeOK
<1> QED
  BY <1>2, <1>3, <1>5, <1>6, <1>7 DEF GuestInv

--------------------------------------------------------------------------------
(* The steps, one after the other. *)

\* The steps of a request inside the bot.
LEMMA AskingKeeps ==
    ASSUME GuestInv, Asking
    PROVE  GuestInv'
<1>1. CASE TakeRequest
  <2>1. Grows
    BY <1>1, KeepGrows DEF TakeRequest, GuestInv
  <2>2. Shapes'
    BY <1>1 DEF TakeRequest, GuestInv, Shapes
  <2>3. PICK r \in Requests : run' = [Idle EXCEPT !.pc = "judge", !.request = <<r>>]
    BY <1>1 DEF TakeRequest
  <2>4. /\ RunFields \subseteq DOMAIN run' /\ run'.pc = "judge" /\ run'.request = <<r>>
        /\ run'.asked = <<>> /\ run'.receipt = <<>> /\ ~run'.called
    BY <2>3 DEF Idle, RunFields
  <2>5. ended' < MaxRequests
    BY <1>1 DEF TakeRequest
  <2> QED
    BY <1>1, <2>1, <2>2, <2>4, <2>5, Begins DEF TakeRequest
<1>2. CASE Judge
  <2>1. Grows
    BY <1>2, KeepGrows DEF Judge, GuestInv
  <2>2. Shapes'
    BY <1>2 DEF Judge, GuestInv, Shapes
  <2>3. PICK adequacy, handoff, outside :
            run' = [run EXCEPT !.pc = IF outside THEN run.request[1].way ELSE "merge",
                               !.adequacy = adequacy, !.handoff = handoff]
    BY <1>2, Zenon DEF Judge
  <2>4. run.pc = "judge" /\ run.request[1].way \in {"cloud", "tavily"}
    BY <1>2, GuestAssumption DEF Judge, GuestInv, RunShapes
  <2>5. RunFields \subseteq DOMAIN run
    BY DEF GuestInv, RunShapes
  <2>6. /\ RunFields \subseteq DOMAIN run' /\ run'.pc \in {"cloud", "tavily", "merge"}
        /\ run'.request = run.request /\ run'.asked = run.asked /\ run'.called = run.called
        /\ run'.raised = run.raised /\ run'.answer = run.answer /\ run'.receipt = run.receipt
    BY <2>3, <2>4, <2>5 DEF RunFields
  <2> QED
    BY <1>2, <2>1, <2>2, <2>4, <2>6, GoesOn DEF Judge
<1>3. CASE MergeLists
  <2>1. Grows
    BY <1>3, KeepGrows DEF MergeLists, GuestInv
  <2>2. PICK raised, lists, shown :
            /\ run' = [run EXCEPT !.pc = IF raised THEN "done" ELSE "rank",
                                  !.lists = lists, !.shown = IF raised THEN <<>> ELSE shown]
            /\ ended' = IF raised THEN ended + 1 ELSE ended
    BY <1>3, Zenon DEF MergeLists
  <2>3. Shapes'
    <3>1. ended' \in 0 .. MaxRequests
      <4>1. ended' = ended + 1 \/ ended' = ended
        BY <2>2
      <4>2. ended < MaxRequests /\ ended \in Nat /\ MaxRequests \in Nat
        <5>1. run.pc = "merge"
          BY <1>3 DEF MergeLists
        <5>2. ended < MaxRequests /\ ended \in 0 .. MaxRequests /\ MaxRequests \in Nat
          BY <5>1, GuestAssumption DEF GuestInv, RunShapes, Shapes
        <5> QED
          BY <5>2
      <4> QED
        BY <4>1, <4>2
    <3> QED
      BY <1>3, <3>1 DEF MergeLists, GuestInv, Shapes
  <2>4. RunFields \subseteq DOMAIN run
    BY DEF GuestInv, RunShapes
  <2>5. /\ RunFields \subseteq DOMAIN run'
        /\ run'.pc = "done" \/ (run'.pc = "rank" /\ ended' = ended)
        /\ run'.request = run.request /\ run'.asked = run.asked /\ run'.called = run.called
        /\ run'.raised = run.raised /\ run'.answer = run.answer /\ run'.receipt = run.receipt
    BY <2>2, <2>4 DEF RunFields
  <2> QED
    BY <1>3, <2>1, <2>2, <2>3, <2>5, GoesOn DEF MergeLists
<1>4. CASE Rank
  <2>1. Grows
    BY <1>4, KeepGrows DEF Rank, GuestInv
  <2>2. PICK shown : run' = [run EXCEPT !.pc = "done", !.shown = shown]
    BY <1>4 DEF Rank
  <2>3. Shapes'
    <3>1. ended < MaxRequests /\ ended \in Nat /\ MaxRequests \in Nat
      BY <1>4, GuestAssumption DEF Rank, GuestInv, RunShapes, Shapes
    <3> QED
      BY <1>4, <3>1 DEF Rank, GuestInv, Shapes
  <2>4. RunFields \subseteq DOMAIN run
    BY DEF GuestInv, RunShapes
  <2>5. /\ RunFields \subseteq DOMAIN run' /\ run'.pc = "done"
        /\ run'.request = run.request /\ run'.asked = run.asked /\ run'.called = run.called
        /\ run'.raised = run.raised /\ run'.answer = run.answer /\ run'.receipt = run.receipt
    BY <2>2, <2>4 DEF RunFields
  <2> QED
    BY <1>4, <2>1, <2>3, <2>5, GoesOn DEF Rank
<1> QED
  BY <1>1, <1>2, <1>3, <1>4 DEF Asking

\* Pilots that are loaded are those of the file, in which all are valid.
LEMMA PilotsAreValid ==
    ASSUME NEW file, LoadPilots(file, Agent) # <<>>
    PROVE  /\ LoadPilots(file, Agent) = file.entries /\ file.readable
           /\ \A e \in Range(file.entries) : PilotValid(e, Agent)
  BY DEF LoadPilots, LoadStrict

\* The bounds of a prepared request: those of all three that give one.
LEMMA LimitsHold ==
    ASSUME NEW declaration, NEW authorization, NEW caller,
           declaration.max_results \in Nat \ {0}, authorization.max_results \in Int,
           caller.max_results \in Int
    PROVE  LET n == PreparedRequest(declaration.max_results,
                        ExecutionLimits(declaration, authorization, caller)).max_results
           IN /\ n \in Int /\ n >= 1 /\ n <= declaration.max_results
              /\ authorization.max_results > 0 => n <= authorization.max_results
              /\ caller.max_results > 0 => n <= caller.max_results
<1> DEFINE limits == ExecutionLimits(declaration, authorization, caller)
           least == MinimumPositive({declaration.max_results, authorization.max_results,
                                     caller.max_results})
<1>1. limits.max_results = least
  BY DEF ExecutionLimits
<1>2. /\ least \in Int /\ least > 0 /\ least <= declaration.max_results
      /\ authorization.max_results > 0 => least <= authorization.max_results
      /\ caller.max_results > 0 => least <= caller.max_results
  <2>1. PICK a \in Int, b \in Int, c \in Int :
            /\ a = declaration.max_results /\ b = authorization.max_results
            /\ c = caller.max_results /\ a > 0
    OBVIOUS
  <2>2. least = MinimumPositive({a, b, c})
    BY <2>1
  <2> HIDE DEF least
  <2> QED
    BY <2>1, <2>2, MinimumBounds
<1> HIDE DEF limits, least
<1>3. LET n == PreparedRequest(declaration.max_results, limits).max_results IN
      n \in Int /\ n >= 1 /\ n <= least
  BY <1>1, <1>2, RequestBounds
<1> QED
  BY <1>2, <1>3 DEF limits

\* A call is authorized by what the bot has read, and by the control.
LEMMA OpensAuthorized ==
    ASSUME GuestInv, Open, run'.pc = "calling"
    PROVE  CallsWereAuthorized' /\ \E a : a.max_results >= 1 /\ run'.asked = <<a>>
<1> DEFINE r == run.request[1]
           found == DeclarationFor(r.provider)
           control == EvaluateSwitch("cloud_execution", controls, env, Now)
           pilots == LoadPilots(Read("pilots"), Agent)
           policy == CloudPolicy(Read("policy"))
           own == {i \in DOMAIN pilots : pilots[i].provider_id = r.provider}
           authorization ==
               PilotAuthorization(pilots, policy, Head(found), control, CloudAsk(r))
           state == ExecutionState(authorization)
           a == PreparedRequest(Head(found).max_results,
                    ExecutionLimits(Head(found), authorization, r.limits))
<1>1. RunFields \subseteq DOMAIN run /\ run.request = <<r>> /\ r \in Requests
  BY DEF Open, GuestInv, RunShapes
<1>2. /\ found # <<>> /\ state \notin {"blocked", "dry_run"}
      /\ run' = [run EXCEPT !.pc = "calling", !.asked = <<a>>]
  <2>1. run' = IF state = "blocked"
                   THEN [run EXCEPT !.pc = "merge",
                                    !.receipt = <<DiscoveryClosed(FALSE).receipt>>]
               ELSE IF state = "dry_run" \/ r.adapter = "none"
                   THEN [run EXCEPT !.pc = "merge",
                           !.receipt = <<DiscoveryNotExecuted(state, authorization).receipt>>]
               ELSE [run EXCEPT !.pc = "calling", !.asked = <<a>>]
    BY Zenon DEF Open
  <2>2. found # <<>>
    BY DEF Open, GuestInv, RunShapes
  <2> HIDE DEF state, authorization, a, r, found
  <2> QED
    BY <1>1, <2>1, <2>2 DEF RunFields
<1>3. authorization.live
  <2> HIDE DEF authorization
  <2> QED
    BY <1>2 DEF ExecutionState
<1>4. /\ run'.asked = <<a>> /\ run'.request = <<r>>
  <2> HIDE DEF a, r
  <2> QED
    BY <1>1, <1>2 DEF RunFields
<1>5. /\ Grows /\ History /\ AllowedWasSeen'
      /\ known'["providers"] = <<Read("providers")>> /\ known'["pilots"] = <<Read("pilots")>>
      /\ known'["policy"] = <<Read("policy")>>
  <2>1. Keep({"policy"}) /\ History
    BY DEF Open
  <2>2. Grows
    BY <2>1, KeepGrows DEF GuestInv
  <2>3. known["providers"] # <<>> /\ known["pilots"] # <<>>
    BY DEF Open, GuestInv, RunShapes
  <2>4. \A f \in {"providers", "pilots"} : known'[f] = <<Read(f)>>
    BY <2>2, <2>3, ReadIsInstalled DEF GuestInv, Grows, Registries
  <2>5. known'["policy"] = <<Read("policy")>>
    BY <2>1 DEF Keep, Registries
  <2> QED
    BY <2>1, <2>2, <2>4, <2>5, RegistriesRemembered
<1>6. \A f \in {"providers", "pilots"} : Read(f).entries \in Seq(Range(Read(f).entries))
  <2> SUFFICES ASSUME NEW f \in {"providers", "pilots"}
               PROVE  Read(f).entries \in Seq(Range(Read(f).entries))
    OBVIOUS
  <2>1. PICK installed \in FileSets : Read(f) = installed[f]
    BY ReadIsInstalled DEF GuestInv, Registries
  <2>2. IsList(installed[f].entries)
    BY GuestAssumption
  <2> QED
    BY <2>2, <2>1 DEF IsList
<1> USE DEF ProviderIds
<1>7. r.provider \in ProviderIds
  BY <1>1
<1>8. /\ DeclaredIn(Read("providers"), r.provider) /\ Head(found).provider_id = r.provider
      /\ DeclarationValid(Head(found), Allowed)
      /\ \A e \in Range(Read("providers").entries) : e.provider_id = r.provider => e = Head(found)
  BY <1>2, <1>6, DeclarationIsFound
<1>9. Head(found).max_results \in Nat \ {0}
  BY <1>8 DEF DeclarationValid
<1>10. \A e \in Range(pilots) : e.channel = "telegram" /\ e.max_results \in 1 .. 10
  <2>1. pilots # <<>> => \A e \in Range(pilots) : PilotValid(e, Agent)
    BY PilotsAreValid
  <2>2. pilots = <<>> => Range(pilots) = {}
    BY DEF Range
  <2> HIDE DEF pilots
  <2> QED
    BY <2>1, <2>2 DEF PilotValid
<1>11. pilots \in Seq(Range(pilots))
  <2>1. pilots = <<>> \/ pilots = Read("pilots").entries
    BY DEF LoadPilots, LoadStrict
  <2>2. LET entries == Read("pilots").entries IN entries \in Seq(Range(entries))
    BY <1>6
  <2>3. <<>> \in Seq(Range(<<>>))
    OBVIOUS
  <2> HIDE DEF pilots
  <2>4. CASE pilots = <<>>
    BY <2>3, <2>4
  <2>5. CASE pilots = Read("pilots").entries
    BY <2>2, <2>5
  <2> QED
    BY <2>1, <2>4, <2>5
<1>12. /\ control.allowed /\ r.channel = "telegram"
       /\ own # {} => \E i \in own : /\ \A j \in own : i <= j
                                     /\ authorization.max_results = pilots[i].max_results
                                     /\ Bears(policy, pilots[i].governance_state, r)
       /\ own = {} => /\ authorization.max_results = 0
                      /\ Bears(policy, Head(found).governance_state, r) /\ OpenTo(policy, r)
  <2> HIDE DEF pilots, control, r, found, policy
  <2> QED
    BY <1>3, <1>8, <1>10, <1>11, LiveByPilot
<1>13. own # {} => PilotIn(Read("pilots"), r.provider)
  <2> SUFFICES ASSUME NEW i \in own PROVE PilotIn(Read("pilots"), r.provider)
    OBVIOUS
  <2>1. pilots # <<>>
    OBVIOUS
  <2>2. /\ pilots = Read("pilots").entries /\ Read("pilots").readable
        /\ \A e \in Range(Read("pilots").entries) : PilotValid(e, Agent)
    BY <2>1, PilotsAreValid
  <2>3. pilots[i] \in Range(pilots) /\ pilots[i].provider_id = r.provider
    BY DEF Range
  <2> HIDE DEF pilots, r
  <2> QED
    BY <2>2, <2>3 DEF PilotIn
<1>14. authorization.max_results \in Int
  <2>1. \A i \in own : pilots[i] \in Range(pilots)
    BY DEF Range
  <2> HIDE DEF pilots, authorization, r
  <2> QED
    BY <1>10, <1>12, <2>1
<1>15. /\ a.max_results >= 1 /\ a.max_results <= Head(found).max_results
       /\ authorization.max_results > 0 => a.max_results <= authorization.max_results
       /\ r.limits.max_results > 0 => a.max_results <= r.limits.max_results
  <2>1. r.limits.max_results \in Int
    BY <1>1, GuestAssumption
  <2> HIDE DEF authorization, r, found
  <2> QED
    BY <1>9, <1>14, <2>1, LimitsHold
<1>16. /\ \A what \in {"declared", "control"} : <<what, r.provider>> \in seen'
       /\ own # {} => <<"pilot", r.provider>> \in seen'
       /\ <<"policy", policy>> \in seen'
  <2>1. <<"control", r.provider>> \in seen'
    <3>1. <<"control", r.provider>> \in AllInstalled
      BY <1>7, <1>12, ControlAllows DEF GuestInv
    <3>2. run'.pc \notin {"judge", "stopped"}
      OBVIOUS
    <3>3. seen \subseteq seen' /\ AllInstalled \subseteq seen
      BY <1>5, <3>2, MemoryLasts DEF GuestInv, AllowedWasSeen
    <3> QED
      BY <3>1, <3>3
  <2> HIDE DEF r, own
  <2>2. /\ <<"declared", r.provider>> \in seen'
        /\ own # {} => <<"pilot", r.provider>> \in seen'
    BY <1>5, <1>7, <1>8, <1>13 DEF AllowedWasSeen, DeclaredIn, PilotIn
  <2>3. <<"policy", policy>> \in seen'
    BY <1>5 DEF AllowedWasSeen
  <2> QED
    BY <2>1, <2>2, <2>3
<1>17. CallsWereAuthorized'
  <2> DEFINE declared == {e \in Range(Read("providers").entries) : e.provider_id = r.provider}
             policies == {s[2] : s \in {t \in seen' : t[1] = "policy"}}
             within(b, n) == n > 0 => b.max_results <= n
  <2>1. policy \in policies
    BY <1>16
  <2>2. Head(found) \in declared
    <3> HIDE DEF r, found
    <3> QED
      BY <1>8 DEF DeclaredIn
  <2> HIDE DEF a, r, found, authorization, policy
  <2>3. \A e \in declared : within(a, e.max_results)
    BY <1>8, <1>15
  <2>4. own # {} => \E i \in own, q \in policies :
                        /\ \A j \in own : i <= j
                        /\ within(a, pilots[i].max_results)
                        /\ Bears(q, pilots[i].governance_state, r)
    <3> HIDE DEF pilots, policies
    <3> QED
      BY <1>12, <1>15, <2>1
  <2>5. own = {} => \E e \in declared, q \in policies :
                        Bears(q, e.governance_state, r) /\ OpenTo(q, r)
    <3> HIDE DEF own, policies, declared
    <3> QED
      BY <1>12, <2>1, <2>2
  <2>6. \A b \in Range(run'.asked) : b = a
    BY <1>4 DEF Range
  <2>7. CallBorne(a, r, Read("providers"), Read("pilots"), seen')
    <3> HIDE DEF within
    <3>1. within(a, r.limits.max_results)
      BY <1>15 DEF within
    <3> QED
      BY <1>12, <1>16, <2>3, <2>4, <2>5, <3>1 DEF CallBorne, within
  <2>8. \A b \in Range(run'.asked) :
            CallBorne(b, run'.request[1], known'["providers"][1], known'["pilots"][1], seen')
    BY <1>4, <1>5, <2>6, <2>7
  <2> QED
    BY <2>8, Zenon DEF CallsWereAuthorized, CallBorne
<1> QED
  BY <1>4, <1>15, <1>17

\* What receipts tell of the call, whichever way the boundary makes them.
LEMMA ReceiptsTell ==
    ASSUME NEW dry, NEW state, NEW authorization, NEW fake, NEW result
    PROVE  /\ ~DiscoveryClosed(dry).receipt.performed
           /\ ~DiscoveryNotExecuted(state, authorization).receipt.performed
           /\ AdapterResult(fake, result).receipt.performed <=> result.performed
<1>1. ~DiscoveryClosed(dry).receipt.performed
  BY DEF DiscoveryClosed, NoDiscovery, DiscoveryReceipt
<1>2. ~DiscoveryNotExecuted(state, authorization).receipt.performed
  BY DEF DiscoveryNotExecuted, DiscoveryReceipt
<1>3. AdapterResult(fake, result).receipt.performed <=> result.performed
  BY DEF AdapterResult, NoDiscovery, DiscoveryReceipt
<1> QED
  BY <1>1, <1>2, <1>3

\* The search outside has ended: there is a receipt, and it tells of the call.
LEMMA ReceiptComes ==
    ASSUME GuestInv, History, Grows, Shapes', ended' = ended, RunFields \subseteq DOMAIN run',
           run.pc \in {"cloud", "decide", "calling", "tavily"}, run'.pc = "merge",
           run'.request = run.request, run'.asked = run.asked,
           NEW receipt, run'.receipt = <<receipt>>, receipt.performed => run'.called,
           run'.called => \/ receipt.performed \/ run'.raised
                          \/ run'.answer[1].failure = "invalid_provider_payload"
    PROVE  GuestInv'
<1>1. CallsWereAuthorized'
  BY CallsStay
<1>2. ReceiptsOwnUpToCalls'
  <2>1. \A c \in Range(run'.receipt) : c = receipt
    BY DEF Range
  <2> QED
    BY <2>1 DEF ReceiptsOwnUpToCalls
<1>3. RunShapes'
  <2>1. run.asked # <<>> => known'["providers"] # <<>> /\ known'["pilots"] # <<>>
    BY DEF GuestInv, RunShapes, Grows, Registries
  <2> QED
    BY <2>1 DEF GuestInv, RunShapes
<1> QED
  BY <1>1, <1>2, <1>3, StepKeeps

\* The steps of the search outside keep the invariant.
LEMMA CallingKeeps ==
    ASSUME GuestInv, Calling
    PROVE  GuestInv'
<1>1. RunFields \subseteq DOMAIN run /\ Shapes'
  BY DEF GuestInv, RunShapes, Shapes, Calling, OpenClosed, Declare, ReadPilots, Open,
         FakeAnswers, NoCredentials, ModelAnswers, ModelRaises, Answered, NotSearched,
         SearchContacts
<1>2. Grows /\ History
  <2>1. History /\ ((\E names : Keep(names)) \/ UNCHANGED known)
    BY DEF Calling, OpenClosed, Declare, ReadPilots, Open, FakeAnswers, NoCredentials,
           ModelAnswers, ModelRaises, Answered, NotSearched, SearchContacts
  <2> QED
    BY <2>1, KeepGrows DEF GuestInv
<1>3. CASE OpenClosed
  <2>1. PICK receipt :
            /\ receipt = DiscoveryClosed(env.CLOUD_DRY_RUN).receipt
            /\ run' = [run EXCEPT !.pc = "merge", !.receipt = <<receipt>>]
    BY <1>3 DEF OpenClosed
  <2>2. run.pc = "cloud" /\ ended' = ended /\ ~run.called
    BY <1>3 DEF OpenClosed, GuestInv, RunShapes
  <2>3. ~receipt.performed
    BY <2>1, ReceiptsTell
  <2>4. /\ RunFields \subseteq DOMAIN run' /\ run'.pc = "merge" /\ run'.receipt = <<receipt>>
        /\ run'.request = run.request /\ run'.asked = run.asked /\ ~run'.called
    BY <1>1, <2>1, <2>2 DEF RunFields
  <2> QED
    BY <1>1, <1>2, <2>2, <2>3, <2>4, ReceiptComes
<1>4. CASE Open
  <2>1. /\ run.pc = "decide" /\ ended' = ended /\ ~run.called /\ run.receipt = <<>>
        /\ known["providers"] # <<>> /\ known["pilots"] # <<>>
    BY <1>4 DEF Open, GuestInv, RunShapes
  <2>2. CASE run'.pc = "calling"
    <3>1. CallsWereAuthorized' /\ \E a : a.max_results >= 1 /\ run'.asked = <<a>>
      BY <1>4, <2>2, OpensAuthorized
    <3>2. PICK asked : run' = [run EXCEPT !.pc = "calling", !.asked = asked]
      BY <1>1, <1>4, <2>2 DEF Open, RunFields
    <3>3. /\ RunFields \subseteq DOMAIN run' /\ run'.request = run.request
          /\ run'.receipt = <<>> /\ ~run'.called
      BY <1>1, <2>1, <3>2 DEF RunFields
    <3>4. known'["providers"] # <<>> /\ known'["pilots"] # <<>>
      BY <1>2, <2>1 DEF Grows, Registries
    <3>5. RunShapes'
      <4>1. /\ run.request = <<>> \/ \E r \in Requests : run.request = <<r>>
            /\ run.request # <<>> /\ ended < MaxRequests
        BY <2>1 DEF GuestInv, RunShapes
      <4> QED
        BY <2>1, <2>2, <3>1, <3>3, <3>4, <4>1 DEF RunShapes
    <3>6. ReceiptsOwnUpToCalls'
      <4>1. Range(run'.receipt) = {}
        BY <3>3 DEF Range
      <4> QED
        BY <4>1 DEF ReceiptsOwnUpToCalls
    <3> QED
      BY <1>1, <1>2, <2>2, <3>1, <3>5, <3>6, StepKeeps
  <2>3. CASE run'.pc # "calling"
    <3>1. PICK receipt :
            /\ run' = [run EXCEPT !.pc = "merge", !.receipt = <<receipt>>]
            /\ ~receipt.performed
      <4>1. \E state, authorization, asked, adapter :
                run' = IF state = "blocked"
                           THEN [run EXCEPT !.pc = "merge",
                                   !.receipt = <<DiscoveryClosed(FALSE).receipt>>]
                       ELSE IF state = "dry_run" \/ adapter = "none"
                           THEN [run EXCEPT !.pc = "merge", !.receipt =
                                   <<DiscoveryNotExecuted(state, authorization).receipt>>]
                       ELSE [run EXCEPT !.pc = "calling", !.asked = asked]
        BY <1>4, Zenon DEF Open
      <4>2. PICK state, authorization :
                \/ run' = [run EXCEPT !.pc = "merge",
                             !.receipt = <<DiscoveryClosed(FALSE).receipt>>]
                \/ run' = [run EXCEPT !.pc = "merge", !.receipt =
                             <<DiscoveryNotExecuted(state, authorization).receipt>>]
        BY <1>1, <2>3, <4>1 DEF RunFields
      <4> QED
        BY <4>2, ReceiptsTell
    <3>2. /\ RunFields \subseteq DOMAIN run' /\ run'.pc = "merge" /\ run'.receipt = <<receipt>>
          /\ run'.request = run.request /\ run'.asked = run.asked /\ ~run'.called
      BY <1>1, <2>1, <3>1 DEF RunFields
    <3> QED
      BY <1>1, <1>2, <2>1, <3>1, <3>2, ReceiptComes
  <2> QED
    BY <2>2, <2>3
<1>5. CASE NotSearched
  <2>1. run.pc = "tavily" /\ ended' = ended /\ run' = [run EXCEPT !.pc = "merge"]
    BY <1>5 DEF NotSearched
  <2>2. /\ RunFields \subseteq DOMAIN run' /\ run'.pc = "merge"
        /\ run'.request = run.request /\ run'.asked = run.asked /\ run'.called = run.called
        /\ run'.raised = run.raised /\ run'.answer = run.answer /\ run'.receipt = run.receipt
    BY <1>1, <2>1 DEF RunFields
  <2> QED
    BY <1>1, <1>2, <2>1, <2>2, GoesOn
<1>6. CASE SearchContacts
  <2>1. PICK answer, observed, web, receipt :
            /\ run' = [run EXCEPT !.pc = "merge", !.called = TRUE, !.answer = answer,
                          !.receipt = <<receipt>>, !.observed = observed, !.web = web]
            /\ receipt = DiscoveryReceipt("live_adapter_executed", FALSE, TRUE, TRUE,
                                          TRUE, TRUE, FALSE)
    BY <1>6, Zenon DEF SearchContacts
  <2>2. run.pc = "tavily" /\ ended' = ended /\ receipt.performed
    BY <1>6, <2>1 DEF SearchContacts, DiscoveryReceipt
  <2>3. /\ RunFields \subseteq DOMAIN run' /\ run'.pc = "merge" /\ run'.receipt = <<receipt>>
        /\ run'.request = run.request /\ run'.asked = run.asked /\ run'.called
    BY <1>1, <2>1 DEF RunFields
  <2> QED
    BY <1>1, <1>2, <2>2, <2>3, ReceiptComes
<1>7. ASSUME NEW result, NEW called, NEW raised, run.pc = "calling",
             Answered(result, called, raised), result.performed => called,
             called => \/ result.performed \/ raised
                       \/ result.failure = "invalid_provider_payload"
      PROVE  GuestInv'
  <2>1. PICK web, receipt :
            /\ run' = [run EXCEPT !.pc = "merge", !.called = called, !.raised = raised,
                          !.answer = <<result>>, !.receipt = <<receipt>>, !.web = web]
            /\ receipt = AdapterResult(run.request[1].adapter = "fake", result).receipt
            /\ ended' = ended
    BY <1>7, Zenon DEF Answered
  <2>2. receipt.performed <=> result.performed
    BY <2>1, ReceiptsTell
  <2>3. /\ RunFields \subseteq DOMAIN run' /\ run'.pc = "merge" /\ run'.receipt = <<receipt>>
        /\ run'.request = run.request /\ run'.asked = run.asked /\ run'.answer[1] = result
        /\ run'.called <=> called
        /\ run'.raised <=> raised
    BY <1>1, <2>1 DEF RunFields
  <2> QED
    BY <1>1, <1>2, <1>7, <2>1, <2>2, <2>3, ReceiptComes
<1>8. CASE FakeAnswers
  <2> DEFINE result ==
                 [results |-> run.request[1].fixture, performed |-> FALSE, failure |-> ""]
  <2>1. Answered(result, FALSE, FALSE)
    BY <1>8, Zenon DEF FakeAnswers
  <2>2. ~result.performed
    OBVIOUS
  <2> HIDE DEF result
  <2> QED
    BY <1>7, <1>8, <2>1, <2>2 DEF FakeAnswers
<1>9. CASE NoCredentials
  <2>1. Answered(ClosedResult("missing_credentials"), FALSE, FALSE)
    BY <1>9 DEF NoCredentials
  <2>2. ~ClosedResult("missing_credentials").performed
    BY DEF ClosedResult
  <2> QED
    BY <1>7, <1>9, <2>1, <2>2 DEF NoCredentials
<1>10. CASE ModelAnswers
  <2>1. PICK payload : Answered(ResultFromPayload(payload), TRUE, FALSE)
    BY <1>10 DEF ModelAnswers
  <2>2. \/ ResultFromPayload(payload).performed
        \/ ResultFromPayload(payload).failure = "invalid_provider_payload"
    BY DEF ResultFromPayload, ClosedResult
  <2> QED
    BY <1>7, <1>10, <2>1, <2>2 DEF ModelAnswers
<1>11. CASE ModelRaises
  <2>1. Answered(ClosedResult("adapter_exception"), TRUE, TRUE)
    BY <1>11 DEF ModelRaises
  <2> QED
    BY <1>7, <1>11, <2>1 DEF ModelRaises
<1>12. CASE Declare \/ ReadPilots
  <2>1. /\ ended' = ended
        /\ \/ Declare /\ run.pc = "cloud" /\ run' = [run EXCEPT !.pc = "pilots"]
           \/ ReadPilots /\ run.pc = "pilots" /\ run' = [run EXCEPT !.pc = "decide"]
    BY <1>12 DEF Declare, ReadPilots
  <2>2. /\ RunFields \subseteq DOMAIN run'
        /\ run'.request = run.request /\ run'.asked = run.asked /\ run'.called = run.called
        /\ run'.raised = run.raised /\ run'.answer = run.answer /\ run'.receipt = run.receipt
    BY <1>1, <2>1 DEF RunFields
  <2>3. CASE Declare
    <3>1. PICK p : p = run.request[1].provider
      OBVIOUS
    <3>2. known'["providers"] = <<Read("providers")>>
      BY <2>3 DEF Declare, Keep, Registries
    <3>3. DeclarationFor(p) # <<>>
      BY <2>3, <3>1 DEF Declare, Declarable
    <3>4. DeclarationFor(p)' = DeclarationFor(p)
      BY <3>2 DEF DeclarationFor, Read
    <3>5. run.pc = "cloud" /\ run'.pc = "pilots"
      BY <1>1, <2>3 DEF Declare, RunFields
    <3> QED
      BY <1>1, <1>2, <2>1, <2>2, <3>1, <3>2, <3>3, <3>4, <3>5, GoesOn
  <2>4. CASE ReadPilots
    <3>1. known'["pilots"] # <<>>
      BY <2>4 DEF ReadPilots, Keep, Registries
    <3>2. run.pc = "pilots" /\ run'.pc = "decide"
      BY <1>1, <2>4 DEF ReadPilots, RunFields
    <3> QED
      BY <1>1, <1>2, <2>1, <2>2, <3>1, <3>2, GoesOn
  <2> QED
    BY <1>12, <2>3, <2>4
<1> QED
  BY <1>3, <1>4, <1>5, <1>6, <1>8, <1>9, <1>10, <1>11, <1>12 DEF Calling

\* What operators do, and the end of the bot and its start.
LEMMA OperatingKeeps ==
    ASSUME GuestInv, Operating
    PROVE  GuestInv'
<1>1. RunFields \subseteq DOMAIN run /\ edits \in 0 .. MaxEdits /\ MaxEdits \in Nat
  BY GuestAssumption DEF GuestInv, RunShapes, Shapes
<1>2. CASE EditFiles \/ ChangeControl
  <2>1. Shapes'
    BY <1>1, <1>2 DEF EditFiles, ChangeControl, GuestInv, Shapes
  <2>2. UNCHANGED <<known, run, ended>> /\ History
    BY <1>2 DEF EditFiles, ChangeControl
  <2>3. Grows
    BY <2>2, KeepGrows DEF GuestInv
  <2>4. CASE run.pc # "stopped"
    BY <1>1, <2>1, <2>2, <2>3, <2>4, GoesOn
  <2>5. CASE run.pc = "stopped"
    <3>1. \A f \in Registries : known[f] = <<>>
      BY <2>5 DEF GuestInv, RunShapes
    <3>2. known' = [f \in Registries |-> <<>>]
      BY <2>2, <3>1 DEF GuestInv, KnownFiles
    <3>3. /\ run.request = <<>> \/ \E r \in Requests : run.request = <<r>>
          /\ run.asked = <<>> /\ run.receipt = <<>> /\ ~run.called
      BY <2>5 DEF GuestInv, RunShapes
    <3> QED
      BY <1>1, <2>1, <2>2, <2>5, <3>2, <3>3, IsStopped
  <2> QED
    BY <2>4, <2>5
<1>3. CASE Stop
  <2>1. Shapes'
    BY <1>1, <1>3 DEF Stop, GuestInv, Shapes
  <2>2. History /\ known' = [f \in Registries |-> <<>>] /\ run' = [Idle EXCEPT !.pc = "stopped"]
    BY <1>3 DEF Stop
  <2>3. /\ RunFields \subseteq DOMAIN run' /\ run'.pc = "stopped" /\ run'.request = <<>>
        /\ run'.asked = <<>> /\ run'.receipt = <<>> /\ ~run'.called
    BY <2>2 DEF Idle, RunFields
  <2> QED
    BY <2>1, <2>2, <2>3, IsStopped
<1>4. CASE Restart
  <2>1. Grows /\ History
    BY <1>4, KeepGrows DEF Restart, GuestInv
  <2>2. Shapes'
    BY <1>4 DEF Restart, GuestInv, Shapes
  <2>3. run' = Idle
    BY <1>4 DEF Restart
  <2>4. /\ RunFields \subseteq DOMAIN run' /\ run'.pc = "idle" /\ run'.request = <<>>
        /\ run'.asked = <<>> /\ run'.receipt = <<>> /\ ~run'.called
    BY <2>3 DEF Idle, RunFields
  <2> QED
    BY <2>1, <2>2, <2>4, Begins
<1> QED
  BY <1>2, <1>3, <1>4 DEF Operating

--------------------------------------------------------------------------------
\* The invariant is inductive.
LEMMA GuestInduction == Spec => []GuestInv
<1>1. Init => GuestInv
  <2> SUFFICES ASSUME Init PROVE GuestInv
    OBVIOUS
  <2>1. Shapes
    BY GuestAssumption DEF Init, Shapes
  <2>2. \A f \in Registries : known[f] = <<>>
    BY DEF Init
  <2>3. KnownFiles
    <3>1. known = [f \in Registries |-> known[f]]
      BY DEF Init
    <3> QED
      BY <2>2, <3>1 DEF KnownFiles
  <2>4. /\ RunFields \subseteq DOMAIN run /\ run.pc = "idle" /\ run.request = <<>>
        /\ run.asked = <<>> /\ run.receipt = <<>> /\ ~run.called
    BY DEF Init, Idle, RunFields
  <2>5. RunShapes
    BY <2>4 DEF RunShapes
  <2>6. AllowedWasSeen
    <3>1. known["providers"] = <<>> /\ known["pilots"] = <<>> /\ known["policy"] = <<>>
      BY <2>2 DEF Registries
    <3> QED
      BY <3>1 DEF Init, AllowedWasSeen
  <2>7. Range(run.asked) = {} /\ Range(run.receipt) = {}
    BY <2>4 DEF Range
  <2>8. CallsWereAuthorized
    BY <2>7 DEF CallsWereAuthorized
  <2>9. ReceiptsOwnUpToCalls
    BY <2>7 DEF ReceiptsOwnUpToCalls
  <2>10. TypeOK
    <3>1. \A f \in Registries : Len(known[f]) <= 1
      BY <2>2, AtMostOne
    <3>2. edits <= MaxEdits /\ ended <= MaxRequests
      BY <2>1, GuestAssumption DEF Shapes
    <3> QED
      BY <2>4, <2>7, <3>1, <3>2 DEF TypeOK
  <2> QED
    BY <2>1, <2>3, <2>5, <2>6, <2>8, <2>9, <2>10 DEF GuestInv
<1>2. GuestInv /\ [Next]_vars => GuestInv'
  <2> SUFFICES ASSUME GuestInv, [Next]_vars PROVE GuestInv'
    OBVIOUS
  <2>1. CASE Asking
    BY <2>1, AskingKeeps
  <2>2. CASE Calling
    BY <2>2, CallingKeeps
  <2>3. CASE Operating
    BY <2>3, OperatingKeeps
  <2>4. CASE UNCHANGED vars
    <3>1. UNCHANGED <<files, known, controls, env, edits, run, ended, seen>>
      BY <2>4 DEF vars
    <3>2. TypeOK' /\ Shapes' /\ RunShapes' /\ KnownFiles'
      BY <3>1 DEF GuestInv, TypeOK, Shapes, RunShapes, KnownFiles, DeclarationFor, Read
    <3>3. AllInstalled' = AllInstalled
      BY <3>1 DEF AllInstalled, Installed
    <3>4. AllowedWasSeen'
      BY <3>1, <3>3 DEF GuestInv, AllowedWasSeen, DeclaredIn, PilotIn
    <3>5. CallsWereAuthorized'
      BY <3>1 DEF GuestInv, CallsWereAuthorized
    <3>6. ReceiptsOwnUpToCalls'
      BY <3>1 DEF GuestInv, ReceiptsOwnUpToCalls
    <3> QED
      BY <3>2, <3>4, <3>5, <3>6 DEF GuestInv
  <2> QED
    BY <2>1, <2>2, <2>3, <2>4 DEF Next
<1> QED
  BY <1>1, <1>2, PTL DEF Spec

--------------------------------------------------------------------------------
\* The bot is at one request at a time, in one of its places, and has each
\* registry read once at most.
THEOREM TypeCorrect == Spec => []TypeOK
<1>1. GuestInv => TypeOK
  BY DEF GuestInv
<1> QED
  BY <1>1, GuestInduction, PTL

\* A cloud provider is called only as the declarations, the pilots and the
\* control allow it, and within the limits of each of them and of the caller
\* (external_discovery_boundary.py, cloud_provider_pilot_authorization.py).
THEOREM CallsAuthorized == Spec => []CallsWereAuthorized
<1>1. GuestInv => CallsWereAuthorized
  BY DEF GuestInv
<1> QED
  BY <1>1, GuestInduction, PTL

\* Receipts tell of the calls that were made, but for those that raised and
\* those whose answer was no object (external_discovery_boundary.py,
\* cloud_web_ai.py).
THEOREM ReceiptsTellOfCalls == Spec => []ReceiptsOwnUpToCalls
<1>1. GuestInv => ReceiptsOwnUpToCalls
  BY DEF GuestInv
<1> QED
  BY <1>1, GuestInduction, PTL

--------------------------------------------------------------------------------
(* Lists. *)

\* A set of numbers with 0 and the successor of each of its numbers has all.
LEMMA NaturalsOf ==
    ASSUME NEW S, 0 \in S, \A n \in Nat : n \in S => n + 1 \in S
    PROVE  \A n \in Nat : n \in S
<1> SUFFICES ASSUME {n \in Nat : n \notin S} # {} PROVE FALSE
  OBVIOUS
<1>1. PICK x \in Nat : x \notin S /\ \A y \in Nat : y \notin S => x <= y
  BY MinIsLeast, {n \in Nat : n \notin S} \in SUBSET Nat
<1>2. x # 0 /\ x - 1 \in Nat
  BY <1>1
<1>3. x - 1 \in S
  BY <1>1, <1>2
<1> QED
  BY <1>1, <1>2, <1>3, x - 1 + 1 = x

\* The same up to a bound.
LEMMA NumbersUpTo ==
    ASSUME NEW m \in Nat, NEW S, 0 \in S, \A n \in 0 .. m - 1 : n \in S => n + 1 \in S
    PROVE  \A n \in 0 .. m : n \in S
<1> DEFINE T == {n \in Nat : n <= m => n \in S}
<1>1. 0 \in T
  OBVIOUS
<1>2. ASSUME NEW n \in Nat, n \in T PROVE n + 1 \in T
  <2> SUFFICES ASSUME n + 1 <= m PROVE n + 1 \in S
    OBVIOUS
  <2> QED
    BY <1>2, n \in 0 .. m - 1
<1> HIDE DEF T
<1>3. \A n \in Nat : n \in T
  BY <1>1, <1>2, NaturalsOf
<1> QED
  BY <1>3 DEF T

\* s starts at start, and goes from each value to the next by step.
Unrolls(s, N, S, start, step) ==
    s \in [0 .. N -> S] /\ s[0] = start /\ \A n \in 1 .. N : s[n] = step[<<n, s[n - 1]>>]

\* Recursion up to N: there is such a function.
LEMMA Recursion ==
    ASSUME NEW N \in Nat, NEW S, NEW start \in S, NEW step \in [Nat \X S -> S]
    PROVE  \E s : Unrolls(s, N, S, start, step)
<1> DEFINE Good == {m \in Nat : \E s : Unrolls(s, m, S, start, step)}
<1>1. 0 \in Good
  <2> DEFINE s == [i \in 0 .. 0 |-> start]
  <2>1. Unrolls(s, 0, S, start, step)
    BY DEF Unrolls
  <2> QED
    BY <2>1
<1>2. ASSUME NEW m \in Nat, m \in Good PROVE m + 1 \in Good
  <2>1. PICK h : Unrolls(h, m, S, start, step)
    BY <1>2
  <2>2. h[m] \in S /\ step[<<m + 1, h[m]>>] \in S
    BY <2>1 DEF Unrolls
  <2> DEFINE s == [i \in 0 .. m + 1 |-> IF i = m + 1 THEN step[<<m + 1, h[m]>>] ELSE h[i]]
  <2>3. s \in [0 .. m + 1 -> S]
    BY <2>1, <2>2 DEF Unrolls
  <2>4. s[0] = start
    BY <2>1 DEF Unrolls
  <2>5. ASSUME NEW n \in 1 .. m + 1 PROVE s[n] = step[<<n, s[n - 1]>>]
    <3>1. n - 1 \in 0 .. m + 1 /\ n - 1 # m + 1 /\ n \in 0 .. m + 1
      OBVIOUS
    <3>2. s[n - 1] = h[n - 1]
      BY <3>1
    <3>3. CASE n = m + 1
      BY <3>1, <3>2, <3>3, n - 1 = m
    <3>4. CASE n # m + 1
      BY <2>1, <3>1, <3>2, <3>4, n \in 1 .. m DEF Unrolls
    <3> QED
      BY <3>3, <3>4
  <2> HIDE DEF s
  <2>6. Unrolls(s, m + 1, S, start, step)
    BY <2>3, <2>4, <2>5 DEF Unrolls
  <2> QED
    BY <2>6
<1> HIDE DEF Good
<1>3. N \in Good
  BY <1>1, <1>2, NaturalsOf
<1> QED
  BY <1>3 DEF Good

\* A function on 1 .. n is a sequence of length n.
LEMMA FunctionSeq ==
    ASSUME NEW S, NEW n \in Nat, NEW f \in [1 .. n -> S]
    PROVE  f \in Seq(S) /\ Len(f) = n
BY SeqDef

\* The first n of the sequences, one after another.
Joins(s, seqs, S) ==
    /\ s \in [0 .. Len(seqs) -> Seq(S)] /\ s[0] = <<>>
    /\ \A n \in 1 .. Len(seqs) : s[n] = s[n - 1] \o seqs[n]

\* FlattenSeq is all of them.
LEMMA Flattened ==
    ASSUME NEW S, NEW seqs \in Seq(Seq(S))
    PROVE  \E s : Joins(s, seqs, S) /\ FlattenSeq(seqs) = s[Len(seqs)]
<1> DEFINE N == Len(seqs)
           step == [p \in Nat \X Seq(S) |->
                       p[2] \o (IF p[1] \in 1 .. N THEN seqs[p[1]] ELSE <<>>)]
           Flat(s) == s = [i \in 1 .. N |-> IF i = 1 THEN seqs[i] ELSE s[i - 1] \o seqs[i]]
<1>1. N \in Nat /\ \A n \in 1 .. N : seqs[n] \in Seq(S)
  OBVIOUS
<1>2. step \in [Nat \X Seq(S) -> Seq(S)] /\ <<>> \in Seq(S)
  <2>1. ASSUME NEW p \in Nat \X Seq(S)
        PROVE  p[2] \o (IF p[1] \in 1 .. N THEN seqs[p[1]] ELSE <<>>) \in Seq(S)
    <3>1. p[2] \in Seq(S) /\ <<>> \in Seq(S)
      OBVIOUS
    <3>2. (IF p[1] \in 1 .. N THEN seqs[p[1]] ELSE <<>>) \in Seq(S)
      BY <1>1, <3>1
    <3> QED
      BY <3>1, <3>2, ConcatProperties
  <2>2. \A p \in Nat \X Seq(S) : step[p] \in Seq(S)
    BY <2>1
  <2>3. DOMAIN step = Nat \X Seq(S) /\ step = [p \in DOMAIN step |-> step[p]]
    OBVIOUS
  <2> HIDE DEF step
  <2>4. step \in [Nat \X Seq(S) -> Seq(S)]
    BY <2>2, <2>3
  <2> QED
    BY <2>4
<1>step. ASSUME NEW n \in 1 .. N, NEW x \in Seq(S) PROVE step[<<n, x>>] = x \o seqs[n]
  <2> DEFINE p == <<n, x>>
  <2>1. p \in Nat \X Seq(S) /\ p[1] = n /\ p[2] = x
    OBVIOUS
  <2> HIDE DEF p
  <2>2. step[p] = p[2] \o (IF p[1] \in 1 .. N THEN seqs[p[1]] ELSE <<>>)
    BY <2>1
  <2>3. step[p] = x \o seqs[n]
    <3> HIDE DEF step, N
    <3> QED
      BY <2>1, <2>2
  <2> QED
    BY <2>3 DEF p
<1> HIDE DEF step
<1>3. PICK s : Unrolls(s, N, Seq(S), <<>>, step)
  BY <1>1, <1>2, Recursion
<1>4. Joins(s, seqs, S)
  <2>1. s \in [0 .. N -> Seq(S)] /\ s[0] = <<>>
    BY <1>3 DEF Unrolls
  <2>2. ASSUME NEW n \in 1 .. N PROVE s[n] = s[n - 1] \o seqs[n]
    <3>1. n \in Nat /\ n - 1 \in 0 .. N
      BY <1>1
    <3>2. s[n - 1] \in Seq(S)
      BY <2>1, <3>1
    <3>3. s[n] = step[<<n, s[n - 1]>>]
      BY <1>3 DEF Unrolls
    <3> QED
      BY <1>step, <3>2, <3>3
  <2> QED
    BY <2>1, <2>2 DEF Joins
<1>5. CASE N = 0
  <2>1. FlattenSeq(seqs) = seqs /\ seqs = <<>>
    BY <1>5 DEF FlattenSeq
  <2> QED
    BY <1>4, <1>5, <2>1 DEF Joins
<1>6. CASE N # 0
  <2> DEFINE flat == [i \in 1 .. N |-> s[i]]
             chosen == CHOOSE x : Flat(x)
  <2>1. Flat(flat)
    <3>1. ASSUME NEW i \in 1 .. N
          PROVE  s[i] = IF i = 1 THEN seqs[i] ELSE flat[i - 1] \o seqs[i]
      <4>1. CASE i = 1
        <5>1. s[1] = s[0] \o seqs[1] /\ s[0] = <<>> /\ seqs[1] \in Seq(S)
          BY <1>1, <1>4, <4>1, 1 - 1 = 0 DEF Joins
        <5>2. <<>> \o seqs[1] = seqs[1]
          BY <5>1, ConcatEmptySeq
        <5> QED
          BY <4>1, <5>1, <5>2
      <4>2. CASE i # 1
        <5>1. i - 1 \in 1 .. N
          BY <1>1, <4>2
        <5> QED
          BY <1>4, <4>2, <5>1 DEF Joins
      <4> QED
        BY <4>1, <4>2
    <3> QED
      BY <3>1
  <2>2. Flat(chosen)
    <3> HIDE DEF Flat, flat
    <3> QED
      BY <2>1
  <2>3. FlattenSeq(seqs) = chosen[N]
    BY <1>6 DEF FlattenSeq
  <2> HIDE DEF chosen
  <2> DEFINE Same == {n \in 0 .. N : n # 0 => chosen[n] = s[n]}
  <2>4. 0 \in Same
    BY <1>1
  <2>5. ASSUME NEW n \in 0 .. N - 1, n \in Same PROVE n + 1 \in Same
    <3>1. n + 1 \in 1 .. N /\ (n + 1) - 1 = n /\ n + 1 \in 0 .. N
      BY <1>1
    <3>2. chosen[n + 1] = IF n + 1 = 1 THEN seqs[n + 1] ELSE chosen[n] \o seqs[n + 1]
      BY <2>2, <3>1
    <3>3. flat[n + 1] = IF n + 1 = 1 THEN seqs[n + 1] ELSE flat[n] \o seqs[n + 1]
      <4> HIDE DEF flat
      <4> QED
        BY <2>1, <3>1
    <3>4. flat[n + 1] = s[n + 1] /\ (n # 0 => flat[n] = s[n])
      BY <1>1, <3>1
    <3>5. n # 0 => chosen[n] = s[n]
      BY <2>5
    <3>6. chosen[n + 1] = s[n + 1]
      <4> HIDE DEF flat, Same
      <4> QED
        BY <3>2, <3>3, <3>4, <3>5
    <3> QED
      BY <3>1, <3>6
  <2>6. \A n \in 0 .. N : n \in Same
    <3> HIDE DEF Same
    <3> QED
      BY <1>1, <2>4, <2>5, NumbersUpTo
  <2>7. chosen[N] = s[N]
    BY <1>1, <1>6, <2>6
  <2> QED
    BY <1>4, <2>3, <2>7
<1> QED
  BY <1>5, <1>6

\* Of any two, the one that stands before the other is before it.
Ordered(seq, before) ==
    \A k, l \in DOMAIN seq : k < l => <<seq[k], seq[l]>> \in before

\* One after another, two sequences have what each of them has, in its order.
LEMMA ConcatOrdered ==
    ASSUME NEW S, NEW a \in Seq(S), NEW b \in Seq(S), NEW before,
           Ordered(a, before), Ordered(b, before),
           \A x \in Range(a), y \in Range(b) : <<x, y>> \in before
    PROVE  Ordered(a \o b, before)
<1> DEFINE c == a \o b
           m == Len(a)
           n == Len(b)
<1>1. /\ m \in Nat /\ n \in Nat /\ DOMAIN a = 1 .. m /\ DOMAIN b = 1 .. n
      /\ c \in Seq(S) /\ Len(c) = m + n
      /\ \A k \in 1 .. m + n : c[k] = IF k <= m THEN a[k] ELSE b[k - m]
  BY ConcatProperties
<1>2. DOMAIN c = 1 .. m + n
  BY <1>1
<1> HIDE DEF c, m, n
<1>3. ASSUME NEW k \in 1 .. m + n, NEW l \in 1 .. m + n, k < l PROVE <<c[k], c[l]>> \in before
  <2>1. CASE l <= m
    <3>1. k \in 1 .. m /\ l \in 1 .. m
      BY <1>1, <1>3, <2>1
    <3>2. c[k] = a[k] /\ c[l] = a[l]
      BY <1>1, <1>3, <2>1, <3>1
    <3> QED
      BY <1>1, <1>3, <3>1, <3>2 DEF Ordered
  <2>2. CASE ~(k <= m)
    <3>1. k - m \in 1 .. n /\ l - m \in 1 .. n /\ k - m < l - m /\ ~(l <= m)
      BY <1>1, <1>3, <2>2
    <3>2. c[k] = b[k - m] /\ c[l] = b[l - m]
      BY <1>1, <1>3, <2>2, <3>1
    <3> QED
      BY <1>1, <3>1, <3>2 DEF Ordered
  <2>3. CASE k <= m /\ ~(l <= m)
    <3>1. k \in 1 .. m /\ l - m \in 1 .. n
      BY <1>1, <1>3, <2>3
    <3>2. c[k] = a[k] /\ c[l] = b[l - m]
      BY <1>1, <1>3, <2>3, <3>1
    <3>3. c[k] \in Range(a) /\ c[l] \in Range(b)
      BY <1>1, <3>1, <3>2 DEF Range
    <3> QED
      BY <3>3
  <2> QED
    BY <2>1, <2>2, <2>3
<1> QED
  BY <1>2, <1>3 DEF Ordered, c

\* One after another, two sequences have what is in one of them.
LEMMA ConcatRange ==
    ASSUME NEW S, NEW a \in Seq(S), NEW b \in Seq(S)
    PROVE  Range(a \o b) = Range(a) \union Range(b)
<1> DEFINE c == a \o b
           m == Len(a)
           n == Len(b)
<1>1. /\ m \in Nat /\ n \in Nat /\ DOMAIN a = 1 .. m /\ DOMAIN b = 1 .. n
      /\ c \in Seq(S) /\ Len(c) = m + n
      /\ \A k \in 1 .. m + n : c[k] = IF k <= m THEN a[k] ELSE b[k - m]
  BY ConcatProperties
<1>2. DOMAIN c = 1 .. m + n
  BY <1>1
<1> HIDE DEF c, m, n
<1>3. ASSUME NEW k \in 1 .. m PROVE a[k] \in Range(c)
  <2>1. k \in 1 .. m + n /\ c[k] = a[k]
    BY <1>1
  <2> QED
    BY <1>2, <2>1 DEF Range
<1>4. ASSUME NEW k \in 1 .. n PROVE b[k] \in Range(c)
  <2>1. m + k \in 1 .. m + n /\ ~(m + k <= m) /\ (m + k) - m = k
    BY <1>1
  <2>2. c[m + k] = b[k]
    BY <1>1, <2>1
  <2> QED
    BY <1>2, <2>1, <2>2 DEF Range
<1>5. ASSUME NEW k \in 1 .. m + n PROVE c[k] \in Range(a) \union Range(b)
  <2>1. CASE k <= m
    <3>1. k \in 1 .. m /\ c[k] = a[k]
      BY <1>1, <2>1
    <3> QED
      BY <1>1, <3>1 DEF Range
  <2>2. CASE ~(k <= m)
    <3>1. k - m \in 1 .. n /\ c[k] = b[k - m]
      BY <1>1, <2>2
    <3> QED
      BY <1>1, <3>1 DEF Range
  <2> QED
    BY <2>1, <2>2
<1>6. Range(a) \subseteq Range(c) /\ Range(b) \subseteq Range(c)
  BY <1>1, <1>3, <1>4 DEF Range
<1>7. Range(c) \subseteq Range(a) \union Range(b)
  BY <1>2, <1>5 DEF Range
<1> QED
  BY <1>6, <1>7 DEF c

\* Flattened, sequences have what each of them has, in its order, if what one
\* has is before what the next ones have.
LEMMA FlattenFacts ==
    ASSUME NEW S, NEW seqs \in Seq(Seq(S)), NEW before,
           \A i \in DOMAIN seqs : Ordered(seqs[i], before),
           \A i, j \in DOMAIN seqs : i < j =>
               \A x \in Range(seqs[i]), y \in Range(seqs[j]) : <<x, y>> \in before
    PROVE  /\ FlattenSeq(seqs) \in Seq(S)
           /\ Range(FlattenSeq(seqs)) = UNION {Range(seqs[i]) : i \in DOMAIN seqs}
           /\ Ordered(FlattenSeq(seqs), before)
<1> DEFINE N == Len(seqs)
<1>1. N \in Nat /\ DOMAIN seqs = 1 .. N /\ \A i \in 1 .. N : seqs[i] \in Seq(S)
  OBVIOUS
<1>2. PICK s : Joins(s, seqs, S) /\ FlattenSeq(seqs) = s[N]
  BY Flattened
<1> DEFINE All(n) == UNION {Range(seqs[i]) : i \in 1 .. n}
           Good == {n \in 0 .. N : Range(s[n]) = All(n) /\ Ordered(s[n], before)}
<1>3. 0 \in Good
  <2>1. s[0] = <<>> /\ 0 \in 0 .. N
    BY <1>1, <1>2 DEF Joins
  <2>2. DOMAIN s[0] = {} /\ All(0) = {}
    BY <2>1
  <2>3. Range(s[0]) = All(0) /\ Ordered(s[0], before)
    <3> HIDE DEF All
    <3> QED
      BY <2>2 DEF Range, Ordered
  <2> QED
    BY <2>1, <2>3
<1>4. ASSUME NEW n \in 0 .. N - 1, n \in Good PROVE n + 1 \in Good
  <2> DEFINE m == n + 1
  <2>1. m \in 1 .. N /\ m - 1 = n /\ m \in 0 .. N /\ n \in 0 .. N /\ n \in Nat
    BY <1>1
  <2>2. s[n] \in Seq(S) /\ seqs[m] \in Seq(S) /\ s[m] = s[n] \o seqs[m]
    <3>1. \A k \in 1 .. N : s[k] = s[k - 1] \o seqs[k]
      BY <1>2 DEF Joins
    <3>2. s[n] \in Seq(S)
      BY <1>2, <2>1 DEF Joins
    <3> HIDE DEF m
    <3> QED
      BY <1>1, <2>1, <3>1, <3>2
  <2>3. Range(s[n]) = All(n) /\ Ordered(s[n], before)
    BY <1>4
  <2>4. All(m) = All(n) \union Range(seqs[m])
    <3>1. 1 .. m = (1 .. n) \union {m}
      BY <2>1
    <3> HIDE DEF m
    <3> QED
      BY <3>1
  <2>5. ASSUME NEW x \in Range(s[n]), NEW y \in Range(seqs[m]) PROVE <<x, y>> \in before
    <3>1. PICK i \in 1 .. n : x \in Range(seqs[i])
      BY <2>3
    <3>2. i \in DOMAIN seqs /\ m \in DOMAIN seqs /\ i < m
      BY <1>1, <2>1
    <3> HIDE DEF m
    <3> QED
      BY <3>1, <3>2
  <2> HIDE DEF All, m
  <2>6. Ordered(seqs[m], before)
    BY <1>1, <2>1
  <2>7. Ordered(s[m], before)
    BY <2>2, <2>3, <2>5, <2>6, ConcatOrdered
  <2>8. Range(s[m]) = All(m)
    BY <2>2, <2>3, <2>4, ConcatRange
  <2> QED
    BY <2>1, <2>7, <2>8 DEF m
<1>5. N \in Good
  <2>1. \A n \in 0 .. N : n \in Good
    <3> HIDE DEF Good
    <3> QED
      BY <1>1, <1>3, <1>4, NumbersUpTo
  <2> HIDE DEF Good
  <2> QED
    BY <1>1, <2>1
<1>6. s[N] \in Seq(S)
  BY <1>1, <1>2 DEF Joins
<1> QED
  BY <1>1, <1>2, <1>5, <1>6

\* What is wanted of a sequence is what of it is wanted, in its order.
LEMMA WantedFacts ==
    ASSUME NEW T, NEW seq \in Seq(T), NEW wanted, NEW before, Ordered(seq, before)
    PROVE  /\ Wanted(seq, wanted) \in Seq(T)
           /\ Range(Wanted(seq, wanted)) = Range(seq) \intersect wanted
           /\ Ordered(Wanted(seq, wanted), before)
<1> DEFINE N == Len(seq)
           seqs == [i \in DOMAIN seq |-> IF seq[i] \in wanted THEN <<seq[i]>> ELSE <<>>]
<1>1. N \in Nat /\ DOMAIN seq = 1 .. N /\ \A i \in 1 .. N : seq[i] \in T
  OBVIOUS
<1>2. DOMAIN seqs = 1 .. N
      /\ \A i \in 1 .. N : seqs[i] = IF seq[i] \in wanted THEN <<seq[i]>> ELSE <<>>
  BY <1>1
<1>3. ASSUME NEW i \in 1 .. N
      PROVE  /\ seqs[i] \in Seq(T) /\ Ordered(seqs[i], before)
             /\ Range(seqs[i]) = {seq[i]} \intersect wanted
  <2>1. CASE seq[i] \in wanted
    <3>1. seqs[i] = <<seq[i]>> /\ seq[i] \in T
      BY <1>1, <1>2, <2>1
    <3>2. DOMAIN seqs[i] = {1} /\ seqs[i][1] = seq[i] /\ seqs[i] \in Seq(T)
      <4>1. ASSUME NEW x \in T, NEW one, one = <<x>>
            PROVE  DOMAIN one = {1} /\ one[1] = x /\ one \in Seq(T)
        BY <4>1
      <4> HIDE DEF seqs
      <4> QED
        BY <3>1, <4>1
    <3> HIDE DEF seqs
    <3> QED
      BY <2>1, <3>2 DEF Range, Ordered
  <2>2. CASE seq[i] \notin wanted
    <3>1. seqs[i] = <<>>
      BY <1>2, <2>2
    <3>2. DOMAIN seqs[i] = {} /\ seqs[i] \in Seq(T)
      BY <3>1
    <3> HIDE DEF seqs
    <3> QED
      BY <2>2, <3>2 DEF Range, Ordered
  <2> QED
    BY <2>1, <2>2
<1>4. seqs \in Seq(Seq(T))
  <2>1. seqs = [i \in 1 .. N |-> seqs[i]]
    BY <1>1
  <2> HIDE DEF seqs
  <2>2. seqs \in [1 .. N -> Seq(T)]
    BY <1>3, <2>1
  <2> QED
    BY <1>1, <2>2, FunctionSeq
<1>5. Wanted(seq, wanted) = FlattenSeq(seqs)
  BY DEF Wanted
<1> HIDE DEF seqs
<1>6. ASSUME NEW i \in DOMAIN seqs, NEW j \in DOMAIN seqs, i < j,
             NEW x \in Range(seqs[i]), NEW y \in Range(seqs[j])
      PROVE  <<x, y>> \in before
  <2>1. x = seq[i] /\ y = seq[j] /\ i \in DOMAIN seq /\ j \in DOMAIN seq
    BY <1>1, <1>2, <1>3
  <2> QED
    BY <1>6, <2>1 DEF Ordered
<1>7. /\ FlattenSeq(seqs) \in Seq(T)
      /\ Range(FlattenSeq(seqs)) = UNION {Range(seqs[i]) : i \in DOMAIN seqs}
      /\ Ordered(FlattenSeq(seqs), before)
  <2>1. \A i \in DOMAIN seqs : Ordered(seqs[i], before)
    BY <1>2, <1>3
  <2>2. \A i, j \in DOMAIN seqs : i < j =>
            \A x \in Range(seqs[i]), y \in Range(seqs[j]) : <<x, y>> \in before
    BY <1>6
  <2> QED
    BY <1>4, <2>1, <2>2, FlattenFacts
<1>8. UNION {Range(seqs[i]) : i \in DOMAIN seqs} = Range(seq) \intersect wanted
  <2>1. ASSUME NEW x \in Range(seq) \intersect wanted
        PROVE  \E i \in DOMAIN seqs : x \in Range(seqs[i])
    <3>1. PICK i \in 1 .. N : x = seq[i]
      BY <1>1 DEF Range
    <3> QED
      BY <1>2, <1>3, <3>1
  <2>2. ASSUME NEW i \in DOMAIN seqs, NEW x \in Range(seqs[i])
        PROVE  x \in Range(seq) \intersect wanted
    <3>1. i \in 1 .. N /\ x = seq[i] /\ x \in wanted
      BY <1>2, <1>3
    <3> QED
      BY <1>1, <3>1 DEF Range
  <2> QED
    BY <2>1, <2>2
<1> QED
  BY <1>5, <1>7, <1>8

\* A sequence is one of what is in it.
LEMMA OwnRange ==
    ASSUME NEW S, NEW seq \in Seq(S)
    PROVE  IsList(seq)
<1>1. seq = [k \in 1 .. Len(seq) |-> seq[k]] /\ Len(seq) \in Nat /\ DOMAIN seq = 1 .. Len(seq)
  OBVIOUS
<1>2. \A k \in 1 .. Len(seq) : seq[k] \in Range(seq)
  BY <1>1 DEF Range
<1>3. seq \in [1 .. Len(seq) -> Range(seq)]
  BY <1>1, <1>2
<1> QED
  BY <1>1, <1>3, FunctionSeq DEF IsList

--------------------------------------------------------------------------------
(* Occurrences of candidates, and their groups. *)

\* Where one occurrence stands before another: in an earlier list, or earlier in
\* the same list.
Earlier(a, b) ==
    \/ a[1] < b[1]
    \/ a[1] = b[1] /\ a[2] < b[2]

\* Numbers that rise.
Rising == {p \in Nat \X Nat : p[1] < p[2]}

\* What stands before another stands before what that one stands before.
LEMMA EarlierTransitive ==
    ASSUME NEW a \in Nat \X Nat, NEW b \in Nat \X Nat, NEW c \in Nat \X Nat,
           Earlier(a, b), Earlier(b, c)
    PROVE  Earlier(a, c)
BY DEF Earlier

\* What a list has of occurrences stands in it, in its order.
LEMMA ListInOrder ==
    ASSUME NEW artifacts, NEW i, IsList(artifacts[i].candidates)
    PROVE  LET seq == OccurrencesOf(artifacts, i)
           IN \E good \in Seq(Nat) :
                 /\ Ordered(good, Rising)
                 /\ seq = [k \in DOMAIN good |-> Occurrence(artifacts, i, good[k])]
<1> DEFINE a == artifacts[i]
           scope == NormalScope(a.scope)
           cs == a.candidates
           places == Places(cs)
           accepted == {j \in DOMAIN cs : Accepted(cs[j], scope)}
           good == Wanted(places, accepted)
           made(g) == [k \in DOMAIN g |-> Occurrence(artifacts, i, g[k])]
<1>1. OccurrencesOf(artifacts, i) = <<>> \/ OccurrencesOf(artifacts, i) = made(good)
  BY DEF OccurrencesOf
<1>2. places \in Seq(Nat) /\ Ordered(places, Rising)
  <2>1. DOMAIN cs = 1 .. Len(cs) /\ Len(cs) \in Nat
    BY DEF IsList
  <2> HIDE DEF cs
  <2>2. places = [k \in 1 .. Len(cs) |-> k]
    BY <2>1 DEF Places
  <2> HIDE DEF places
  <2>3. places \in [1 .. Len(cs) -> Nat]
    BY <2>1, <2>2
  <2>4. places \in Seq(Nat) /\ DOMAIN places = 1 .. Len(cs)
    BY <2>1, <2>3, FunctionSeq
  <2>5. Ordered(places, Rising)
    BY <2>1, <2>2, <2>4 DEF Ordered, Rising
  <2> QED
    BY <2>4, <2>5
<1>3. good \in Seq(Nat) /\ Ordered(good, Rising)
  <2> HIDE DEF places, accepted
  <2> QED
    BY <1>2, WantedFacts
<1>4. <<>> \in Seq(Nat) /\ Ordered(<<>>, Rising) /\ made(<<>>) = <<>>
  BY DEF Ordered
<1> HIDE DEF good
<1>5. CASE OccurrencesOf(artifacts, i) = <<>>
  BY <1>4, <1>5
<1>6. CASE OccurrencesOf(artifacts, i) = made(good)
  BY <1>3, <1>6
<1> QED
  BY <1>1, <1>5, <1>6

\* Lists are read one after the other, each from its start.
LEMMA OccurrencesInOrder ==
    ASSUME NEW artifacts, IsList(artifacts),
           \A i \in DOMAIN artifacts : IsList(artifacts[i].candidates)
    PROVE  LET occ == Occurrences(artifacts) IN
           /\ occ \in Seq(Range(occ))
           /\ \A k \in DOMAIN occ : occ[k].at \in Nat \X Nat
           /\ \A k, l \in DOMAIN occ : k < l => Earlier(occ[k].at, occ[l].at)
<1> DEFINE N == Len(artifacts)
           S == {Occurrence(artifacts, i, j) : i \in 1 .. N, j \in Nat}
           before == {p \in S \X S : Earlier(p[1].at, p[2].at)}
           seqs == [i \in DOMAIN artifacts |-> OccurrencesOf(artifacts, i)]
           occ == Occurrences(artifacts)
<1>1. N \in Nat /\ DOMAIN artifacts = 1 .. N
  BY DEF IsList
<1>2. \A i, j : Occurrence(artifacts, i, j).at = <<i, j>>
  BY DEF Occurrence
<1>3. DOMAIN seqs = 1 .. N /\ \A i \in 1 .. N : seqs[i] = OccurrencesOf(artifacts, i)
  BY <1>1
<1>4. occ = FlattenSeq(seqs)
  BY DEF Occurrences
<1>seqs. seqs = [i \in 1 .. N |-> seqs[i]]
  BY <1>1
<1> HIDE DEF seqs, N
<1>5. ASSUME NEW i \in 1 .. N
      PROVE  /\ seqs[i] \in Seq(S) /\ Ordered(seqs[i], before)
             /\ \A x \in Range(seqs[i]) : x \in S /\ x.at \in Nat \X Nat /\ x.at[1] = i
  <2>1. PICK good \in Seq(Nat) :
          /\ Ordered(good, Rising)
          /\ seqs[i] = [k \in DOMAIN good |-> Occurrence(artifacts, i, good[k])]
    <3>1. IsList(artifacts[i].candidates)
      BY <1>1
    <3> QED
      BY <1>3, <3>1, ListInOrder
  <2>2. DOMAIN good = 1 .. Len(good) /\ Len(good) \in Nat /\ \A k \in DOMAIN good : good[k] \in Nat
    OBVIOUS
  <2>3. ASSUME NEW k \in DOMAIN good
        PROVE  seqs[i][k] \in S /\ seqs[i][k].at = <<i, good[k]>> /\ good[k] \in Nat
    <3>1. seqs[i][k] = Occurrence(artifacts, i, good[k]) /\ good[k] \in Nat
      BY <2>1, <2>2
    <3> QED
      BY <1>2, <3>1
  <2>4. DOMAIN seqs[i] = DOMAIN good
    BY <2>1
  <2>5. seqs[i] \in Seq(S)
    <3>1. seqs[i] = [k \in 1 .. Len(good) |-> seqs[i][k]]
      BY <2>1, <2>2
    <3> HIDE DEF S
    <3>2. seqs[i] \in [1 .. Len(good) -> S]
      BY <2>2, <2>3, <3>1
    <3> QED
      BY <2>2, <3>2, FunctionSeq
  <2>6. ASSUME NEW k \in DOMAIN good, NEW l \in DOMAIN good, k < l
        PROVE  <<seqs[i][k], seqs[i][l]>> \in before
    <3>1. <<good[k], good[l]>> \in Rising
      BY <2>1, <2>6 DEF Ordered
    <3>2. good[k] < good[l]
      BY <3>1 DEF Rising
    <3>3. Earlier(seqs[i][k].at, seqs[i][l].at)
      <4>1. \A m, n \in Nat : m < n => Earlier(<<i, m>>, <<i, n>>)
        BY DEF Earlier
      <4> HIDE DEF S, before
      <4> QED
        BY <2>3, <3>2, <4>1
    <3> HIDE DEF S
    <3> QED
      BY <2>3, <3>3
  <2>7. Ordered(seqs[i], before)
    <3> HIDE DEF before
    <3> QED
      BY <2>4, <2>6 DEF Ordered
  <2>8. \A x \in Range(seqs[i]) : x \in S /\ x.at \in Nat \X Nat /\ x.at[1] = i
    <3> SUFFICES ASSUME NEW x \in Range(seqs[i])
                 PROVE  x \in S /\ x.at \in Nat \X Nat /\ x.at[1] = i
      OBVIOUS
    <3>1. PICK k \in DOMAIN good : x = seqs[i][k]
      BY <2>4 DEF Range
    <3>2. i \in Nat /\ \A j \in Nat : <<i, j>> \in Nat \X Nat /\ <<i, j>>[1] = i
      BY <1>1
    <3> HIDE DEF S, before
    <3> QED
      BY <2>3, <3>1, <3>2
  <2> QED
    BY <2>5, <2>7, <2>8
<1>6. ASSUME NEW i \in 1 .. N, NEW j \in 1 .. N, i < j,
             NEW x \in Range(seqs[i]), NEW y \in Range(seqs[j])
      PROVE  <<x, y>> \in before
  <2> HIDE DEF S
  <2>1. x \in S /\ y \in S /\ x.at[1] = i /\ y.at[1] = j
    <3> HIDE DEF before
    <3> QED
      BY <1>5
  <2>2. Earlier(x.at, y.at)
    <3>1. x.at[1] < y.at[1]
      BY <1>6, <2>1
    <3> QED
      BY <3>1 DEF Earlier
  <2> QED
    BY <2>1, <2>2
<1>7. seqs \in Seq(Seq(S))
  <2> HIDE DEF S
  <2>1. seqs \in [1 .. N -> Seq(S)]
    BY <1>5, <1>seqs
  <2> QED
    BY <1>1, <2>1, FunctionSeq
<1>8. /\ occ \in Seq(S) /\ Ordered(occ, before)
      /\ Range(occ) = UNION {Range(seqs[i]) : i \in DOMAIN seqs}
  <2> HIDE DEF S, before, occ
  <2>1. \A i \in DOMAIN seqs : Ordered(seqs[i], before)
    BY <1>3, <1>5
  <2>2. \A i, j \in DOMAIN seqs : i < j =>
            \A x \in Range(seqs[i]), y \in Range(seqs[j]) : <<x, y>> \in before
    BY <1>3, <1>6
  <2> QED
    BY <1>4, <1>7, <2>1, <2>2, FlattenFacts
<1> HIDE DEF occ
<1>9. ASSUME NEW k \in DOMAIN occ PROVE occ[k].at \in Nat \X Nat
  <2>1. occ[k] \in Range(occ)
    BY DEF Range
  <2>2. PICK i \in 1 .. N : occ[k] \in Range(seqs[i])
    BY <1>3, <1>8, <2>1
  <2> HIDE DEF S, before
  <2> QED
    BY <1>5, <2>2
<1>10. ASSUME NEW k \in DOMAIN occ, NEW l \in DOMAIN occ, k < l
       PROVE  Earlier(occ[k].at, occ[l].at)
  <2>1. <<occ[k], occ[l]>> \in before
    <3> HIDE DEF before
    <3> QED
      BY <1>8, <1>10 DEF Ordered
  <2> HIDE DEF S
  <2> QED
    BY <2>1
<1>11. occ \in Seq(Range(occ))
  <2> HIDE DEF S
  <2> QED
    BY <1>8, OwnRange DEF IsList
<1> QED
  BY <1>9, <1>10, <1>11 DEF occ

\* Each two of them share no key.
Apart(R, T) == \A x \in R, y \in T : x.keys \cap y.keys = {}

\* Occurrences no part of which is apart from the rest.
Joined(R) == \A S \in SUBSET R : S # {} /\ S # R => ~Apart(S, R \ S)

\* The first of a group, where it has one.
Leads(x, R) == \A y \in R : x = y \/ Earlier(x.at, y.at)

\* What the groups of the occurrences in D are, while they are made: each is
\* joined, two are apart, the first of a group stands before its others, and
\* the firsts stand as the groups do.
Grouped(groups, S, D) ==
    /\ groups \in Seq(Seq(S))
    /\ UNION {Range(groups[g]) : g \in DOMAIN groups} = D
    /\ \A g \in DOMAIN groups : Joined(Range(groups[g]))
    /\ \A g, h \in DOMAIN groups : g # h => Apart(Range(groups[g]), Range(groups[h]))
    /\ \A g \in DOMAIN groups : groups[g] # <<>> => Leads(groups[g][1], Range(groups[g]))
    /\ \A g, h \in DOMAIN groups :
          g < h /\ groups[g] # <<>> /\ groups[h] # <<>> =>
              Earlier(groups[g][1].at, groups[h][1].at)

\* Of two sets that are apart, each is apart from the other.
LEMMA ApartBothWays ==
    ASSUME NEW R, NEW T, Apart(R, T) PROVE Apart(T, R)
BY DEF Apart

\* A sequence that is not empty has a first, which is in it.
LEMMA FirstOfSeq ==
    ASSUME NEW S, NEW seq \in Seq(S)
    PROVE  /\ Range(seq) \subseteq S
           /\ seq # <<>> => seq[1] \in Range(seq)
           /\ seq = <<>> => Range(seq) = {}
           /\ Range(seq) # {} => seq # <<>>
<1>1. DOMAIN seq = 1 .. Len(seq) /\ Len(seq) \in Nat /\ \A k \in 1 .. Len(seq) : seq[k] \in S
  OBVIOUS
<1>2. seq # <<>> => 1 \in 1 .. Len(seq)
  BY EmptySeq
<1>3. seq = <<>> => DOMAIN seq = {}
  OBVIOUS
<1>4. seq = <<>> => Range(seq) = {}
  BY <1>3 DEF Range
<1> QED
  BY <1>1, <1>2, <1>4 DEF Range

\* One more at its end.
LEMMA AppendRange ==
    ASSUME NEW S, NEW seq \in Seq(S), NEW x \in S
    PROVE  Append(seq, x) \in Seq(S) /\ Range(Append(seq, x)) = Range(seq) \union {x}
<1> DEFINE a == Append(seq, x)
           n == Len(seq)
<1>1. /\ n \in Nat /\ DOMAIN seq = 1 .. n /\ a \in Seq(S) /\ Len(a) = n + 1
      /\ a[n + 1] = x /\ \A k \in 1 .. n : a[k] = seq[k]
  BY AppendProperties
<1>2. DOMAIN a = (1 .. n) \union {n + 1}
  <2>1. DOMAIN a = 1 .. n + 1
    BY <1>1
  <2> QED
    BY <1>1, <2>1
<1> HIDE DEF a, n
<1>3. Range(a) = Range(seq) \union {x}
  <2>1. ASSUME NEW y \in Range(a) PROVE y \in Range(seq) \union {x}
    <3>1. PICK k \in DOMAIN a : y = a[k]
      BY DEF Range
    <3> QED
      BY <1>1, <1>2, <3>1 DEF Range
  <2>2. ASSUME NEW y \in Range(seq) PROVE y \in Range(a)
    <3>1. PICK k \in 1 .. n : y = seq[k]
      BY <1>1 DEF Range
    <3>2. k \in DOMAIN a /\ a[k] = y
      BY <1>1, <1>2, <3>1
    <3> QED
      BY <3>2 DEF Range
  <2>3. x \in Range(a)
    BY <1>1, <1>2 DEF Range
  <2> QED
    BY <2>1, <2>2, <2>3
<1> QED
  BY <1>1, <1>3 DEF a

\* An occurrence without a group gets one at the end.
LEMMA PlaceAlone ==
    ASSUME NEW S, \A x \in S : x.at \in Nat \X Nat,
           NEW D \in SUBSET S, NEW o \in S, NEW groups, Grouped(groups, S, D),
           \A x \in D : Earlier(x.at, o.at),
           Matching(groups, o) = {}
    PROVE  Grouped(Place(groups, o), S, D \union {o})
<1> DEFINE N == Len(groups)
           one == <<o>>
           new == Append(groups, one)
<1>1. Place(groups, o) = new
  BY DEF Place
<1>2. one \in Seq(S) /\ Range(one) = {o} /\ one # <<>> /\ one[1] = o
  <2>1. DOMAIN one = {1} /\ one[1] = o /\ one \in Seq(S) /\ one # <<>>
    OBVIOUS
  <2> HIDE DEF one
  <2> QED
    BY <2>1 DEF Range
<1> HIDE DEF one
<1>3. groups \in Seq(Seq(S)) /\ N \in Nat /\ DOMAIN groups = 1 .. N
      /\ \A g \in 1 .. N : groups[g] \in Seq(S)
  BY DEF Grouped
<1>4. /\ new \in Seq(Seq(S)) /\ DOMAIN new = 1 .. N + 1
      /\ new[N + 1] = one /\ \A g \in 1 .. N : new[g] = groups[g]
  BY <1>2, <1>3, AppendProperties
<1> HIDE DEF new, N
<1>5. UNION {Range(new[g]) : g \in DOMAIN new} = D \union {o}
  <2>1. DOMAIN new = (1 .. N) \union {N + 1}
    BY <1>3, <1>4
  <2>2. UNION {Range(groups[g]) : g \in 1 .. N} = D
    BY <1>3 DEF Grouped
  <2>3. {Range(new[g]) : g \in DOMAIN new} = {Range(groups[g]) : g \in 1 .. N} \union {{o}}
    <3>1. ASSUME NEW g \in DOMAIN new
          PROVE  Range(new[g]) \in {Range(groups[h]) : h \in 1 .. N} \union {{o}}
      BY <1>2, <1>4, <2>1
    <3>2. ASSUME NEW g \in 1 .. N PROVE Range(groups[g]) \in {Range(new[h]) : h \in DOMAIN new}
      BY <1>4, <2>1
    <3>3. {o} \in {Range(new[h]) : h \in DOMAIN new}
      BY <1>2, <1>4, <2>1
    <3> QED
      BY <3>1, <3>2, <3>3
  <2> QED
    BY <2>2, <2>3
<1>6. Joined({o})
  BY DEF Joined
<1>7. ASSUME NEW g \in 1 .. N PROVE Apart(Range(groups[g]), {o}) /\ Apart({o}, Range(groups[g]))
  <2>1. g \notin Matching(groups, o)
    OBVIOUS
  <2> QED
    BY <1>3, <1>7, <2>1 DEF Matching, Apart
<1>8. Leads(o, {o})
  BY DEF Leads
<1>9. ASSUME NEW g \in 1 .. N, groups[g] # <<>> PROVE Earlier(groups[g][1].at, o.at)
  <2>1. groups[g][1] \in Range(groups[g])
    BY <1>3, <1>9, FirstOfSeq
  <2>2. groups[g][1] \in D
    BY <1>3, <2>1 DEF Grouped
  <2> QED
    BY <2>2
<1>10. \A g \in DOMAIN new : g \in 1 .. N \/ g = N + 1
  BY <1>3, <1>4
<1>11. ASSUME NEW g \in DOMAIN new PROVE Joined(Range(new[g]))
  BY <1>2, <1>3, <1>4, <1>6, <1>10 DEF Grouped
<1>12. ASSUME NEW g \in DOMAIN new, NEW h \in DOMAIN new, g # h
       PROVE  Apart(Range(new[g]), Range(new[h]))
  <2>1. CASE g \in 1 .. N /\ h \in 1 .. N
    BY <1>3, <1>4, <1>12, <2>1 DEF Grouped
  <2>2. CASE g \in 1 .. N /\ h = N + 1
    BY <1>2, <1>4, <1>7, <2>2
  <2>3. CASE g = N + 1 /\ h \in 1 .. N
    BY <1>2, <1>4, <1>7, <2>3
  <2> QED
    BY <1>10, <1>12, <2>1, <2>2, <2>3
<1>13. ASSUME NEW g \in DOMAIN new, new[g] # <<>> PROVE Leads(new[g][1], Range(new[g]))
  BY <1>2, <1>3, <1>4, <1>8, <1>10, <1>13 DEF Grouped
<1>14. ASSUME NEW g \in DOMAIN new, NEW h \in DOMAIN new, g < h, new[g] # <<>>, new[h] # <<>>
       PROVE  Earlier(new[g][1].at, new[h][1].at)
  <2>1. g \in 1 .. N
    BY <1>3, <1>4, <1>14
  <2>2. CASE h \in 1 .. N
    BY <1>3, <1>4, <1>14, <2>1, <2>2 DEF Grouped
  <2>3. CASE h = N + 1
    BY <1>2, <1>4, <1>9, <1>14, <2>1, <2>3
  <2> QED
    BY <1>10, <2>2, <2>3
<1>15. Grouped(new, S, D \union {o})
  BY <1>4, <1>5, <1>11, <1>12, <1>13, <1>14 DEF Grouped
<1> QED
  BY <1>1, <1>15

\* Groups that an occurrence joins are joined with it.
LEMMA JoinedByOne ==
    ASSUME NEW M, NEW o,
           \A R \in M : Joined(R) /\ ~Apart(R, {o})
    PROVE  Joined({o} \union UNION M)
<1> DEFINE U == {o} \union UNION M
<1> SUFFICES ASSUME NEW A \in SUBSET U, A # {}, A # U PROVE ~Apart(A, U \ A)
  BY DEF Joined
<1>1. ASSUME NEW R \in M, A \cap R # {}, R \ A # {} PROVE ~Apart(A, U \ A)
  <2>1. ~Apart(A \cap R, R \ (A \cap R))
    BY <1>1 DEF Joined
  <2>2. A \cap R \subseteq A /\ R \ (A \cap R) \subseteq U \ A
    OBVIOUS
  <2> HIDE DEF U
  <2> QED
    BY <2>1, <2>2 DEF Apart
<1>2. CASE o \in A
  <2>1. PICK y \in U \ A : TRUE
    OBVIOUS
  <2>2. PICK R \in M : y \in R
    BY <1>2, <2>1
  <2>3. CASE A \cap R # {}
    BY <1>1, <2>1, <2>2, <2>3
  <2>4. CASE A \cap R = {}
    <3>1. R \subseteq U \ A
      BY <2>4
    <3> HIDE DEF U
    <3>2. ~Apart(R, {o})
      OBVIOUS
    <3> QED
      BY <1>2, <3>1, <3>2 DEF Apart
  <2> QED
    BY <2>3, <2>4
<1>3. CASE o \notin A
  <2>1. PICK y \in A : TRUE
    OBVIOUS
  <2>2. PICK R \in M : y \in R
    BY <1>3, <2>1
  <2>3. CASE R \ A # {}
    BY <1>1, <2>1, <2>2, <2>3
  <2>4. CASE R \ A = {}
    <3>1. R \subseteq A /\ o \in U \ A
      BY <1>3, <2>4
    <3> HIDE DEF U
    <3>2. ~Apart(R, {o})
      OBVIOUS
    <3> QED
      BY <3>1, <3>2 DEF Apart
  <2> QED
    BY <2>3, <2>4
<1> QED
  BY <1>2, <1>3

\* What Place does to groups an occurrence shares a key with: the first of them
\* gets the occurrence and what the others had, the others get empty.
LEMMA PlaceShape ==
    ASSUME NEW S, NEW o \in S, NEW groups \in Seq(Seq(S)),
           Matching(groups, o) # {}
    PROVE  LET matching == Matching(groups, o)
               new == Place(groups, o)
           IN \E first \in matching :
                /\ \A g \in matching : first <= g
                /\ new \in Seq(Seq(S)) /\ DOMAIN new = DOMAIN groups
                /\ new[first] # <<>> /\ new[first][1] = groups[first][1]
                /\ Range(new[first]) = {o} \union UNION {Range(groups[g]) : g \in matching}
                /\ \A g \in matching \ {first} : new[g] = <<>>
                /\ \A g \in DOMAIN groups \ matching : new[g] = groups[g]
<1> DEFINE matching == Matching(groups, o)
           N == Len(groups)
           first == Min(matching)
           others == [g \in DOMAIN groups |->
                         IF g \in matching \ {first} THEN groups[g] ELSE <<>>]
           rest == FlattenSeq(others)
           longer == Append(groups[first], o)
           new == Place(groups, o)
<1>1. N \in Nat /\ DOMAIN groups = 1 .. N /\ \A g \in 1 .. N : groups[g] \in Seq(S)
  OBVIOUS
<1>2. matching \subseteq 1 .. N
  BY <1>1 DEF Matching
<1>3. first \in matching /\ \A g \in matching : first <= g
  <2>1. matching \in SUBSET Nat /\ matching # {}
    BY <1>1, <1>2
  <2> HIDE DEF matching
  <2> QED
    BY <2>1, MinIsLeast
<1>4. new = [g \in DOMAIN groups |->
                IF g = first THEN longer \o rest
                ELSE IF g \in matching THEN <<>>
                ELSE groups[g]]
  BY DEF Place
<1>all. /\ DOMAIN new = 1 .. N
        /\ new[first] = longer \o rest
        /\ \A g \in matching \ {first} : new[g] = <<>>
        /\ \A g \in (1 .. N) \ matching : new[g] = groups[g]
        /\ new = [g \in 1 .. N |-> new[g]]
  <2> HIDE DEF first, matching, rest, longer, new, N
  <2> QED
    BY <1>1, <1>2, <1>3, <1>4
<1>5. \A g \in DOMAIN others :
          others[g] = IF g \in matching \ {first} THEN groups[g] ELSE <<>>
  OBVIOUS
<1>6. others = [g \in 1 .. N |-> others[g]] /\ DOMAIN others = 1 .. N
  BY <1>1
<1> HIDE DEF matching, first, others, new
<1>7. others \in Seq(Seq(S))
  <2>1. ASSUME NEW g \in 1 .. N PROVE others[g] \in Seq(S)
    <3>1. <<>> \in Seq(S) /\ groups[g] \in Seq(S)
      BY <1>1
    <3>2. others[g] = groups[g] \/ others[g] = <<>>
      BY <1>5, <1>6
    <3> QED
      BY <3>1, <3>2
  <2>2. others \in [1 .. N -> Seq(S)]
    BY <1>6, <2>1
  <2> QED
    BY <1>1, <2>2, FunctionSeq
<1>8. rest \in Seq(S) /\ Range(rest) = UNION {Range(others[g]) : g \in DOMAIN others}
  <2> DEFINE any == S \X S
  <2>1. ASSUME NEW seq \in Seq(S) PROVE Ordered(seq, any) /\ Range(seq) \subseteq S
    <3>1. \A k \in DOMAIN seq : seq[k] \in S
      OBVIOUS
    <3> QED
      BY <3>1 DEF Ordered, Range
  <2>2. \A g \in DOMAIN others : others[g] \in Seq(S)
    BY <1>7
  <2>3. \A g \in DOMAIN others : Ordered(others[g], any)
    BY <2>1, <2>2
  <2>4. \A g, h \in DOMAIN others : g < h =>
            \A x \in Range(others[g]), y \in Range(others[h]) : <<x, y>> \in any
    BY <2>1, <2>2
  <2> HIDE DEF any
  <2> QED
    BY <1>7, <2>3, <2>4, FlattenFacts
<1> HIDE DEF rest
<1>9. groups[first] \in Seq(S) /\ groups[first] # <<>>
  <2>1. first \in 1 .. N /\ Range(groups[first]) # {}
    BY <1>2, <1>3 DEF Matching, matching
  <2> QED
    BY <1>1, <2>1, FirstOfSeq
<1>10. longer \in Seq(S) /\ Range(longer) = Range(groups[first]) \union {o}
  BY <1>9, AppendRange
<1>11. Len(longer) >= 1 /\ Len(longer) \in Nat /\ longer[1] = groups[first][1]
  <2>1. Len(groups[first]) \in Nat /\ Len(groups[first]) >= 1
    BY <1>9, EmptySeq
  <2> QED
    BY <1>9, <2>1, AppendProperties
<1> HIDE DEF longer
<1>12. /\ new[first] \in Seq(S) /\ Range(new[first]) = Range(longer) \union Range(rest)
       /\ new[first] # <<>> /\ new[first][1] = groups[first][1]
  <2>1. longer \o rest \in Seq(S) /\ Range(longer \o rest) = Range(longer) \union Range(rest)
    BY <1>8, <1>10, ConcatRange, ConcatProperties
  <2>2. (longer \o rest)[1] = longer[1] /\ Len(longer \o rest) >= 1
    <3>1. Len(longer \o rest) = Len(longer) + Len(rest) /\ Len(rest) \in Nat
          /\ \A k \in 1 .. Len(longer) + Len(rest) :
                (longer \o rest)[k] = IF k <= Len(longer) THEN longer[k] ELSE rest[k - Len(longer)]
      BY <1>8, <1>10, ConcatProperties
    <3> QED
      BY <1>11, <3>1
  <2>3. longer \o rest # <<>>
    BY <2>1, <2>2
  <2> QED
    BY <1>11, <1>all, <2>1, <2>2, <2>3
<1>13. Range(rest) = UNION {Range(groups[g]) : g \in matching \ {first}}
  <2>1. Range(<<>>) = {}
    BY FirstOfSeq, <<>> \in Seq(S)
  <2>2. ASSUME NEW x \in Range(rest) PROVE \E g \in matching \ {first} : x \in Range(groups[g])
    <3>1. PICK g \in DOMAIN others : x \in Range(others[g])
      BY <1>8
    <3> QED
      BY <1>5, <2>1, <3>1
  <2>3. ASSUME NEW g \in matching \ {first} PROVE Range(groups[g]) \subseteq Range(rest)
    <3>1. g \in DOMAIN others /\ others[g] = groups[g]
      BY <1>2, <1>5, <1>6
    <3> QED
      BY <1>8, <3>1
  <2> QED
    BY <2>2, <2>3
<1>14. Range(new[first]) = {o} \union UNION {Range(groups[g]) : g \in matching}
  BY <1>3, <1>10, <1>12, <1>13
<1>15. new \in Seq(Seq(S))
  <2>1. <<>> \in Seq(S)
    OBVIOUS
  <2>2. \A g \in 1 .. N : new[g] \in Seq(S)
    BY <1>1, <1>12, <1>all, <2>1
  <2>3. new \in [1 .. N -> Seq(S)]
    BY <1>all, <2>2
  <2> QED
    BY <1>1, <2>3, FunctionSeq
<1>16. /\ first \in matching /\ (\A g \in matching : first <= g)
       /\ new \in Seq(Seq(S)) /\ DOMAIN new = DOMAIN groups
       /\ new[first] # <<>> /\ new[first][1] = groups[first][1]
       /\ Range(new[first]) = {o} \union UNION {Range(groups[g]) : g \in matching}
       /\ (\A g \in matching \ {first} : new[g] = <<>>)
       /\ (\A g \in DOMAIN groups \ matching : new[g] = groups[g])
  BY <1>1, <1>3, <1>12, <1>14, <1>15, <1>all
<1> QED
  BY <1>16 DEF matching, new

\* An occurrence is put into groups that are what they should be.
LEMMA PlaceJoins ==
    ASSUME NEW S, \A x \in S : x.at \in Nat \X Nat,
           NEW D \in SUBSET S, NEW o \in S, NEW groups, Grouped(groups, S, D),
           \A x \in D : Earlier(x.at, o.at),
           Matching(groups, o) # {}
    PROVE  Grouped(Place(groups, o), S, D \union {o})
<1> DEFINE N == Len(groups)
           matching == Matching(groups, o)
           new == Place(groups, o)
           U == UNION {Range(groups[g]) : g \in matching}
<1>1. groups \in Seq(Seq(S)) /\ N \in Nat /\ DOMAIN groups = 1 .. N
      /\ \A g \in 1 .. N : groups[g] \in Seq(S)
  BY DEF Grouped
<1>2. matching \subseteq 1 .. N
      /\ (\A g \in matching : ~Apart(Range(groups[g]), {o}))
      /\ (\A g \in (1 .. N) \ matching : Apart(Range(groups[g]), {o}))
  BY <1>1 DEF Matching, Apart
<1>3. PICK first \in matching :
        /\ \A g \in matching : first <= g
        /\ new \in Seq(Seq(S)) /\ DOMAIN new = DOMAIN groups
        /\ new[first] # <<>> /\ new[first][1] = groups[first][1]
        /\ Range(new[first]) = {o} \union U
        /\ \A g \in matching \ {first} : new[g] = <<>>
        /\ \A g \in DOMAIN groups \ matching : new[g] = groups[g]
  BY <1>1, PlaceShape
<1> HIDE DEF matching, new, N
<1>4. ASSUME NEW g \in 1 .. N
      PROVE  \/ g = first /\ Range(new[g]) = {o} \union U
             \/ g \in matching \ {first} /\ new[g] = <<>> /\ Range(new[g]) = {}
             \/ g \in (1 .. N) \ matching /\ new[g] = groups[g] /\ Range(new[g]) = Range(groups[g])
  <2>1. Range(<<>>) = {}
    BY FirstOfSeq, <<>> \in Seq(S)
  <2> QED
    BY <1>1, <1>3, <2>1
<1>5. first \in 1 .. N
  BY <1>2, <1>3
<1>6. UNION {Range(groups[g]) : g \in 1 .. N} = D
  BY <1>1 DEF Grouped
<1>7. UNION {Range(new[g]) : g \in DOMAIN new} = D \union {o}
  <2>1. ASSUME NEW g \in 1 .. N, NEW x \in Range(new[g]) PROVE x \in D \union {o}
    BY <1>2, <1>4, <1>6, <2>1
  <2>2. ASSUME NEW g \in 1 .. N, NEW x \in Range(groups[g])
        PROVE  \E h \in 1 .. N : x \in Range(new[h])
    <3>1. CASE g \in matching
      BY <1>4, <1>3, <1>5, <2>2, <3>1
    <3>2. CASE g \notin matching
      BY <1>4, <1>1, <1>3, <2>2, <3>2
    <3> QED
      BY <3>1, <3>2
  <2>3. \E h \in 1 .. N : o \in Range(new[h])
    BY <1>3, <1>5
  <2>4. DOMAIN new = 1 .. N
    BY <1>1, <1>3
  <2>5. ASSUME NEW x \in D PROVE \E h \in 1 .. N : x \in Range(new[h])
    <3>1. PICK g \in 1 .. N : x \in Range(groups[g])
      BY <1>6
    <3> QED
      BY <2>2, <3>1
  <2> QED
    BY <2>1, <2>3, <2>4, <2>5
<1>8. Joined({o} \union U)
  <2> DEFINE M == {Range(groups[g]) : g \in matching}
  <2>1. \A R \in M : Joined(R) /\ ~Apart(R, {o})
    BY <1>1, <1>2 DEF Grouped
  <2>2. U = UNION M
    OBVIOUS
  <2> HIDE DEF M, U
  <2> QED
    BY <2>1, <2>2, JoinedByOne
<1>9. ASSUME NEW g \in 1 .. N PROVE Joined(Range(new[g]))
  <2>1. Joined({})
    BY DEF Joined
  <2> HIDE DEF U
  <2> QED
    BY <1>1, <1>4, <1>8, <2>1 DEF Grouped
<1>10. ASSUME NEW g \in (1 .. N) \ matching
       PROVE  Apart({o} \union U, Range(groups[g])) /\ Apart(Range(groups[g]), {o} \union U)
  <2>1. Apart({o}, Range(groups[g]))
    BY <1>2, ApartBothWays
  <2>2. ASSUME NEW h \in matching PROVE Apart(Range(groups[h]), Range(groups[g]))
    BY <1>1, <1>2 DEF Grouped
  <2>3. Apart({o} \union U, Range(groups[g]))
    BY <2>1, <2>2 DEF Apart
  <2> HIDE DEF U
  <2> QED
    BY <2>3, ApartBothWays
<1>11. ASSUME NEW g \in 1 .. N, NEW h \in 1 .. N, g # h
       PROVE  Apart(Range(new[g]), Range(new[h]))
  <2>1. \A R : Apart({}, R) /\ Apart(R, {})
    BY DEF Apart
  <2>2. g \notin matching /\ h \notin matching => Apart(Range(groups[g]), Range(groups[h]))
    BY <1>1, <1>11 DEF Grouped
  <2> HIDE DEF U
  <2> QED
    BY <1>4, <1>10, <1>11, <2>1, <2>2
<1>12. ASSUME NEW g \in 1 .. N, new[g] # <<>>
       PROVE  groups[g] # <<>> /\ new[g][1] = groups[g][1]
  <2>1. groups[first] # <<>>
    <3>1. Range(groups[first]) # {}
      BY <1>2, <1>3 DEF Apart
    <3> QED
      BY <1>1, <1>5, <3>1, FirstOfSeq
  <2> HIDE DEF U
  <2> QED
    BY <1>3, <1>4, <1>12, <2>1
<1>13. ASSUME NEW g \in 1 .. N, NEW h \in 1 .. N, g < h, new[g] # <<>>, new[h] # <<>>
       PROVE  Earlier(new[g][1].at, new[h][1].at)
  BY <1>1, <1>12, <1>13 DEF Grouped
<1>14. Leads(groups[first][1], {o} \union U)
  <2> DEFINE f == groups[first][1]
  <2>1. groups[first] # <<>> /\ f \in Range(groups[first])
    BY <1>1, <1>3, <1>5, <1>12, FirstOfSeq
  <2>2. f \in D /\ f.at \in Nat \X Nat
    BY <1>5, <1>6, <2>1
  <2>3. Earlier(f.at, o.at)
    BY <2>2
  <2>4. ASSUME NEW g \in matching, NEW y \in Range(groups[g]) PROVE f = y \/ Earlier(f.at, y.at)
    <3>1. g \in 1 .. N /\ groups[g] # <<>>
      BY <1>1, <1>2, <2>4, FirstOfSeq
    <3>2. groups[g][1] = y \/ Earlier(groups[g][1].at, y.at)
      BY <1>1, <2>4, <3>1 DEF Grouped, Leads
    <3>3. CASE g = first
      BY <3>2, <3>3
    <3>4. CASE g # first
      <4>1. first < g
        BY <1>2, <1>3, <1>5, <3>1, <3>4
      <4>2. Earlier(f.at, groups[g][1].at)
        BY <1>1, <1>5, <2>1, <3>1, <4>1 DEF Grouped
      <4>3. groups[g][1] \in D /\ y \in D
        BY <1>1, <1>6, <2>4, <3>1, FirstOfSeq
      <4>4. groups[g][1].at \in Nat \X Nat /\ y.at \in Nat \X Nat
        BY <4>3
      <4> HIDE DEF f, U
      <4>5. CASE groups[g][1] = y
        BY <4>2, <4>5
      <4>6. CASE Earlier(groups[g][1].at, y.at)
        BY <2>2, <4>2, <4>4, <4>6, EarlierTransitive
      <4> QED
        BY <3>2, <4>5, <4>6
    <3> QED
      BY <3>3, <3>4
  <2> QED
    BY <2>3, <2>4 DEF Leads
<1>15. ASSUME NEW g \in 1 .. N, new[g] # <<>> PROVE Leads(new[g][1], Range(new[g]))
  <2>1. g \in (1 .. N) \ matching => Leads(groups[g][1], Range(groups[g]))
    BY <1>1, <1>12, <1>15 DEF Grouped
  <2> HIDE DEF U
  <2> QED
    BY <1>3, <1>4, <1>14, <1>15, <2>1
<1>16. DOMAIN new = 1 .. N /\ new \in Seq(Seq(S))
  BY <1>1, <1>3
<1>17. Grouped(new, S, D \union {o})
  <2> HIDE DEF U
  <2> QED
    BY <1>7, <1>9, <1>11, <1>13, <1>15, <1>16 DEF Grouped
<1> QED
  BY <1>17 DEF new

\* What a group of the occurrences is: joined, apart from all others, led by the
\* one that stands first.
IsGroup(group, all) ==
    /\ group # <<>> /\ Range(group) \subseteq all
    /\ Joined(Range(group)) /\ Apart(Range(group), all \ Range(group))
    /\ Leads(group[1], Range(group))

\* The groups of occurrences in their order are groups of them all.
LEMMA GroupsFacts ==
    ASSUME NEW S, \A x \in S : x.at \in Nat \X Nat,
           NEW occ \in Seq(S),
           \A k, l \in DOMAIN occ : k < l => Earlier(occ[k].at, occ[l].at)
    PROVE  /\ Groups(occ) \in Seq(Seq(S))
           /\ \A group \in Range(Groups(occ)) : IsGroup(group, Range(occ))
<1> DEFINE N == Len(occ)
           GG == Seq(Seq(S))
           step == [p \in Nat \X GG |->
                       IF p[1] \in 1 .. N THEN Place(p[2], occ[p[1]]) ELSE p[2]]
           Placing(f) == f = [n \in 0 .. N |-> IF n = 0 THEN <<>> ELSE Place(f[n - 1], occ[n])]
           First(n) == {occ[k] : k \in 1 .. n}
<1>1. N \in Nat /\ DOMAIN occ = 1 .. N /\ \A n \in 1 .. N : occ[n] \in S
  OBVIOUS
<1>2. ASSUME NEW groups \in GG, NEW o \in S PROVE Place(groups, o) \in GG
  <2>1. CASE Matching(groups, o) = {}
    <3>1. <<o>> \in Seq(S)
      OBVIOUS
    <3>2. Place(groups, o) = Append(groups, <<o>>)
      BY <2>1 DEF Place
    <3> QED
      BY <3>1, <3>2, AppendProperties
  <2>2. CASE Matching(groups, o) # {}
    BY <2>2, PlaceShape
  <2> QED
    BY <2>1, <2>2
<1>3. <<>> \in GG
  OBVIOUS
<1> HIDE DEF N, GG
<1>4. step \in [Nat \X GG -> GG]
  <2>1. ASSUME NEW p \in Nat \X GG
        PROVE  (IF p[1] \in 1 .. N THEN Place(p[2], occ[p[1]]) ELSE p[2]) \in GG
    <3>1. p[2] \in GG /\ (p[1] \in 1 .. N => occ[p[1]] \in S)
      BY <1>1
    <3> QED
      BY <1>2, <3>1
  <2> QED
    BY <2>1
<1>5. ASSUME NEW n \in 1 .. N, NEW x \in GG PROVE step[<<n, x>>] = Place(x, occ[n])
  BY <1>1
<1> HIDE DEF step
<1>6. PICK s : Unrolls(s, N, GG, <<>>, step)
  BY <1>1, <1>3, <1>4, Recursion
<1>7. ASSUME NEW n \in 1 .. N PROVE s[n] = Place(s[n - 1], occ[n])
  <2>1. n \in Nat /\ n - 1 \in 0 .. N
    BY <1>1
  <2>2. s[n - 1] \in GG /\ s[n] = step[<<n, s[n - 1]>>]
    BY <1>6, <2>1 DEF Unrolls
  <2> QED
    BY <1>5, <2>1, <2>2
<1>8. Placing(s)
  BY <1>1, <1>6, <1>7 DEF Unrolls
<1> DEFINE chosen == CHOOSE f : Placing(f)
<1>9. Placing(chosen)
  <2> HIDE DEF Placing
  <2> QED
    BY <1>8
<1>10. Groups(occ) = Wanted(chosen[N], Range(chosen[N]) \ {<<>>})
  BY DEF Groups, N
<1>11. chosen[N] = s[N]
  <2> DEFINE Same == {n \in 0 .. N : chosen[n] = s[n]}
  <2> HIDE DEF chosen
  <2>1. chosen = [n \in 0 .. N |-> IF n = 0 THEN <<>> ELSE Place(chosen[n - 1], occ[n])]
    BY <1>9
  <2>2. 0 \in Same
    BY <1>1, <1>6, <2>1 DEF Unrolls
  <2>3. ASSUME NEW n \in 0 .. N - 1, n \in Same PROVE n + 1 \in Same
    <3>1. n + 1 \in 1 .. N /\ (n + 1) - 1 = n /\ n + 1 \in 0 .. N /\ n + 1 # 0
      BY <1>1
    <3>2. chosen[n + 1] = Place(chosen[n], occ[n + 1])
      BY <2>1, <3>1
    <3>3. s[n + 1] = Place(s[n], occ[n + 1])
      BY <1>7, <3>1
    <3> QED
      BY <2>3, <3>1, <3>2, <3>3
  <2>4. \A n \in 0 .. N : n \in Same
    <3> HIDE DEF Same
    <3> QED
      BY <1>1, <2>2, <2>3, NumbersUpTo
  <2> QED
    BY <1>1, <2>4
<1> HIDE DEF chosen
<1>12. Grouped(s[N], S, First(N))
  <2> DEFINE Good == {n \in 0 .. N : Grouped(s[n], S, First(n))}
  <2>1. 0 \in Good
    <3>1. s[0] = <<>> /\ First(0) = {} /\ 0 \in 0 .. N
      BY <1>1, <1>6 DEF Unrolls
    <3>2. Grouped(<<>>, S, {})
      <4>1. <<>> \in Seq(Seq(S)) /\ DOMAIN <<>> = {}
        OBVIOUS
      <4> QED
        BY <4>1 DEF Grouped
    <3> QED
      BY <3>1, <3>2
  <2>2. ASSUME NEW n \in 0 .. N - 1, n \in Good PROVE n + 1 \in Good
    <3> DEFINE m == n + 1
    <3>1. m \in 1 .. N /\ m - 1 = n /\ m \in 0 .. N /\ n \in Nat
      BY <1>1
    <3>2. s[m] = Place(s[n], occ[m])
      <4> HIDE DEF m
      <4> QED
        BY <1>7, <3>1
    <3>3. First(m) = First(n) \union {occ[m]}
      <4>1. 1 .. m = (1 .. n) \union {m}
        BY <3>1
      <4> HIDE DEF m
      <4> QED
        BY <4>1
    <3>4. First(n) \in SUBSET S /\ occ[m] \in S
      <4>1. \A k \in 1 .. n : k \in 1 .. N
        BY <1>1, <3>1
      <4> HIDE DEF m
      <4> QED
        BY <1>1, <3>1, <4>1
    <3>5. ASSUME NEW x \in First(n) PROVE Earlier(x.at, occ[m].at)
      <4>1. PICK k \in 1 .. n : x = occ[k]
        OBVIOUS
      <4>2. k \in DOMAIN occ /\ m \in DOMAIN occ /\ k < m
        BY <1>1, <3>1
      <4> HIDE DEF m, First
      <4> QED
        BY <4>1, <4>2
    <3>6. Grouped(s[n], S, First(n))
      BY <2>2
    <3> DEFINE groups == s[n]
               o == occ[m]
               D == First(n)
    <3>7. /\ D \in SUBSET S /\ o \in S /\ Grouped(groups, S, D)
          /\ \A x \in D : Earlier(x.at, o.at)
      BY <3>4, <3>5, <3>6
    <3> HIDE DEF groups, o, D
    <3>8. Grouped(Place(groups, o), S, D \union {o})
      <4>1. CASE Matching(groups, o) = {}
        BY <3>7, <4>1, PlaceAlone
      <4>2. CASE Matching(groups, o) # {}
        BY <3>7, <4>2, PlaceJoins
      <4> QED
        BY <4>1, <4>2
    <3>9. Grouped(s[m], S, First(m))
      <4> HIDE DEF m, First
      <4> QED
        BY <3>2, <3>3, <3>8 DEF groups, o, D
    <3> HIDE DEF First
    <3> QED
      BY <3>1, <3>9
  <2> HIDE DEF Good
  <2>3. \A n \in 0 .. N : n \in Good
    BY <1>1, <2>1, <2>2, NumbersUpTo
  <2>4. N \in Good
    BY <1>1, <2>3
  <2> QED
    BY <2>4 DEF Good
<1>13. First(N) = Range(occ)
  BY <1>1 DEF Range
<1> HIDE DEF First
<1> DEFINE placed == s[N]
<1>14. Grouped(placed, S, Range(occ)) /\ placed \in Seq(Seq(S))
  BY <1>12, <1>13 DEF Grouped
<1> HIDE DEF placed
<1>15. /\ Groups(occ) \in Seq(Seq(S))
       /\ Range(Groups(occ)) = Range(placed) \intersect (Range(placed) \ {<<>>})
  <2> DEFINE T == Seq(S)
             any == T \X T
             some == Range(placed) \ {<<>>}
  <2>1. placed \in Seq(T) /\ Ordered(placed, any)
    BY <1>14 DEF Ordered
  <2>2. Groups(occ) = Wanted(placed, some)
    BY <1>10, <1>11 DEF placed
  <2>3. /\ Wanted(placed, some) \in Seq(T)
        /\ Range(Wanted(placed, some)) = Range(placed) \intersect some
    <3> HIDE DEF T, any, some
    <3> QED
      BY <2>1, WantedFacts
  <2> QED
    BY <2>2, <2>3
<1>16. ASSUME NEW group \in Range(Groups(occ)) PROVE IsGroup(group, Range(occ))
  <2>1. PICK g \in DOMAIN placed : group = placed[g] /\ group # <<>>
    BY <1>15 DEF Range
  <2>2. Range(group) \subseteq Range(occ) /\ Joined(Range(group)) /\ Leads(group[1], Range(group))
    BY <1>14, <2>1 DEF Grouped
  <2>3. ASSUME NEW y \in Range(occ) \ Range(group), NEW x \in Range(group)
        PROVE  x.keys \cap y.keys = {}
    <3>1. PICK h \in DOMAIN placed : y \in Range(placed[h])
      BY <1>14 DEF Grouped
    <3>2. h # g
      BY <2>1, <2>3, <3>1
    <3> QED
      BY <1>14, <2>1, <2>3, <3>1, <3>2 DEF Grouped, Apart
  <2> QED
    BY <2>1, <2>2, <2>3 DEF IsGroup, Apart
<1> QED
  BY <1>15, <1>16

\* What a merge of lists should show: as one candidate what no set of
\* occurrences separates, led by the one that stands first.
ShownByIdentity(shown, lists) ==
    LET occurrences == Range(Occurrences(lists))
        connected(o, p) ==
            \A S \in SUBSET occurrences : o \in S /\ p \notin S =>
                \E x \in S, y \in occurrences \ S : x.keys \cap y.keys # {}
        together(o, p) ==
            \E m \in Range(shown) : {o.at, p.at} \subseteq Range(m.lineage)
        listed == UNION {Range(m.lineage) : m \in Range(shown)}
    IN /\ \A o, p \in occurrences : o.at \in listed =>
             (together(o, p) <=> connected(o, p))
       /\ \A m \in Range(shown) : \A at \in Range(m.lineage) :
             \/ m.lineage[1][1] < at[1]
             \/ m.lineage[1][1] = at[1] /\ m.lineage[1][2] <= at[2]

\* The lineage of what is shown of a group is where its members stand.
LEMMA LineageOfGroup ==
    ASSUME NEW S, NEW group \in Seq(S), group # <<>>
    PROVE  /\ Range(Merged(group).lineage) = {x.at : x \in Range(group)}
           /\ Merged(group).lineage[1] = group[1].at
<1> DEFINE lineage == [k \in DOMAIN group |-> group[k].at]
<1>1. Merged(group).lineage = lineage
  BY DEF Merged
<1>2. 1 \in DOMAIN group
  BY EmptySeq
<1>3. DOMAIN lineage = DOMAIN group /\ \A k \in DOMAIN group : lineage[k] = group[k].at
  OBVIOUS
<1> HIDE DEF lineage
<1>4. Range(lineage) = {x.at : x \in Range(group)}
  BY <1>3 DEF Range
<1> QED
  BY <1>1, <1>2, <1>3, <1>4

\* Occurrences that stand at one place are one.
LEMMA OneAtAPlace ==
    ASSUME NEW S, \A x \in S : x.at \in Nat \X Nat, NEW occ \in Seq(S),
           \A k, l \in DOMAIN occ : k < l => Earlier(occ[k].at, occ[l].at)
    PROVE  \A x, y \in Range(occ) : x.at = y.at => x = y
<1> SUFFICES ASSUME NEW x \in Range(occ), NEW y \in Range(occ), x.at = y.at PROVE x = y
  OBVIOUS
<1>1. PICK k \in DOMAIN occ, l \in DOMAIN occ : x = occ[k] /\ y = occ[l]
  BY DEF Range
<1>2. k \in Nat /\ l \in Nat /\ x \in S
  BY <1>1
<1>3. ~Earlier(x.at, x.at)
  <2>1. x.at \in Nat \X Nat
    BY <1>2
  <2> QED
    BY <2>1 DEF Earlier
<1>4. ~(k < l) /\ ~(l < k)
  BY <1>1, <1>3
<1> QED
  BY <1>1, <1>2, <1>4

\* What shows groups of all occurrences, each by its first, shows them by
\* identity.
LEMMA GroupsShowIdentity ==
    ASSUME NEW S, \A x \in S : x.at \in Nat \X Nat,
           NEW lists, Occurrences(lists) \in Seq(S),
           \A k, l \in DOMAIN Occurrences(lists) :
               k < l => Earlier(Occurrences(lists)[k].at, Occurrences(lists)[l].at),
           NEW shown,
           \A m \in Range(shown) : \E group \in Seq(S) :
               m = Merged(group) /\ IsGroup(group, Range(Occurrences(lists)))
    PROVE  ShownByIdentity(shown, lists)
<1> DEFINE all == Range(Occurrences(lists))
           connected(o, p) ==
               \A A \in SUBSET all : o \in A /\ p \notin A =>
                   \E x \in A, y \in all \ A : x.keys \cap y.keys # {}
           together(o, p) ==
               \E m \in Range(shown) : {o.at, p.at} \subseteq Range(m.lineage)
           listed == UNION {Range(m.lineage) : m \in Range(shown)}
<1>1. all \subseteq S /\ \A x, y \in all : x.at = y.at => x = y
  <2> DEFINE occ == Occurrences(lists)
  <2>1. occ \in Seq(S) /\ \A k, l \in DOMAIN occ : k < l => Earlier(occ[k].at, occ[l].at)
    OBVIOUS
  <2> HIDE DEF occ
  <2>2. Range(occ) \subseteq S
    BY <2>1, FirstOfSeq
  <2>3. \A x, y \in Range(occ) : x.at = y.at => x = y
    BY <2>1, OneAtAPlace
  <2> QED
    BY <2>2, <2>3 DEF occ
<1>2. \A m \in Range(shown) : \E group \in Seq(S) : m = Merged(group) /\ IsGroup(group, all)
  OBVIOUS
<1> HIDE DEF all
<1>3. ASSUME NEW group \in Seq(S), IsGroup(group, all)
      PROVE  /\ \A o \in all : o.at \in Range(Merged(group).lineage) <=> o \in Range(group)
             /\ \A at \in Range(Merged(group).lineage) :
                   \/ Merged(group).lineage[1][1] < at[1]
                   \/ /\ Merged(group).lineage[1][1] = at[1]
                      /\ Merged(group).lineage[1][2] <= at[2]
  <2> DEFINE lineage == Merged(group).lineage
  <2>1. Range(lineage) = {x.at : x \in Range(group)} /\ lineage[1] = group[1].at
    BY <1>3, LineageOfGroup DEF IsGroup
  <2> HIDE DEF lineage
  <2>2. ASSUME NEW o \in all PROVE o.at \in Range(lineage) <=> o \in Range(group)
    BY <1>1, <1>3, <2>1 DEF IsGroup
  <2>3. ASSUME NEW at \in Range(lineage)
        PROVE  \/ lineage[1][1] < at[1]
               \/ lineage[1][1] = at[1] /\ lineage[1][2] <= at[2]
    <3>1. PICK x \in Range(group) : at = x.at
      BY <2>1
    <3>2. x = group[1] \/ Earlier(group[1].at, x.at)
      BY <1>3 DEF IsGroup, Leads
    <3>3. x.at \in Nat \X Nat /\ group[1].at \in Nat \X Nat
      BY <1>3, FirstOfSeq DEF IsGroup
    <3>4. at \in Nat \X Nat /\ at[1] \in Nat /\ at[2] \in Nat
      BY <3>1, <3>3
    <3>5. CASE x = group[1]
      BY <2>1, <3>1, <3>4, <3>5
    <3>6. CASE Earlier(group[1].at, x.at)
      BY <2>1, <3>1, <3>3, <3>4, <3>6 DEF Earlier
    <3> QED
      BY <3>2, <3>5, <3>6
  <2> QED
    BY <2>2, <2>3 DEF lineage
<1>4. ASSUME NEW o \in all, NEW p \in all, together(o, p) PROVE connected(o, p)
  <2>1. PICK m \in Range(shown) : {o.at, p.at} \subseteq Range(m.lineage)
    BY <1>4
  <2>2. PICK group \in Seq(S) : m = Merged(group) /\ IsGroup(group, all)
    BY <1>2
  <2>3. o \in Range(group) /\ p \in Range(group)
    BY <1>3, <2>1, <2>2
  <2> SUFFICES ASSUME NEW A \in SUBSET all, o \in A, p \notin A
               PROVE  \E x \in A, y \in all \ A : x.keys \cap y.keys # {}
    OBVIOUS
  <2> DEFINE B == A \cap Range(group)
  <2>4. B \in SUBSET Range(group) /\ B # {} /\ B # Range(group)
    BY <2>3
  <2>5. ~Apart(B, Range(group) \ B)
    BY <2>2, <2>4 DEF IsGroup, Joined
  <2>6. Range(group) \subseteq all
    BY <2>2 DEF IsGroup
  <2> QED
    BY <2>5, <2>6 DEF Apart
<1>5. ASSUME NEW o \in all, NEW p \in all, o.at \in listed, connected(o, p) PROVE together(o, p)
  <2>1. PICK m \in Range(shown) : o.at \in Range(m.lineage)
    BY <1>5
  <2>2. PICK group \in Seq(S) : m = Merged(group) /\ IsGroup(group, all)
    BY <1>2
  <2>3. o \in Range(group) /\ Range(group) \in SUBSET all /\ Apart(Range(group), all \ Range(group))
    BY <1>3, <2>1, <2>2 DEF IsGroup
  <2>4. p \in Range(group)
    BY <1>5, <2>3 DEF Apart
  <2>5. p.at \in Range(m.lineage)
    BY <1>3, <2>2, <2>4
  <2> QED
    BY <2>1, <2>5
<1>6. ASSUME NEW m \in Range(shown), NEW at \in Range(m.lineage)
      PROVE  \/ m.lineage[1][1] < at[1]
             \/ m.lineage[1][1] = at[1] /\ m.lineage[1][2] <= at[2]
  <2>1. PICK group \in Seq(S) : m = Merged(group) /\ IsGroup(group, all)
    BY <1>2
  <2> QED
    BY <1>3, <1>6, <2>1
<1>7. \A o, p \in all : o.at \in listed => (together(o, p) <=> connected(o, p))
  <2> HIDE DEF listed, together, connected
  <2> QED
    BY <1>4, <1>5
<1> QED
  BY <1>6, <1>7 DEF ShownByIdentity, all

\* A merge shows no more than it may, and shows it by identity.
LEMMA MergeShows ==
    ASSUME NEW lists, IsList(lists), \A i \in DOMAIN lists : IsList(lists[i].candidates),
           NEW limit \in Nat, NEW receiptLimit, NEW contract
    PROVE  LET shown == Merge(lists, limit, receiptLimit, contract).list.candidates IN
           /\ IsList(shown) /\ Len(shown) <= limit
           /\ ShownByIdentity(shown, lists)
<1> DEFINE occ == Occurrences(lists)
           S == Range(occ)
           groups == Groups(occ)
           least == Min({Len(groups), limit})
           some == SubSeq(groups, 1, least)
           shown == [g \in DOMAIN some |-> Merged(some[g])]
<1>1. Merge(lists, limit, receiptLimit, contract).list.candidates = shown
  BY DEF Merge, MergedArtifact
<1>2. /\ occ \in Seq(S) /\ \A x \in S : x.at \in Nat \X Nat
      /\ \A k, l \in DOMAIN occ : k < l => Earlier(occ[k].at, occ[l].at)
  <2>1. /\ occ \in Seq(S) /\ \A k \in DOMAIN occ : occ[k].at \in Nat \X Nat
        /\ \A k, l \in DOMAIN occ : k < l => Earlier(occ[k].at, occ[l].at)
    BY OccurrencesInOrder
  <2> HIDE DEF occ
  <2>2. \A x \in S : x.at \in Nat \X Nat
    BY <2>1 DEF Range
  <2> QED
    BY <2>1, <2>2
<1>3. groups \in Seq(Seq(S)) /\ \A group \in Range(groups) : IsGroup(group, S)
  <2> HIDE DEF S, occ
  <2>1. /\ Groups(occ) \in Seq(Seq(S))
        /\ \A group \in Range(Groups(occ)) : IsGroup(group, Range(occ))
    BY <1>2, GroupsFacts
  <2> QED
    BY <2>1 DEF S
<1>4. Len(groups) \in Nat /\ least \in Nat /\ least <= limit /\ least <= Len(groups)
  <2> HIDE DEF groups
  <2>1. Len(groups) \in Nat
    BY <1>3
  <2>2. {Len(groups), limit} \in SUBSET Nat /\ {Len(groups), limit} # {}
    BY <2>1
  <2>3. least \in {Len(groups), limit} /\ \A y \in {Len(groups), limit} : least <= y
    BY <2>2, MinIsLeast
  <2> QED
    BY <2>1, <2>2, <2>3
<1> HIDE DEF least, groups
<1>5. /\ some \in Seq(Seq(S)) /\ Len(some) = least /\ DOMAIN some = 1 .. least
      /\ \A g \in 1 .. least : some[g] \in Range(groups) /\ some[g] \in Seq(S)
  <2>1. DOMAIN groups = 1 .. Len(groups) /\ \A g \in 1 .. Len(groups) : groups[g] \in Seq(S)
    BY <1>3
  <2>2. \A g \in 1 .. least :
            g \in 1 .. Len(groups) /\ groups[g] \in Seq(S) /\ groups[g] \in Range(groups)
    BY <1>4, <2>1 DEF Range
  <2> HIDE DEF S
  <2>3. /\ some \in Seq(Seq(S)) /\ Len(some) = IF 1 <= least THEN least - 1 + 1 ELSE 0
        /\ \A g \in 1 .. least - 1 + 1 : some[g] = groups[1 + g - 1]
    <3>1. \A g \in 1 .. least : groups[g] \in Seq(S)
      BY <2>2
    <3> QED
      BY <1>4, <3>1, SubSeqProperties
  <2>4. Len(some) = least
    BY <1>4, <2>3
  <2>5. \A g \in 1 .. least : some[g] = groups[g]
    BY <1>4, <2>3
  <2> HIDE DEF some
  <2>6. DOMAIN some = 1 .. least
    BY <2>3, <2>4
  <2>7. \A g \in 1 .. least : some[g] \in Range(groups) /\ some[g] \in Seq(S)
    BY <2>2, <2>5
  <2> QED
    BY <2>3, <2>4, <2>6, <2>7
<1> HIDE DEF some
<1>6. shown \in Seq({Merged(group) : group \in Seq(S)}) /\ Len(shown) = least
  <2> DEFINE M == {Merged(group) : group \in Seq(S)}
  <2>1. \A g \in 1 .. least : Merged(some[g]) \in M
    BY <1>5
  <2> HIDE DEF M
  <2>2. shown \in [1 .. least -> M]
    BY <1>5, <2>1
  <2> HIDE DEF shown
  <2> QED
    BY <1>4, <2>2, FunctionSeq DEF M
<1>7. \A m \in Range(shown) : \E group \in Seq(S) : m = Merged(group) /\ IsGroup(group, S)
  <2> SUFFICES ASSUME NEW m \in Range(shown)
               PROVE  \E group \in Seq(S) : m = Merged(group) /\ IsGroup(group, S)
    OBVIOUS
  <2>1. PICK g \in 1 .. least : m = Merged(some[g])
    BY <1>5 DEF Range
  <2> HIDE DEF S
  <2> QED
    BY <1>3, <1>5, <2>1
<1> HIDE DEF shown
<1>8. IsList(shown)
  BY <1>6, OwnRange
<1>9. ShownByIdentity(shown, lists)
  BY <1>2, <1>7, GroupsShowIdentity
<1> QED
  BY <1>1, <1>4, <1>6, <1>8, <1>9

--------------------------------------------------------------------------------
(* The lists of a request. *)

\* A function on 1 .. n is a list of length n.
LEMMA FunctionIsList ==
    ASSUME NEW n \in Nat, NEW f, f = [k \in 1 .. n |-> f[k]]
    PROVE  IsList(f) /\ Len(f) = n
<1> DEFINE S == {f[k] : k \in 1 .. n}
<1>1. \A k \in 1 .. n : f[k] \in S
  OBVIOUS
<1> HIDE DEF S
<1>2. f \in [1 .. n -> S]
  BY <1>1
<1>3. f \in Seq(S) /\ Len(f) = n
  BY <1>2, FunctionSeq
<1> QED
  BY <1>3, OwnRange

\* The places of a list are numbered from one.
LEMMA ListPlaces ==
    ASSUME NEW x, IsList(x)
    PROVE  Len(x) \in Nat /\ DOMAIN x = 1 .. Len(x)
BY DEF IsList

\* What is wanted of a list is a list.
LEMMA WantedIsList ==
    ASSUME NEW x, IsList(x), NEW wanted
    PROVE  IsList(Wanted(x, wanted))
<1> DEFINE T == Range(x)
           any == T \X T
<1>1. x \in Seq(T)
  BY DEF IsList
<1>2. Ordered(x, any)
  BY DEF Ordered, Range
<1> HIDE DEF T, any
<1>3. Wanted(x, wanted) \in Seq(T)
  BY <1>1, <1>2, WantedFacts
<1> QED
  BY <1>3, OwnRange

\* Nothing is a list.
LEMMA EmptyIsList == IsList(<<>>) /\ Len(<<>>) = 0
<1>1. <<>> \in Seq({}) /\ Len(<<>>) = 0
  OBVIOUS
<1> QED
  BY <1>1, OwnRange

\* The candidates of a set of results are a list where its results are one.
LEMMA CandidatesAreList ==
    ASSUME NEW set, set = <<>> \/ IsList(set[1].results), NEW origin, NEW state
    PROVE  IsList(WebCandidates(set, origin, state))
<1> DEFINE named == NormalizeDiscovery(set)
           web == WebCandidates(set, origin, state)
<1>1. IsList(named)
  <2>1. CASE set = <<>> \/ ~DiscoverySetValid(set[1])
    BY <2>1, EmptyIsList DEF NormalizeDiscovery
  <2>2. CASE ~(set = <<>> \/ ~DiscoverySetValid(set[1]))
    <3> DEFINE good == {x \in Range(set[1].results) : x.named /\ x.id # 0 /\ x.sourced /\ x.cited}
    <3>1. named = Wanted(set[1].results, good)
      BY <2>2 DEF NormalizeDiscovery
    <3> HIDE DEF good
    <3>2. IsList(set[1].results)
      BY <2>2
    <3> QED
      BY <3>1, <3>2, WantedIsList
  <2> QED
    BY <2>1, <2>2
<1>2. web = [i \in DOMAIN named |-> WebCandidate(named[i], origin, state)]
  BY DEF WebCandidates
<1>3. DOMAIN named = 1 .. Len(named) /\ Len(named) \in Nat
  BY <1>1, ListPlaces
<1> HIDE DEF named, web
<1>4. web = [i \in 1 .. Len(named) |-> web[i]]
  BY <1>2, <1>3
<1>5. IsList(web)
  BY <1>3, <1>4, FunctionIsList
<1> QED
  BY <1>5 DEF web

\* What an adapter's results become is a list where the results are one.
LEMMA AnswerIsList ==
    ASSUME NEW fake, NEW result, IsList(result.results), NEW origin, NEW state
    PROVE  IsList(WebCandidates(AdapterResult(fake, result).set, origin, state))
<1>1. \A receipt, executed :
          LET set == <<DiscoverySet(receipt, executed, result.results)>> IN
          set[1].results = result.results
  BY DEF DiscoverySet
<1>2. \/ AdapterResult(fake, result).set = <<>>
      \/ AdapterResult(fake, result).set[1].results = result.results
  BY <1>1, Zenon DEF AdapterResult, NoDiscovery
<1> QED
  BY <1>2, CandidatesAreList

\* What the model answers has a list of results.
LEMMA PayloadIsList ==
    ASSUME NEW payload, payload = "not_object" \/ IsList(payload)
    PROVE  IsList(ResultFromPayload(payload).results)
<1>1. CASE payload = "not_object"
  BY <1>1, EmptyIsList DEF ResultFromPayload, ClosedResult
<1>2. CASE payload # "not_object"
  <2> DEFINE kept == Wanted(payload, {"good"})
             results == [i \in DOMAIN kept |-> RawResult(i, TRUE, TRUE, FALSE, {})]
  <2>1. ResultFromPayload(payload).results = results
    BY <1>2 DEF ResultFromPayload
  <2>2. IsList(kept)
    BY <1>2, WantedIsList
  <2>3. DOMAIN kept = 1 .. Len(kept) /\ Len(kept) \in Nat
    BY <2>2, ListPlaces
  <2> HIDE DEF kept
  <2>4. results = [i \in 1 .. Len(kept) |-> results[i]]
    BY <2>3
  <2> HIDE DEF results
  <2> QED
    BY <2>1, <2>3, <2>4, FunctionIsList
<1> QED
  BY <1>1, <1>2

--------------------------------------------------------------------------------
(* What is shown. *)

MergeFields == {"lists", "web", "shown"}

\* What was found outside is a list, and what is shown is one, no longer than it
\* may be, which is merged by identity until it is ranked.
MergeInv ==
    /\ MergeFields \subseteq DOMAIN run
    /\ IsList(run.web) /\ IsList(run.shown) /\ Len(run.shown) <= MaxShown
    /\ run.pc = "rank" => ShownByIdentity(run.shown, run.lists)

\* It begins with nothing found and nothing shown.
LEMMA MergeBegins ==
    ASSUME NEW new, MergeFields \subseteq DOMAIN new, new.pc # "rank",
           new.web = <<>>, new.shown = <<>>, run' = new
    PROVE  MergeInv'
BY EmptyIsList, GuestAssumption DEF MergeInv

\* A step that changes nothing of it.
LEMMA MergeStays ==
    ASSUME MergeInv, MergeFields \subseteq DOMAIN run', run'.pc # "rank",
           IsList(run'.web), run'.shown = run.shown
    PROVE  MergeInv'
BY DEF MergeInv

\* The steps that make the lists: they are merged by identity, and ranked.
LEMMA MergeAsking ==
    ASSUME GuestInv, MergeInv, Asking
    PROVE  MergeInv'
<1>fields. MergeFields \subseteq DOMAIN run /\ RunFields \subseteq DOMAIN run
  BY DEF MergeInv, GuestInv, RunShapes
<1>1. CASE TakeRequest
  <2>1. PICK r \in Requests : run' = [Idle EXCEPT !.pc = "judge", !.request = <<r>>]
    BY <1>1 DEF TakeRequest
  <2>2. /\ MergeFields \subseteq DOMAIN run' /\ run'.pc # "rank"
        /\ run'.web = <<>> /\ run'.shown = <<>>
    BY <2>1 DEF Idle, MergeFields
  <2> QED
    BY <2>2, MergeBegins
<1>2. CASE Judge
  <2>1. PICK adequacy, handoff, outside :
            run' = [run EXCEPT !.pc = IF outside THEN run.request[1].way ELSE "merge",
                               !.adequacy = adequacy, !.handoff = handoff]
    BY <1>2, Zenon DEF Judge
  <2>2. run.request[1].way \in {"cloud", "tavily"}
    BY <1>2, GuestAssumption DEF Judge, GuestInv, RunShapes
  <2>3. /\ MergeFields \subseteq DOMAIN run' /\ run'.pc # "rank"
        /\ run'.web = run.web /\ run'.shown = run.shown
    BY <1>fields, <2>1, <2>2 DEF MergeFields, RunFields
  <2> QED
    BY <2>3, MergeStays DEF MergeInv
<1>3. CASE MergeLists
  <2> DEFINE r == run.request[1]
             lists == IF run.web = <<>> THEN <<r.local>>
                      ELSE IF r.local_first THEN <<r.local, WebList>>
                      ELSE <<WebList, r.local>>
             merged == Merge(lists, MaxShown, MaxReceipts, Read("contract"))
             shown == merged.list.candidates
  <2>1. run' = [run EXCEPT !.pc = IF merged.raised THEN "done" ELSE "rank",
                           !.lists = lists,
                           !.shown = IF merged.raised THEN <<>> ELSE shown]
    BY <1>3, Zenon DEF MergeLists
  <2>2. IsList(r.local.candidates) /\ IsList(WebList.candidates)
    <3>1. r \in Requests
      <4>1. run.pc = "merge"
        BY <1>3 DEF MergeLists
      <4>2. run.request # <<>>
        BY <4>1 DEF GuestInv, RunShapes
      <4>3. PICK asked \in Requests : run.request = <<asked>>
        BY <4>2 DEF GuestInv, RunShapes
      <4> QED
        BY <4>3
    <3> QED
      BY <3>1, GuestAssumption DEF WebList, MergeInv
  <2>3. IsList(lists) /\ \A i \in DOMAIN lists : IsList(lists[i].candidates)
    <3>1. ASSUME NEW a, IsList(a.candidates)
          PROVE  IsList(<<a>>) /\ \A i \in DOMAIN <<a>> : IsList(<<a>>[i].candidates)
      <4>1. <<a>> \in Seq({a}) /\ DOMAIN <<a>> = {1} /\ <<a>>[1] = a
        OBVIOUS
      <4> QED
        BY <3>1, <4>1, OwnRange
    <3>2. ASSUME NEW a, NEW b, IsList(a.candidates), IsList(b.candidates)
          PROVE  IsList(<<a, b>>) /\ \A i \in DOMAIN <<a, b>> : IsList(<<a, b>>[i].candidates)
      <4>1. <<a, b>> \in Seq({a, b}) /\ DOMAIN <<a, b>> = {1, 2}
            /\ <<a, b>>[1] = a /\ <<a, b>>[2] = b
        OBVIOUS
      <4> QED
        BY <3>2, <4>1, OwnRange
    <3> DEFINE local == r.local
               web == WebList
    <3>3. lists = <<local>> \/ lists = <<local, web>> \/ lists = <<web, local>>
      OBVIOUS
    <3>4. IsList(local.candidates) /\ IsList(web.candidates)
      BY <2>2
    <3> HIDE DEF local, web, lists
    <3> QED
      BY <3>1, <3>2, <3>3, <3>4
  <2> HIDE DEF lists
  <2>4. IsList(shown) /\ Len(shown) <= MaxShown /\ ShownByIdentity(shown, lists)
    BY <2>3, MergeShows, GuestAssumption
  <2> HIDE DEF merged, r
  <2>5. /\ MergeFields \subseteq DOMAIN run' /\ run'.web = run.web /\ run'.lists = lists
        /\ \/ run'.pc = "done" /\ run'.shown = <<>>
           \/ run'.pc = "rank" /\ run'.shown = shown
    BY <1>fields, <2>1 DEF MergeFields, RunFields
  <2>6. CASE run'.pc = "done" /\ run'.shown = <<>>
    BY <2>5, <2>6, EmptyIsList, GuestAssumption DEF MergeInv
  <2>7. CASE run'.pc = "rank" /\ run'.shown = shown
    BY <2>4, <2>5, <2>7 DEF MergeInv
  <2> QED
    BY <2>5, <2>6, <2>7
<1>4. CASE Rank
  <2> DEFINE candidates == [g \in DOMAIN run.shown |-> run.shown[g].candidate]
             order == Ranked(candidates)
             shown == [g \in DOMAIN order |-> run.shown[order[g]]]
             n == Len(run.shown)
  <2>1. run' = [run EXCEPT !.pc = "done", !.shown = shown]
    BY <1>4 DEF Rank
  <2>2. n \in Nat /\ n <= MaxShown /\ DOMAIN run.shown = 1 .. n
    BY ListPlaces DEF MergeInv
  <2>3. DOMAIN order = DOMAIN candidates /\ DOMAIN candidates = DOMAIN run.shown
    BY DEF Ranked
  <2> HIDE DEF order, n
  <2>4. shown = [g \in 1 .. n |-> shown[g]]
    BY <2>2, <2>3
  <2> HIDE DEF shown
  <2>5. IsList(shown) /\ Len(shown) = n
    BY <2>2, <2>4, FunctionIsList
  <2>6. /\ MergeFields \subseteq DOMAIN run' /\ run'.pc = "done"
        /\ run'.web = run.web /\ run'.shown = shown
    BY <1>fields, <2>1 DEF MergeFields, RunFields
  <2> QED
    BY <2>2, <2>5, <2>6 DEF MergeInv
<1> QED
  BY <1>1, <1>2, <1>3, <1>4 DEF Asking

\* The steps outside: what they find becomes a list.
LEMMA MergeCalling ==
    ASSUME GuestInv, MergeInv, Calling
    PROVE  MergeInv'
<1>fields. MergeFields \subseteq DOMAIN run /\ RunFields \subseteq DOMAIN run
  BY DEF MergeInv, GuestInv, RunShapes
<1>1. CASE OpenClosed
  <2>1. PICK receipt : run' = [run EXCEPT !.pc = "merge", !.receipt = receipt]
    BY <1>1 DEF OpenClosed
  <2>2. /\ MergeFields \subseteq DOMAIN run' /\ run'.pc # "rank"
        /\ run'.web = run.web /\ run'.shown = run.shown
    BY <1>fields, <2>1 DEF MergeFields, RunFields
  <2> QED
    BY <2>2, MergeStays DEF MergeInv
<1>2. CASE Open
  <2>1. \E blocked, dry, closed, empty, asked :
            run' = IF blocked THEN [run EXCEPT !.pc = "merge", !.receipt = closed]
                   ELSE IF dry THEN [run EXCEPT !.pc = "merge", !.receipt = empty]
                   ELSE [run EXCEPT !.pc = "calling", !.asked = asked]
    BY <1>2, Zenon DEF Open
  <2>2. PICK receipt, asked :
            \/ run' = [run EXCEPT !.pc = "merge", !.receipt = receipt]
            \/ run' = [run EXCEPT !.pc = "calling", !.asked = asked]
    BY <2>1
  <2>3. /\ MergeFields \subseteq DOMAIN run' /\ run'.pc # "rank"
        /\ run'.web = run.web /\ run'.shown = run.shown
    BY <1>fields, <2>2 DEF MergeFields, RunFields
  <2> QED
    BY <2>3, MergeStays DEF MergeInv
<1>3. CASE NotSearched
  <2>1. /\ MergeFields \subseteq DOMAIN run' /\ run'.pc # "rank"
        /\ run'.web = run.web /\ run'.shown = run.shown
    BY <1>3, <1>fields DEF NotSearched, MergeFields, RunFields
  <2> QED
    BY <2>1, MergeStays DEF MergeInv
<1>4. CASE SearchContacts
  <2> DEFINE results(pages) ==
                 [i \in DOMAIN pages |-> RawResult(i, TRUE, TRUE, TRUE, {pages[i].title})]
             web(pages, receipt) ==
                 WebCandidates(<<DiscoverySet(receipt, TRUE, results(pages))>>,
                               "external_public_source", "public_source_observed")
  <2>1. PICK pages \in Pages : \E answer, observed, receipt :
            run' = [run EXCEPT !.pc = "merge", !.called = TRUE, !.answer = answer,
                          !.receipt = <<receipt>>, !.observed = observed,
                          !.web = web(pages, receipt)]
    BY <1>4, Zenon DEF SearchContacts
  <2>2. PICK answer, observed, receipt :
            run' = [run EXCEPT !.pc = "merge", !.called = TRUE, !.answer = answer,
                          !.receipt = <<receipt>>, !.observed = observed,
                          !.web = web(pages, receipt)]
    BY <2>1
  <2> DEFINE found == results(pages)
             one == <<DiscoverySet(receipt, TRUE, found)>>
  <2>3. IsList(found)
    <3>1. DOMAIN pages = 1 .. Len(pages) /\ Len(pages) \in Nat
      BY GuestAssumption, ListPlaces
    <3>2. found = [i \in 1 .. Len(pages) |-> found[i]]
      BY <3>1
    <3> HIDE DEF found
    <3> QED
      BY <3>1, <3>2, FunctionIsList
  <2>4. web(pages, receipt)
            = WebCandidates(one, "external_public_source", "public_source_observed")
    OBVIOUS
  <2>5. IsList(web(pages, receipt))
    <3> HIDE DEF found, web
    <3>1. one[1].results = found
      BY DEF DiscoverySet
    <3> HIDE DEF one
    <3> QED
      BY <2>3, <2>4, <3>1, CandidatesAreList
  <2> HIDE DEF web
  <2>6. /\ MergeFields \subseteq DOMAIN run' /\ run'.pc # "rank"
        /\ run'.web = web(pages, receipt) /\ run'.shown = run.shown
    BY <1>fields, <2>2 DEF MergeFields, RunFields
  <2> QED
    BY <2>5, <2>6, MergeStays
<1>5. ASSUME NEW result, NEW called, NEW raised, Answered(result, called, raised),
             IsList(result.results)
      PROVE  MergeInv'
  <2> DEFINE web == WebCandidates(AdapterResult(run.request[1].adapter = "fake", result).set,
                                  "", "")
  <2>1. PICK receipt :
            run' = [run EXCEPT !.pc = "merge", !.called = called, !.raised = raised,
                          !.answer = <<result>>, !.receipt = <<receipt>>, !.web = web]
    BY <1>5, Zenon DEF Answered
  <2>2. IsList(web)
    BY <1>5, AnswerIsList
  <2> HIDE DEF web
  <2>3. /\ MergeFields \subseteq DOMAIN run' /\ run'.pc # "rank"
        /\ run'.web = web /\ run'.shown = run.shown
    BY <1>fields, <2>1 DEF MergeFields, RunFields
  <2> QED
    BY <2>2, <2>3, MergeStays
<1>6. \A reason : IsList(ClosedResult(reason).results)
  BY EmptyIsList DEF ClosedResult
<1>7. CASE FakeAnswers
  <2> DEFINE result ==
                 [results |-> run.request[1].fixture, performed |-> FALSE, failure |-> ""]
  <2>1. Answered(result, FALSE, FALSE)
    BY <1>7, Zenon DEF FakeAnswers
  <2>2. run.request[1] \in Requests
    <3>1. run.pc = "calling"
      BY <1>7 DEF FakeAnswers
    <3>2. run.request # <<>>
      BY <3>1 DEF GuestInv, RunShapes
    <3>3. PICK r \in Requests : run.request = <<r>>
      BY <3>2 DEF GuestInv, RunShapes
    <3> QED
      BY <3>3
  <2>3. IsList(result.results)
    BY <2>2, GuestAssumption
  <2> HIDE DEF result
  <2> QED
    BY <1>5, <2>1, <2>3
<1>8. CASE NoCredentials
  <2>1. Answered(ClosedResult("missing_credentials"), FALSE, FALSE)
    BY <1>8 DEF NoCredentials
  <2> QED
    BY <1>5, <1>6, <2>1
<1>9. CASE ModelAnswers
  <2>1. PICK payload \in Payloads : Answered(ResultFromPayload(payload), TRUE, FALSE)
    BY <1>9 DEF ModelAnswers
  <2>2. IsList(ResultFromPayload(payload).results)
    BY PayloadIsList, GuestAssumption
  <2> QED
    BY <1>5, <2>1, <2>2
<1>10. CASE ModelRaises
  <2>1. Answered(ClosedResult("adapter_exception"), TRUE, TRUE)
    BY <1>10 DEF ModelRaises
  <2> QED
    BY <1>5, <1>6, <2>1
<1>11. CASE Declare \/ ReadPilots
  <2>1. /\ MergeFields \subseteq DOMAIN run' /\ run'.pc # "rank"
        /\ run'.web = run.web /\ run'.shown = run.shown
    BY <1>11, <1>fields DEF Declare, ReadPilots, MergeFields, RunFields
  <2> QED
    BY <2>1, MergeStays DEF MergeInv
<1> QED
  BY <1>1, <1>2, <1>3, <1>4, <1>7, <1>8, <1>9, <1>10, <1>11 DEF Calling

\* What operators do, and the end of the bot, shows nothing.
LEMMA MergeOperating ==
    ASSUME MergeInv, Operating
    PROVE  MergeInv'
<1>1. CASE EditFiles \/ ChangeControl
  <2>1. run' = run
    BY <1>1 DEF EditFiles, ChangeControl
  <2> QED
    BY <2>1 DEF MergeInv
<1>2. CASE Stop \/ Restart
  <2>1. run' = [Idle EXCEPT !.pc = "stopped"] \/ run' = Idle
    BY <1>2 DEF Stop, Restart
  <2>2. /\ MergeFields \subseteq DOMAIN run' /\ run'.pc # "rank"
        /\ run'.web = <<>> /\ run'.shown = <<>>
    BY <2>1 DEF Idle, MergeFields
  <2> QED
    BY <2>2, MergeBegins
<1> QED
  BY <1>1, <1>2 DEF Operating

\* Candidates are shown as one exactly where no set of occurrences separates
\* them, in whatever order the lists came, each by the one that came first, and
\* no more than may be (candidate_merge.py).
THEOREM MergedByIdentity == Spec => []MergeGroupsByIdentity
<1>1. Init => MergeInv
  <2> SUFFICES ASSUME Init PROVE MergeInv
    OBVIOUS
  <2>1. /\ MergeFields \subseteq DOMAIN run /\ run.pc # "rank"
        /\ run.web = <<>> /\ run.shown = <<>>
    BY DEF Init, Idle, MergeFields
  <2> QED
    BY <2>1, EmptyIsList, GuestAssumption DEF MergeInv
<1>2. GuestInv /\ MergeInv /\ [Next]_vars => MergeInv'
  <2> SUFFICES ASSUME GuestInv, MergeInv, [Next]_vars PROVE MergeInv'
    OBVIOUS
  <2>1. CASE Next
    BY <2>1, MergeAsking, MergeCalling, MergeOperating DEF Next
  <2>2. CASE UNCHANGED vars
    BY <2>2 DEF vars, MergeInv
  <2> QED
    BY <2>1, <2>2
<1>3. MergeInv => MergeGroupsByIdentity
  BY DEF MergeInv, MergeGroupsByIdentity, ShownByIdentity
<1>4. Spec => []MergeInv
  BY <1>1, <1>2, GuestInduction, PTL DEF Spec
<1> QED
  BY <1>3, <1>4, PTL

================================================================================

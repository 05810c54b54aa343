---------------------------- MODULE GuestCandidates ----------------------------
(***************************************************************************)
(* Lists of guest candidates and what is made of them: whether the         *)
(* database has answered (runtime/workflows/adequacy.py), which candidates *)
(* are the same guest (candidate_merge.py), in which order they are shown  *)
(* (ranking.py), and whether the lack of an answer may be handed to an     *)
(* external search (guest_external_discovery_handoff.py).                  *)
(*                                                                         *)
(* A value that may be absent is a sequence of at most one element; scores *)
(* and points are counted in halves.                                       *)
(***************************************************************************)
EXTENDS Integers, Sequences, FiniteSets, SequencesExt, FiniteSetsExt, Lists

Missing == [type |-> "none", scope |-> "", listed |-> FALSE,
            candidates |-> <<>>, count |-> <<>>]

\* The count an artifact declares, or the length of its list.
CountOf(a) == IF a.count = <<>> THEN Len(a.candidates) ELSE a.count[1]

\* What keeps an artifact from being judged.
Unusable(a) ==
    IF a.type = "none" THEN {"candidate_artifact_missing"}
    ELSE IF a.type # "guest_candidate_list" THEN {"unexpected_candidate_artifact_type"}
    ELSE IF ~a.listed THEN {"candidate_list_missing"}
    ELSE IF CountOf(a) < 0 THEN {"candidate_count_invalid"}
    ELSE {}

AtLeastOne(n) == IF n < 1 THEN 1 ELSE n

-----------------------------------------------------------------------------
(* By their number.                                                        *)

\* The caller's minimum comes before the one the step declares.
MinRequired(explicit, declared) ==
    IF explicit # <<>> THEN AtLeastOne(explicit[1])
    ELSE IF declared # <<>> THEN AtLeastOne(declared[1])
    ELSE 1

CandidateAdequacy(a, min) ==
    IF Unusable(a) # {}
        THEN [outcome |-> "unknown", transition |-> "failure", skipped |-> Unusable(a)]
    ELSE IF CountOf(a) >= min
        THEN [outcome |-> "adequate", transition |-> "success", skipped |-> {}]
    ELSE [outcome |-> "inadequate", transition |-> "inadequate", skipped |-> {}]

-----------------------------------------------------------------------------
(* By what is known of them: adequacy of the guest database.               *)

\* A score decides where there is one, the name where there is none.
IsExact(c, ask) ==
    IF c.score # <<>> THEN c.score[1] >= 2 ELSE ask.name # "" /\ c.name = ask.name

\* One candidate with a channel is enough for the whole list.
MissingContacts(cs, fields) ==
    {f \in fields : \A c \in Range(cs) : f \notin c.channels}

Freshness(cs, days) ==
    LET unknown == \E c \in Range(cs) : c.age = <<>>
        stale   == \E c \in Range(cs) : c.age # <<>> /\ c.age[1] > days
        current == \E c \in Range(cs) : c.age # <<>> /\ c.age[1] <= days
    IN IF stale THEN "stale" ELSE IF current /\ ~unknown THEN "current" ELSE "unknown"

Booking(cs) ==
    IF \E c \in Range(cs) : c.restricted THEN "restricted"
    ELSE IF \E c \in Range(cs) : c.suitable = "yes" THEN "suitable"
    ELSE IF \E c \in Range(cs) : c.suitable = "no" THEN "unsuitable"
    ELSE "unknown"

\* The reasons for which the database has not answered.
Inadequacy(a, ask) ==
    LET cs    == SelectSeq(a.candidates, LAMBDA c : c.form # "not_object")
        exact == Cardinality({i \in DOMAIN cs : IsExact(cs[i], ask)})
        fresh == Freshness(cs, AtLeastOne(ask.days))
        book  == Booking(cs)
        contacts == MissingContacts(cs, ask.fields)
    IN {r \in {"user_requested_web"} : ask.web}
       \cup {r \in {"no_local_candidates"} : CountOf(a) < AtLeastOne(ask.min)}
       \cup {r \in {"ambiguous_local_candidates"} : CountOf(a) > 1 /\ exact # 1}
       \cup {r \in {"missing_phone_contact"} : "phone" \in contacts}
       \cup {r \in {"missing_email_contact"} : contacts \ {"phone"} # {}}
       \cup {r \in {"freshness_unknown"} : ask.fresh /\ fresh = "unknown"}
       \cup {r \in {"freshness_stale"} : ask.fresh /\ fresh = "stale"}
       \cup {r \in {"booking_restricted"} : book = "restricted"}
       \cup {r \in {"booking_suitability_unknown"} : ask.booking /\ book = "unknown"}

\* The artifact of a judgement: without a verdict where there is none.
GuestDbArtifact(outcome, reasons) ==
    [type |-> "guest_db_adequacy", outcome |-> outcome, reasons |-> reasons,
     adequate |-> IF outcome = "unknown" THEN <<>> ELSE <<outcome = "adequate">>]

\* A list that cannot be judged: the reason for it is put among those of an
\* inadequate database, and what the user asked for is not among them.
GuestDbUnknown(skipped) == GuestDbArtifact("unknown", skipped)

GuestDbAdequacy(a, ask) ==
    IF Unusable(a) # {} THEN GuestDbUnknown(Unusable(a))
    ELSE GuestDbArtifact(IF Inadequacy(a, ask) = {} THEN "adequate" ELSE "inadequate",
                         Inadequacy(a, ask))

-----------------------------------------------------------------------------
(* The handoff to an external search.                                      *)

DiscoveryReasonOf ==
    [missing_email_contact |-> "missing_contact_info",
     missing_phone_contact |-> "missing_contact_info",
     no_local_candidates |-> "no_local_candidate",
     freshness_unknown |-> "candidate_stale",
     freshness_stale |-> "candidate_stale",
     ambiguous_local_candidates |-> "ambiguous_identity",
     booking_restricted |-> "booking_restriction_unclear",
     booking_suitability_unknown |-> "booking_restriction_unclear",
     user_requested_web |-> "explicit_user_requested_web"]

\* Codes without a place in the map are dropped.
DiscoveryReasons(adequacy) ==
    {DiscoveryReasonOf[r] : r \in adequacy.reasons \cap DOMAIN DiscoveryReasonOf}

\* Eligible is what has nothing against it; only then a request is prepared.
Handoff(adequacy, governed, query) ==
    LET database ==
            IF adequacy.type # "guest_db_adequacy" THEN {"guest_db_adequacy_missing"}
            ELSE IF adequacy.outcome = "adequate" THEN {"guest_db_adequacy_sufficient"}
            ELSE IF DiscoveryReasons(adequacy) = {} THEN {"guest_db_inadequacy_required"}
            ELSE {}
        against == database
            \cup {r \in {"external_discovery_governance_blocked"} : ~governed}
            \cup {r \in {"query_materialization_empty"} : ~query}
    IN [eligible |-> against = {}, reasons |-> against,
        discovery |-> DiscoveryReasons(adequacy),
        request |-> IF against = {} THEN <<[max_queries |-> 1, max_results |-> 5]>> ELSE <<>>]

-----------------------------------------------------------------------------
(* The merge of lists.                                                     *)

Scopes == {"db", "web", "user", "manual_operator"}

OriginOf ==
    [db |-> "local_db", web |-> "external_public_source",
     user |-> "user_supplied", manual_operator |-> "manual_operator_verified"]

Origins == Range(OriginOf)

ContactStates ==
    {"verified", "public_source_observed", "possible_unverified",
     "blocked_private", "missing"}

NormalScope(scope) ==
    CASE scope = "guest_db" -> "db"
      [] scope = "user_supplied" -> "user"
      [] scope = "manual_operator_verified" -> "manual_operator"
      [] OTHER -> scope

\* What is said of a candidate, or follows from where it comes from.
CandidateOrigin(c, scope) == IF c.origin # "" THEN c.origin ELSE OriginOf[scope]

ContactState(c) == IF c.state # "" THEN c.state ELSE "missing"

Accepted(c, scope) ==
    /\ c.form = "object"
    /\ CandidateOrigin(c, scope) \in Origins
    /\ ContactState(c) \in ContactStates

\* One occurrence of a candidate: where it stands and what identifies it.
Occurrence(artifacts, i, j) ==
    LET c == artifacts[i].candidates[j]
        scope == NormalScope(artifacts[i].scope)
    IN [at |-> <<i, j>>, candidate |-> c, scope |-> scope, keys |-> c.keys,
        origin |-> CandidateOrigin(c, scope), state |-> ContactState(c)]

OccurrencesOf(artifacts, i) ==
    LET a == artifacts[i]
        scope == NormalScope(a.scope)
    IN IF a.type # "guest_candidate_list" \/ scope \notin Scopes \/ ~a.listed THEN <<>>
       ELSE LET good == Wanted(Places(a.candidates),
                               {j \in DOMAIN a.candidates : Accepted(a.candidates[j], scope)})
            IN [k \in DOMAIN good |-> Occurrence(artifacts, i, good[k])]

Occurrences(artifacts) ==
    FlattenSeq([i \in DOMAIN artifacts |-> OccurrencesOf(artifacts, i)])

Matching(groups, o) ==
    {g \in DOMAIN groups : \E m \in Range(groups[g]) : m.keys \cap o.keys # {}}

PlaceInFirstOnly(groups, o) ==
    IF Matching(groups, o) = {} THEN Append(groups, <<o>>)
    ELSE [groups EXCEPT ![Min(Matching(groups, o))] = Append(@, o)]

\* An occurrence joins the first group it shares a key with, and the other
\* groups it shares one with are emptied into that.
Place(groups, o) ==
    LET matching == Matching(groups, o) IN
    IF matching = {} THEN Append(groups, <<o>>)
    ELSE LET first  == Min(matching)
             others == [g \in DOMAIN groups |->
                           IF g \in matching \ {first} THEN groups[g] ELSE <<>>]
         IN [g \in DOMAIN groups |->
                IF g = first THEN Append(groups[g], o) \o FlattenSeq(others)
                ELSE IF g \in matching THEN <<>>
                ELSE groups[g]]

\* A recursive function, and not a fold, for the proofs.
Groups(occurrences) ==
    LET placed[n \in 0 .. Len(occurrences)] ==
            IF n = 0 THEN <<>> ELSE Place(placed[n - 1], occurrences[n])
        groups == placed[Len(occurrences)]
    IN Wanted(groups, Range(groups) \ {<<>>})

\* Of a group the first member is shown, with the lineage of all of them.
Merged(group) ==
    [candidate |-> group[1].candidate, scope |-> group[1].scope,
     origins |-> {m.origin : m \in Range(group)},
     lineage |-> [k \in DOMAIN group |-> group[k].at]]

\* The receipt of a group: whom it shows, who is in it, from where.
MergeReceipt(group) ==
    [selected |-> group[1].at, members |-> [k \in DOMAIN group |-> group[k].at],
     origins |-> {m.origin : m \in Range(group)},
     states |-> {m.state : m \in Range(group)}]

\* It is checked against a contract; one that cannot be read refuses it.
ReceiptRefused(r, contract) ==
    \/ ~contract.readable
    \/ r.origins \ contract.origins # {}
    \/ r.states \ contract.states # {}

\* The list that comes of a merge, no longer than asked for.
MergedArtifact(shown, receipts) ==
    [candidates |-> [g \in DOMAIN shown |-> Merged(shown[g])],
     duplicates |-> Cardinality({g \in DOMAIN shown : Len(shown[g]) > 1}),
     receipts |-> receipts]

\* A refused receipt makes the whole merge raise.
Merge(artifacts, limit, receiptLimit, contract) ==
    LET groups   == Groups(Occurrences(artifacts))
        shown    == SubSeq(groups, 1, Min({Len(groups), limit}))
        doubles  == SelectSeq(shown, LAMBDA g : Len(g) > 1)
        receipts == [k \in 1 .. Min({Len(doubles), receiptLimit}) |-> MergeReceipt(doubles[k])]
    IN [raised |-> \E r \in Range(receipts) : ReceiptRefused(r, contract),
        list |-> MergedArtifact(shown, receipts)]

-----------------------------------------------------------------------------
(* The ranking.                                                            *)

Unit(v) == IF v # <<>> /\ v[1] \in 0 .. 2 THEN v[1] ELSE 0

HasEmail(c) == c.has_email \/ c.email_refs

\* In half points, 200 at most.
Score(c) ==
    (IF c.video THEN 102 ELSE 0) + (IF HasEmail(c) THEN 48 ELSE 0)
    + 10 * Unit(c.confidence) + 10 * Min({c.signals, 2}) + 5 * Unit(c.score)

Before(candidates, i, j) ==
    \/ Score(candidates[i]) > Score(candidates[j])
    \/ Score(candidates[i]) = Score(candidates[j]) /\ i < j

\* The places of the candidates, best first; equals keep their order.
Ranked(candidates) ==
    [place \in DOMAIN candidates |->
        CHOOSE i \in DOMAIN candidates :
            Cardinality({j \in DOMAIN candidates : Before(candidates, j, i)}) = place - 1]

=============================================================================

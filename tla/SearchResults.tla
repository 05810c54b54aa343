----------------------------- MODULE SearchResults -----------------------------
(***************************************************************************)
(* What an external search leaves behind (runtime/artifacts): the answer   *)
(* of a provider in the form the runtime keeps it, the receipt of the      *)
(* execution, the result set made of it, and the bounded merge of result   *)
(* sets.  Receipts and result sets are checked by validators, not by those *)
(* who make them.                                                          *)
(***************************************************************************)
EXTENDS Integers, FiniteSets, Sequences, SequencesExt

AtMost(a, b) == IF a < b THEN a ELSE b

-----------------------------------------------------------------------------
(* The request and the answer.                                             *)

\* How many results are asked for: as many as the request says (nothing if
\* it says less than one), at least one, and never more than both allow.
NormalizeRequest(asked, contractMax, configMax) ==
    LET bound == AtMost(contractMax, configMax)
        n     == IF asked < 1 THEN bound ELSE AtMost(asked, bound)
    IN IF n < 1 THEN 1 ELSE n

Usable(item) == item = "good"

NoResponse == [raw |-> <<>>, rejected |-> 0]

\* Of the first results those with a title and a url, by their place in the
\* answer; how many of the first were none.
NormalizeResponse(answer, maxResults) ==
    LET taken == SubSeq(answer, 1, AtMost(Len(answer), maxResults))
        kept  == SelectSeq([i \in DOMAIN taken |-> i], LAMBDA i : Usable(taken[i]))
    IN [raw |-> kept, rejected |-> Len(taken) - Len(kept)]

-----------------------------------------------------------------------------
(* Receipts.                                                               *)

ExecutionStates ==
    {"provider_execution_disabled", "provider_execution_completed",
     "provider_execution_failed"}

FailedStates == ExecutionStates \ {"provider_execution_completed"}

\* The receipt of an execution: the authorization it was decided by, its
\* bounds, what came back, and whether it failed.
ExecutionReceipt(state, performed, authorization, bounds, response, error) ==
    [state |-> state, performed |-> performed, cost |-> FALSE,
     authorization |-> authorization,
     bounds |-> bounds,
     raw |-> Len(response.raw), rejected |-> response.rejected,
     failed |-> state \in FailedStates, error |-> error]

AuthorizationShown(r) == {"status", "state", "live"} \subseteq DOMAIN r.authorization

BoundsShown(r) == \A field \in {"requested", "normalized"} : r.bounds[field] >= 0

CountsShown(r) == r.raw >= 0 /\ r.rejected >= 0

\* No failure is hidden, and a provider's failure has its class.
FailureShown(r) ==
    /\ r.state \in FailedStates => r.failed
    /\ r.state = "provider_execution_failed" => r.error # ""

ReceiptValid(r) ==
    /\ r.state \in ExecutionStates
    /\ AuthorizationShown(r) /\ BoundsShown(r) /\ CountsShown(r) /\ FailureShown(r)

-----------------------------------------------------------------------------
(* Result sets.                                                            *)

\* Results are named by the receipt they rest on and their place in the
\* answer; each has a lineage of its own.
ResultSet(receipt, response) ==
    LET named == [i \in DOMAIN response.raw |-> <<receipt, response.raw[i]>>] IN
    [results |-> named, lineage |-> named, receipts |-> <<receipt>>,
     claims |-> {}, merge |-> <<>>]

LineageCovers(s) == s.results # <<>> => Len(s.lineage) = Len(s.results)

\* The set denies authority over meaning, and the stages after retrieval.
DeniesAuthority(s) == "semantic_authority" \notin s.claims

StaysBeforeProviders(s) == s.claims \cap {"provider_stage", "execution_allowed"} = {}

\* The account of a merge agrees with the set it comes with.
MergeAccountValid(s) ==
    \A m \in ToSet(s.merge) :
        /\ \A field \in DOMAIN m.limits : m.limits[field] > 0
        /\ m.input_count = Len(m.inputs)
        /\ m.raw_count = Len(s.results)

ResultSetValid(s) ==
    /\ s.claims \cap {"external_call_performed", "cost_incurred", "provider_field"} = {}
    /\ LineageCovers(s) /\ DeniesAuthority(s)
    /\ MergeAccountValid(s) /\ StaysBeforeProviders(s)

-----------------------------------------------------------------------------
(* The bounded merge.                                                      *)

DefaultLimits == [sets |-> 3, per_set |-> 5, total |-> 10]

\* A limit that is not positive gives way to the default.
BoundedLimits(asked) ==
    [field \in DOMAIN DefaultLimits |->
        IF asked[field] > 0 THEN asked[field] ELSE DefaultLimits[field]]

NothingMerged ==
    [results |-> <<>>, lineage |-> <<>>, receipts |-> <<>>, inputs |-> <<>>,
     skipped |-> {}, over |-> FALSE]

TakenWithAllLineage(acc, index, s, n) ==
    [acc EXCEPT
        !.results  = @ \o SubSeq(s.results, 1, n),
        !.lineage  = @ \o s.lineage,
        !.receipts = @ \o s.receipts,
        !.inputs   = Append(@, [index |-> index, accepted |-> n,
                                start |-> Len(acc.results), end |-> Len(acc.results) + n]),
        !.skipped  = @ \cup IF Len(s.results) > n THEN {"result_count_bounded"} ELSE {}]

\* The first n results of a set, each with its lineage.
Taken(acc, index, s, n) ==
    [acc EXCEPT
        !.results  = @ \o SubSeq(s.results, 1, n),
        !.lineage  = @ \o SubSeq(s.lineage, 1, AtMost(n, Len(s.lineage))),
        !.receipts = @ \o s.receipts,
        !.inputs   = Append(@, [index |-> index, accepted |-> n,
                                start |-> Len(acc.results), end |-> Len(acc.results) + n]),
        !.skipped  = @ \cup IF Len(s.results) > n THEN {"result_count_bounded"} ELSE {}]

\* One input: passed over when invalid, the end of the merge when nothing is
\* left to take, and cut to the limits otherwise.
MergeOne(acc, index, s, limits) ==
    LET left == limits.total - Len(acc.results) IN
    CASE acc.over -> acc
      [] ~acc.over /\ ~ResultSetValid(s) ->
            [acc EXCEPT !.skipped = @ \cup {"invalid_result_set"}]
      [] ~acc.over /\ ResultSetValid(s) /\ left <= 0 ->
            [acc EXCEPT !.skipped = @ \cup {"total_result_count_bounded"}, !.over = TRUE]
      [] OTHER ->
            Taken(acc, index, s, AtMost(Len(s.results), AtMost(limits.per_set, left)))

\* The account a merge gives of itself.
MergeAccount(acc, limits, skipped) ==
    [limits |-> limits, inputs |-> acc.inputs, input_count |-> Len(acc.inputs),
     raw_count |-> Len(acc.results), skipped |-> acc.skipped \cup skipped]

MergeResultSets(sets, asked) ==
    LET limits == BoundedLimits(asked)
        taken  == SubSeq(sets, 1, AtMost(Len(sets), limits.sets))
        acc    == FoldLeftDomain(LAMBDA a, i : MergeOne(a, i, taken[i], limits),
                                 NothingMerged, taken)
    IN [results |-> acc.results, lineage |-> acc.lineage, receipts |-> acc.receipts,
        claims |-> {},
        merge |-> <<MergeAccount(acc, limits,
            IF Len(sets) > Len(taken) THEN {"result_set_count_bounded"} ELSE {})>>]

================================================================================

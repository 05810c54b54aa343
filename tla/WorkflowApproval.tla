---------------------------- MODULE WorkflowApproval ----------------------------
(***************************************************************************)
(* The store of suspended workflow instances and the calls that move an    *)
(* instance: suspension, the approval decision, resumption and the         *)
(* preparation of a delivery (runtime/workflows).                          *)
(*                                                                         *)
(* The store is one JSON file, replaced atomically, and the audit is a     *)
(* separate file that is appended to afterwards.  Nothing locks either.    *)
(* Every call is therefore split where another caller or a crash can come  *)
(* in between: the call checks an instance it has read, loads the file     *)
(* again, replaces the file, and appends to the audit.  A crash can also   *)
(* leave the line it was appending unfinished: the next line is written    *)
(* onto it, and the readers of the audit skip what they cannot parse.      *)
(***************************************************************************)
EXTENDS Naturals, Sequences, FiniteSets

CONSTANTS
    Callers,        \* the threads or processes that make calls
    Continuations,  \* the continuation ids
    MaxTransitions  \* bound on the transitions ever written

ASSUME ConstantsAssumption == MaxTransitions \in Nat

VARIABLES
    store,       \* the instance file: continuation -> its record, if any
    audit,       \* the transition audit file: the lines that were finished
    torn,        \* the transition whose line the file ends in the middle of
    calls,       \* the calls in progress: caller -> what it has seen so far
    governance,  \* whether workflow, step and call governance are "enabled"
    lastId,      \* the number of transition ids handed out
    lost,        \* ids of transitions whose caller crashed before the audit
    prepared     \* deliveries prepared: continuation and its latest transition

vars == <<store, audit, torn, calls, governance, lastId, lost, prepared>>

--------------------------------------------------------------------------------
(* The values of an instance's three state fields that the code can write. *)

State(status, approval, suspended) ==
    [status |-> status, approval_state |-> approval, suspended |-> suspended]

Suspended == State("suspended", "pending_approval", TRUE)
Approved  == State("approved_pending_resume", "approved", TRUE)
Denied    == State("terminated_denied", "denied", FALSE)
Resumed   == State("resumed_pending_execution", "approved", FALSE)
NoState   == State("none", "none", FALSE)   \* there is no instance

States == {Suspended, Approved, Denied, Resumed}

\* The state a call of each kind leaves the instance in.
Outcome == [suspend |-> Suspended, approve |-> Approved,
            deny |-> Denied, resume |-> Resumed]
Kinds == DOMAIN Outcome

\* The transition_type of the lineage record of each kind of call, replaced
\* saying whether a suspension found the continuation in the store.
TransitionType(kind, replaced) ==
    CASE kind = "suspend" /\ ~replaced  -> "instance_suspended"
      [] kind = "suspend" /\ replaced   -> "instance_replaced"
      [] kind \in {"approve", "deny"}   -> "approval_decision"
      [] kind = "resume"                -> "continuation_resumed"
TransitionTypes == {"instance_suspended", "instance_replaced",
                    "approval_decision", "continuation_resumed"}

\* A lineage record.  Its id is a hash of its content, time included: distinct
\* for distinct transitions, so a number stands for it.  0 is "no id".
Transition == [id : Nat \ {0}, previous : Nat, sequence : Nat \ {0},
               type : TransitionTypes,
               from : States \cup {NoState}, to : States]

\* What the provenance of an instance records of its decision and resumption.
Marks == {"approve", "deny", "continuation"}

Instance == [state : States \cup {NoState}, provenance : SUBSET Marks,
             lineage : Seq(Transition)]

\* What stands for the record of a continuation that the file does not have.
NoInstance == [state |-> NoState, provenance |-> {}, lineage |-> <<>>]

Files == [Continuations -> Instance]
EmptyFile == [c \in Continuations |-> NoInstance]
Has(file, c) == file[c].lineage # <<>>

\* A mutant of Latest: the first id, not the last.
LatestFirst(lineage) == IF lineage = <<>> THEN 0 ELSE lineage[1].id

Latest(lineage) == IF lineage = <<>> THEN 0 ELSE lineage[Len(lineage)].id

--------------------------------------------------------------------------------
(* The calls in progress: a function whose domain grows and shrinks. *)

Put(f, x, v) == [y \in DOMAIN f \cup {x} |-> IF y = x THEN v ELSE f[y]]
Drop(f, x)   == [y \in DOMAIN f \ {x} |-> f[y]]

\* A call knows its kind and continuation; the provenance of the instance it
\* checked, which it will write back; the file as it last loaded it; and the
\* transition it has to audit (0 before it has written one).
Call(stage, kind, c, provenance, loaded, written) ==
    [stage |-> stage, kind |-> kind, continuation |-> c,
     provenance |-> provenance, loaded |-> loaded, written |-> written]

Busy(k, stage) == k \in DOMAIN calls /\ calls[k].stage = stage

Begin(k, kind, c, provenance) ==
    /\ k \notin DOMAIN calls
    /\ calls' = Put(calls, k, Call("checked", kind, c, provenance, EmptyFile, 0))
    /\ UNCHANGED <<store, audit, torn, governance, lastId, lost, prepared>>

--------------------------------------------------------------------------------
Init ==
    /\ store = EmptyFile
    /\ audit = <<>>
    /\ torn = 0
    /\ calls = [k \in {} |-> 0]
    /\ governance = "enabled"
    /\ lastId = 0
    /\ lost = {}
    /\ prepared = {}

\* A mutant of StartSuspension: the new suspension inherits the provenance of
\* the instance it replaces.
StartSuspensionInherits(k, c) ==
    Begin(k, "suspend", c, store[c].provenance)

\* A suspension is materialized for a declared approval step and its instance
\* built.  Nothing in the store can refuse it.
StartSuspension(k, c) == Begin(k, "suspend", c, {})

\* A mutant of StartDecision: the approval state is not checked.
StartDecisionUnchecked(k, c, kind) ==
    /\ store[c].state.suspended
    /\ governance = "enabled"
    /\ Begin(k, kind, c, (store[c].provenance \ {"approve", "deny"}) \cup {kind})

\* A decision is accepted for an instance that is pending and suspended while
\* governance is enabled.  Every other call is refused and changes nothing.
StartDecision(k, c, kind) ==
    /\ store[c].state = Suspended
    /\ governance = "enabled"
    /\ Begin(k, kind, c, (store[c].provenance \ {"approve", "deny"}) \cup {kind})

\* What resume integrity asks of an instance's lineage: ids linked in order,
\* and the last transition leading to the instance's state.
LineageValid(instance) ==
    LET l == instance.lineage IN
    /\ l # <<>>
    /\ \A i \in 1..Len(l) :
          /\ l[i].sequence = i
          /\ l[i].previous = (IF i = 1 THEN 0 ELSE l[i - 1].id)
    /\ l[Len(l)].to = instance.state

\* A resumption is accepted for an instance that is suspended, pending or
\* approved, and whose lineage is valid.  The caller says it is approved.
StartResumption(k, c) ==
    /\ store[c].state \in {Suspended, Approved}
    /\ governance = "enabled"
    /\ LineageValid(store[c])
    /\ Begin(k, "resume", c, store[c].provenance \cup {"continuation"})

\* The call reads the file again before it changes it.
Load(k) ==
    /\ Busy(k, "checked")
    /\ calls' = [calls EXCEPT ![k] = [@ EXCEPT !.stage = "loaded", !.loaded = store]]
    /\ UNCHANGED <<store, audit, torn, governance, lastId, lost, prepared>>

\* A mutant of NewTransition: the sequence is not counted on.
NewTransitionUncounted(call, id) ==
    LET old == call.loaded[call.continuation] IN
    [id |-> id, previous |-> Latest(old.lineage),
     sequence |-> Len(old.lineage),
     type |-> TransitionType(call.kind, Has(call.loaded, call.continuation)),
     from |-> old.state, to |-> Outcome[call.kind]]

\* The transition a call adds to the lineage it has loaded.
NewTransition(call, id) ==
    LET old == call.loaded[call.continuation] IN
    [id |-> id, previous |-> Latest(old.lineage),
     sequence |-> Len(old.lineage) + 1,
     type |-> TransitionType(call.kind, Has(call.loaded, call.continuation)),
     from |-> old.state, to |-> Outcome[call.kind]]

\* The record a call writes: the state and provenance it decided on when it
\* checked, and the lineage it has loaded with its transition added.
NewInstance(call, id) ==
    [state |-> Outcome[call.kind], provenance |-> call.provenance,
     lineage |-> Append(call.loaded[call.continuation].lineage,
                        NewTransition(call, id))]

\* A mutant of Write: a suspension that replaces an instance is not audited.
WriteUnaudited(k) ==
    LET call == calls[k] IN
    /\ Busy(k, "loaded")
    /\ call.kind = "suspend" \/ Has(call.loaded, call.continuation)
    /\ lastId < MaxTransitions
    /\ lastId' = lastId + 1
    /\ store' = [call.loaded EXCEPT
                     ![call.continuation] = NewInstance(call, lastId + 1)]
    /\ calls' = IF call.kind = "suspend" /\ Has(call.loaded, call.continuation)
                THEN Drop(calls, k)
                ELSE [calls EXCEPT ![k] = [@ EXCEPT !.stage = "written", !.written = lastId + 1]]
    /\ UNCHANGED <<audit, torn, governance, lost, prepared>>

\* The file is replaced by what the call loaded, with the one record changed.
\* The state the loaded record is in is not looked at again.
Write(k) ==
    LET call == calls[k] IN
    /\ Busy(k, "loaded")
    /\ call.kind = "suspend" \/ Has(call.loaded, call.continuation)
    /\ lastId < MaxTransitions
    /\ lastId' = lastId + 1
    /\ store' = [call.loaded EXCEPT
                     ![call.continuation] = NewInstance(call, lastId + 1)]
    /\ calls' = [calls EXCEPT ![k] = [@ EXCEPT !.stage = "written", !.written = lastId + 1]]
    /\ UNCHANGED <<audit, torn, governance, lost, prepared>>

\* The instance was in the file when it was checked and is no longer.
UpdateFailed(k) ==
    /\ Busy(k, "loaded")
    /\ calls[k].kind # "suspend"
    /\ ~Has(calls[k].loaded, calls[k].continuation)
    /\ calls' = Drop(calls, k)
    /\ UNCHANGED <<store, audit, torn, governance, lastId, lost, prepared>>

\* The transition is appended to the audit and the call returns its receipt;
\* that of a resumption hands the remaining actions to the caller.  "after" is
\* the transition whose unfinished line this one is written onto, 0 if none.
AppendAudit(k) ==
    LET call == calls[k] IN
    /\ Busy(k, "written")
    /\ audit' = Append(audit, [continuation |-> call.continuation,
                               id |-> call.written, after |-> torn])
    /\ torn' = 0
    /\ calls' = Drop(calls, k)
    /\ UNCHANGED <<store, governance, lastId, lost, prepared>>

\* The process of a caller dies in the middle of a call.  When it has replaced
\* the store its transition is lost to the audit; the line that tells of it may
\* have been begun, and is then what the file ends in.
Crash(k) ==
    /\ k \in DOMAIN calls
    /\ calls' = Drop(calls, k)
    /\ IF calls[k].stage = "written"
       THEN /\ lost' = lost \cup {calls[k].written}
            /\ torn' \in {torn, calls[k].written}
       ELSE UNCHANGED <<lost, torn>>
    /\ UNCHANGED <<store, audit, governance, lastId, prepared>>

\* A mutant of PrepareDelivery: a pending instance passes as approved.
PrepareDeliveryPending(c) ==
    /\ store[c].state \in {Suspended, Approved, Resumed}
    /\ governance = "enabled"
    /\ prepared' = prepared \cup {[continuation |-> c,
                                   id |-> Latest(store[c].lineage)]}
    /\ UNCHANGED <<store, audit, torn, calls, governance, lastId, lost>>

\* A delivery descriptor is prepared from one read of the store.
PrepareDelivery(c) ==
    /\ store[c].state \in {Approved, Resumed}
    /\ governance = "enabled"
    /\ prepared' = prepared \cup {[continuation |-> c,
                                   id |-> Latest(store[c].lineage)]}
    /\ UNCHANGED <<store, audit, torn, calls, governance, lastId, lost>>

\* The operator edits the governance state of a declaration.
SetGovernance(g) ==
    /\ g # governance
    /\ governance' = g
    /\ UNCHANGED <<store, audit, torn, calls, lastId, lost, prepared>>

Next ==
    \/ \E k \in Callers :
          \/ \E c \in Continuations :
                \/ StartSuspension(k, c)
                \/ \E kind \in {"approve", "deny"} : StartDecision(k, c, kind)
                \/ StartResumption(k, c)
          \/ Load(k)
          \/ Write(k)
          \/ UpdateFailed(k)
          \/ AppendAudit(k)
          \/ Crash(k)
    \/ \E c \in Continuations : PrepareDelivery(c)
    \/ \E g \in {"enabled", "disabled"} : SetGovernance(g)

Spec == Init /\ [][Next]_vars

--------------------------------------------------------------------------------
CallRecord == [stage : {"checked", "loaded", "written"}, kind : Kinds,
               continuation : Continuations, provenance : SUBSET Marks,
               loaded : Files, written : Nat]

TypeOK ==
    /\ store \in Files
    /\ audit \in Seq([continuation : Continuations, id : Nat, after : Nat])
    /\ torn \in Nat
    /\ DOMAIN calls \subseteq Callers /\ calls \in [DOMAIN calls -> CallRecord]
    /\ governance \in {"enabled", "disabled"}
    /\ lastId \in 0..MaxTransitions
    /\ lost \subseteq Nat
    /\ prepared \subseteq [continuation : Continuations, id : Nat]

--------------------------------------------------------------------------------
(* Safety.  The first two hold however calls overlap. *)

\* The store never holds an instance that resume integrity would refuse, and
\* each of its transitions starts in the state the one before it led to: an
\* interrupted or overtaken update never leaves a broken lineage behind.
Continuous(l) ==
    \A i \in 1..Len(l) : l[i].from = (IF i = 1 THEN NoState ELSE l[i - 1].to)

SoundInstance(i) == LineageValid(i) /\ Continuous(i.lineage)
SoundFile(file) ==
    \A c \in Continuations : file[c] = NoInstance \/ SoundInstance(file[c])
LineageSound == SoundFile(store)

\* A reader of the audit finds the lines that stand on their own.  A transition
\* in the store that no such line tells of is about to be appended, or its
\* caller crashed first, or its finished line was written onto the unfinished
\* one of a caller that crashed; and each crash takes at most one line with it.
AuditedIds == {audit[i].id : i \in {j \in 1..Len(audit) : audit[j].after = 0}}
JoinedIds  == {audit[i].id : i \in {j \in 1..Len(audit) : audit[j].after \in lost}}
PendingIds == {calls[k].written : k \in DOMAIN calls}
AccountedIds == AuditedIds \cup JoinedIds \cup PendingIds \cup lost

TransitionsIn(file, ids) ==
    \A c \in Continuations : \A i \in 1..Len(file[c].lineage) :
        file[c].lineage[i].id \in ids

OneLinePerCrash ==
    \A i, j \in 1..Len(audit) :
        audit[i].after = audit[j].after /\ audit[i].after # 0 => i = j

AuditGapsAreCrashes == TransitionsIn(store, AccountedIds) /\ OneLinePerCrash

(* The rest holds of a single caller, whose calls do not overlap. *)

HasTransition(c, id) ==
    \E i \in 1..Len(store[c].lineage) : store[c].lineage[i].id = id

\* The part of a lineage from its last suspension up to its n-th transition.
SinceSuspension(l, n) ==
    {i \in 1..n : \A j \in i + 1..n : l[j].to # Suspended}

\* The provenance of an instance names the decision its lineage records since
\* the last suspension, and no other: one call's provenance does not overwrite
\* what another call decided.
ProvenanceTellsDecision ==
    \A c \in Continuations :
        LET l == store[c].lineage IN
        \A kind \in {"approve", "deny"} :
            kind \in store[c].provenance <=>
                \E i \in SinceSuspension(l, Len(l)) :
                    l[i].type = "approval_decision" /\ l[i].to = Outcome[kind]

\* A delivery is prepared only on top of an approval or a resumption, with no
\* denial between the last suspension and the preparation.
DeliveryFollowsApproval ==
    \A p \in prepared :
        /\ HasTransition(p.continuation, p.id)
        /\ LET l == store[p.continuation].lineage
               n == CHOOSE i \in 1..Len(l) : l[i].id = p.id
           IN  /\ \E i \in SinceSuspension(l, n) : l[i].to \in {Approved, Resumed}
               /\ \A i \in SinceSuspension(l, n) : l[i].to # Denied

\* The calls implement the promised life of a continuation.
PhaseOf(c) ==
    CASE store[c].state = NoState   -> "absent"
      [] store[c].state = Suspended -> "pending"
      [] store[c].state = Approved  -> "approved"
      [] store[c].state = Denied    -> "denied"
      [] store[c].state = Resumed   -> "resumed"

Lifecycle == INSTANCE WorkflowLifecycle
                 WITH phase <- [c \in Continuations |-> PhaseOf(c)]
LifecycleSpec == Lifecycle!Spec

================================================================================

------------------------- MODULE LookupExecution_proofs -------------------------
(***************************************************************************)
(* One batch of lookups, for every number of lookups and workers: its      *)
(* invariants, by induction.  The strengthening says what is known of a    *)
(* lookup at each stage, above all of the executor that a timeout leaves   *)
(* behind, which goes on while the others are carried out and may answer   *)
(* when the batch has long been returned.  It does not depend on alarms    *)
(* being heeded, nor on how many executors are left behind.                *)
(***************************************************************************)
EXTENDS LookupExecution, FiniteSetTheorems, TLAPS

\* How far a lookup is tells how far its executor is.  Only the executor of a
\* lookup that timed out may still go on.
StageTellsExecutor(i) ==
    /\ stage[i] = "waiting" => executor[i] = "none"
    /\ stage[i] \in {"executing", "looking"} => executor[i] # "none"
    /\ stage[i] = "looking" => mode # "main"
    /\ mode = "main" /\ executor[i] \in {"running", "answered"} => stage[i] = "executing"
    /\ mode = "main" /\ executor[i] = "ended" => stage[i] \in {"done", "aborted"}
    /\ stage[i] = "aborted" => executor[i] \in {"none", "ended"}

\* An executor that has ended in its thread has answered, and none that still
\* runs has.
AnswersAreHeard(i) ==
    /\ executor[i] \in {"none", "running"} => answer[i] = "none"
    /\ executor[i] = "answered" => answer[i] # "none"
    /\ mode # "main" /\ executor[i] = "ended" => answer[i] # "none"

\* A lookup that is over has an outcome that no late answer can touch: closed
\* without one, or the answer of an executor that has ended.
OutcomeIsFinal(i) ==
    stage[i] = "done" =>
        /\ result[i] \in Outcomes
        /\ result[i] \in Closed \/ (result[i] = answer[i] /\ executor[i] = "ended")
        /\ executor[i] \in {"running", "answered"} => result[i] = "timeout"

BatchIsComplete ==
    batch = "returned" =>
        /\ \A i \in Requests : stage[i] = "done"
        /\ results = [i \in Requests |-> [request |-> i, outcome |-> result[i]]]

\* A batch that has ended carries out no lookup, and without a pool one runs
\* at a time.
NoneIsLeftActive ==
    /\ batch # "open" => Active = {}
    /\ mode # "pool" => \A i, j \in Active : i = j

\* However many executors are left behind, the policy's number is waited for.
WaitedForAreFew == Cardinality(Active) <= workers

LookupInv ==
    /\ \A i \in Requests : StageTellsExecutor(i) /\ AnswersAreHeard(i) /\ OutcomeIsFinal(i)
    /\ BatchIsComplete
    /\ NoneIsLeftActive
    /\ WaitedForAreFew

--------------------------------------------------------------------------------
\* What a step does to one lookup, it does under that lookup's invariant.
LEMMA LookupStepsKeep ==
  ASSUME TypeOK, LookupInv, NEW i \in Requests,
         \/ \E o \in {"refused", "unauthorized"} : Refuse(i, o)
         \/ ResolverRaises(i)
         \/ StartExecutor(i)
         \/ \E a \in Answers : ExecutorAnswers(i, a)
         \/ ThreadEnds(i)
         \/ JoinTimesOut(i)
         \/ JoinReturns(i)
         \/ Look(i)
         \/ Alarm(i)
         \/ AlarmSwallowed(i)
         \/ MainReturns(i)
  PROVE  TypeOK' /\ LookupInv'
<1> DEFINE Sound(j) == StageTellsExecutor(j) /\ AnswersAreHeard(j) /\ OutcomeIsFinal(j)
<1> USE DEF TypeOK
<1>1. TypeOK' /\ UNCHANGED <<workers, mode, results>>
  <2>1. CASE Refuse(i, "refused") \/ Refuse(i, "unauthorized")
    BY <2>1 DEF Refuse, Settle, Outcomes, Closed
  <2>2. CASE ResolverRaises(i)
    BY <2>2 DEF ResolverRaises, Settle, Abort, Outcomes, Closed
  <2>3. CASE StartExecutor(i) \/ (\E a \in Answers : ExecutorAnswers(i, a)) \/ ThreadEnds(i)
    BY <2>3 DEF StartExecutor, ExecutorAnswers, ThreadEnds
  <2>4. CASE JoinTimesOut(i) \/ JoinReturns(i)
    BY <2>4 DEF JoinTimesOut, JoinReturns
  <2>5. CASE Alarm(i) \/ AlarmSwallowed(i)
    BY <2>5 DEF Alarm, AlarmSwallowed, Settle, Outcomes, Closed
  <2>6. CASE Look(i) \/ MainReturns(i)
    <3>1. "timeout" \in Outcomes
      BY DEF Outcomes, Closed
    <3>2. executor[i] = "ended" \/ MainReturns(i) => answer[i] # "none"
      BY <2>6 DEF Look, MainReturns, LookupInv, StageTellsExecutor, AnswersAreHeard
    <3>3. executor[i] = "ended" \/ MainReturns(i) => answer[i] = "abort" \/ answer[i] \in Outcomes
      BY <3>2 DEF Outcomes
    <3>4. CASE Look(i)
      BY <3>1, <3>3, <3>4 DEF Look, Accept, Settle, Abort
    <3>5. CASE MainReturns(i)
      BY <3>3, <3>5 DEF MainReturns, Accept, Settle, Abort
    <3> QED
      BY <2>6, <3>4, <3>5
  <2> QED
    BY <2>1, <2>2, <2>3, <2>4, <2>5, <2>6
<1>2. \A j \in Requests \ {i} :
         /\ stage'[j] = stage[j] /\ executor'[j] = executor[j]
         /\ answer'[j] = answer[j] /\ result'[j] = result[j]
  BY DEF Refuse, ResolverRaises, StartExecutor, ExecutorAnswers, ThreadEnds, JoinTimesOut,
     JoinReturns, Look, Alarm, AlarmSwallowed, MainReturns, Settle, Abort, Accept
<1>3. \A j \in Requests \ {i} : Sound(j)'
  BY <1>1, <1>2 DEF LookupInv, StageTellsExecutor, AnswersAreHeard, OutcomeIsFinal
<1>4. Sound(i)'
  <2> USE DEF LookupInv, StageTellsExecutor, AnswersAreHeard, OutcomeIsFinal
  <2>1. ASSUME NEW o \in {"refused", "unauthorized"}, Refuse(i, o)
        PROVE  Sound(i)'
    BY <2>1 DEF Refuse, Next1, Settle, Outcomes, Closed
  <2>2. CASE ResolverRaises(i)
    BY <2>2 DEF ResolverRaises, Next1, Settle, Abort, Outcomes, Closed
  <2>3. CASE StartExecutor(i)
    BY <2>3 DEF StartExecutor, Next1
  <2>4. ASSUME NEW a \in Answers, ExecutorAnswers(i, a)
        PROVE  Sound(i)'
    BY <2>4 DEF ExecutorAnswers, Answers
  <2>5. CASE ThreadEnds(i)
    BY <2>5 DEF ThreadEnds
  <2>6. CASE JoinTimesOut(i) \/ JoinReturns(i)
    BY <2>6 DEF JoinTimesOut, JoinReturns
  <2>7. CASE Look(i)
    BY <2>7 DEF Look, Accept, Settle, Abort, Outcomes, Closed
  <2>8. CASE Alarm(i) \/ AlarmSwallowed(i)
    BY <2>8 DEF Alarm, AlarmSwallowed, Settle, Outcomes, Closed
  <2>9. CASE MainReturns(i)
    BY <2>9 DEF MainReturns, Accept, Settle, Abort, Outcomes
  <2> QED
    BY <2>1, <2>2, <2>3, <2>4, <2>5, <2>6, <2>7, <2>8, <2>9
<1>5. BatchIsComplete'
  <2>1. CASE batch # "returned"
    BY <2>1, <1>1 DEF BatchIsComplete, Refuse, ResolverRaises, StartExecutor, ExecutorAnswers,
       ThreadEnds, JoinTimesOut, JoinReturns, Look, Alarm, AlarmSwallowed, MainReturns, Settle, Abort, Accept
  <2>2. CASE batch = "returned"
    <3>1. stage[i] = "done"
      BY <2>2 DEF LookupInv, BatchIsComplete
    <3>2. UNCHANGED <<stage, result, batch, results>>
      BY <3>1, <2>2 DEF Refuse, ResolverRaises, StartExecutor, ExecutorAnswers, ThreadEnds,
         JoinTimesOut, JoinReturns, Look, Alarm, AlarmSwallowed, MainReturns, Next1, LookupInv,
         StageTellsExecutor
    <3> QED
      BY <3>2 DEF LookupInv, BatchIsComplete
  <2> QED
    BY <2>1, <2>2
<1>6. NoneIsLeftActive'
  <2> USE DEF LookupInv, NoneIsLeftActive, Active
  <2>1. CASE stage[i] = "waiting"
    <3>1. batch = "open" /\ (mode # "pool" => Active = {})
      BY <2>1 DEF Refuse, ResolverRaises, StartExecutor, ExecutorAnswers, ThreadEnds,
         JoinTimesOut, JoinReturns, Look, Alarm, AlarmSwallowed, MainReturns, Next1, Free,
         StageTellsExecutor
    <3>2. batch' = "open" \/ (mode # "pool" /\ stage'[i] = "aborted")
      BY <2>1, <3>1 DEF Refuse, ResolverRaises, StartExecutor, ExecutorAnswers, ThreadEnds,
         JoinTimesOut, JoinReturns, Look, Alarm, AlarmSwallowed, MainReturns, Settle, Abort
    <3> QED
      BY <1>1, <1>2, <3>1, <3>2
  <2>2. CASE stage[i] # "waiting"
    <3>1. Active' \subseteq Active
      BY <1>2, <2>2 DEF Refuse, ResolverRaises, StartExecutor, ExecutorAnswers, ThreadEnds,
         JoinTimesOut, JoinReturns, Look, Alarm, AlarmSwallowed, MainReturns, Next1, Accept, Settle, Abort
    <3>2. batch' = batch \/ (mode # "pool" /\ i \in Active /\ i \notin Active')
      BY <2>2 DEF Refuse, ResolverRaises, StartExecutor, ExecutorAnswers, ThreadEnds,
         JoinTimesOut, JoinReturns, Look, Alarm, AlarmSwallowed, MainReturns, Next1, Accept, Settle, Abort
    <3> QED
      BY <1>1, <3>1, <3>2
  <2> QED
    BY <2>1, <2>2
<1>7. WaitedForAreFew'
  <2>1. Active' \subseteq Active \cup {i} /\ IsFiniteSet(Active) /\ Cardinality(Active) \in Nat
        /\ Active \cup {i} \subseteq Requests
    <3>1. IsFiniteSet(Requests)
      BY FS_Interval, ConstantsAssumption DEF Requests
    <3>2. IsFiniteSet(Active)
      BY <3>1, FS_Subset DEF Active
    <3> QED
      BY <1>2, <3>2, FS_CardinalityType DEF Active
  <2>2. IsFiniteSet(Active \cup {i}) /\ Cardinality(Active \cup {i}) <= Cardinality(Active) + 1
    <3>1. IsFiniteSet(Active \cup {i})
          /\ Cardinality(Active \cup {i}) =
               IF i \in Active THEN Cardinality(Active) ELSE Cardinality(Active) + 1
      BY <2>1, FS_AddElement, Zenon
    <3> QED
      BY <2>1, <3>1
  <2>3. IsFiniteSet(Active') /\ Cardinality(Active') <= Cardinality(Active) + 1
        /\ Cardinality(Active') \in Nat
    <3> DEFINE Wider == Active \cup {i}
    <3>1. IsFiniteSet(Wider) /\ Active' \in SUBSET Wider
      BY <2>1, <2>2
    <3>2. IsFiniteSet(Active') /\ Cardinality(Active') <= Cardinality(Wider)
      <4> HIDE DEF Wider
      <4> QED
        BY <3>1, FS_Subset
    <3>3. Cardinality(Active') \in Nat /\ Cardinality(Wider) \in Nat
      BY <3>1, <3>2, FS_CardinalityType
    <3> QED
      BY <2>1, <2>2, <3>2, <3>3
  <2>4. CASE Active' \subseteq Active
    BY <1>1, <2>1, <2>4, FS_Subset, FS_CardinalityType, ConstantsAssumption
       DEF LookupInv, WaitedForAreFew
  <2>5. CASE ~(Active' \subseteq Active)
    <3>1. Free
      BY <2>1, <2>5, <1>2 DEF Active, Refuse, ResolverRaises, StartExecutor, ExecutorAnswers,
         ThreadEnds, JoinTimesOut, JoinReturns, Look, Alarm, AlarmSwallowed, MainReturns,
         Next1, Accept, Settle, Abort
    <3>2. CASE mode = "pool"
      BY <1>1, <2>1, <2>3, <3>1, <3>2, ConstantsAssumption DEF Free, WaitedForAreFew
    <3>3. CASE mode # "pool"
      <4>1. Cardinality(Active) = 0
        BY <3>1, <3>3, FS_EmptySet DEF Free
      <4> QED
        BY <1>1, <2>3, <4>1, ConstantsAssumption DEF WaitedForAreFew
    <3> QED
      BY <3>2, <3>3
  <2> QED
    BY <2>4, <2>5
<1> QED
  BY <1>1, <1>3, <1>4, <1>5, <1>6, <1>7 DEF LookupInv

\* Once every lookup is over, the list that Collect returns holds an outcome
\* for each.
LEMMA CollectKeeps ==
  ASSUME TypeOK, LookupInv, Collect
  PROVE  TypeOK' /\ LookupInv'
<1>1. UNCHANGED <<workers, mode, swallowed, stage, executor, answer, result>>
  BY DEF Collect
<1>2. BatchIsComplete'
  BY <1>1 DEF Collect, BatchIsComplete
<1>3. batch' \in {"open", "returned", "raised"} /\ Active = {}
  BY DEF Collect, Active
<1>4. results' \in Seq([request : Requests, outcome : Outcomes])
  <2>1. CASE \E i \in Requests : stage[i] = "aborted"
    BY <2>1 DEF Collect, TypeOK
  <2>2. CASE \A i \in Requests : stage[i] # "aborted"
    <3>1. results' = [i \in 1..NumRequests |-> [request |-> i, outcome |-> result[i]]]
      BY <2>2 DEF Collect, Requests
    <3>2. \A i \in Requests : result[i] \in Outcomes
      BY <2>2 DEF Collect, LookupInv, OutcomeIsFinal
    <3> QED
      BY <3>1, <3>2, ConstantsAssumption DEF Requests
  <2> QED
    BY <2>1, <2>2
<1>5. WaitedForAreFew'
  BY <1>1 DEF LookupInv, WaitedForAreFew, Active
<1> QED
  BY <1>1, <1>2, <1>3, <1>4, <1>5 DEF TypeOK, LookupInv, StageTellsExecutor, AnswersAreHeard,
     OutcomeIsFinal, NoneIsLeftActive, Active

\* The induction that every theorem of this module rests on.
LEMMA BatchInduction == Spec => [](TypeOK /\ LookupInv)
<1>1. Init => TypeOK /\ LookupInv
  <2> SUFFICES ASSUME Init PROVE TypeOK /\ LookupInv
    OBVIOUS
  <2>1. Active = {} /\ Cardinality(Active) = 0
    BY FS_EmptySet DEF Init, Active
  <2>2. TypeOK
    BY ConstantsAssumption DEF Init, TypeOK
  <2> QED
    BY <2>1, <2>2 DEF Init, TypeOK, LookupInv, StageTellsExecutor, AnswersAreHeard,
       OutcomeIsFinal, BatchIsComplete, NoneIsLeftActive, WaitedForAreFew
<1>2. TypeOK /\ LookupInv /\ [Next]_vars => (TypeOK /\ LookupInv)'
  <2> SUFFICES ASSUME TypeOK, LookupInv, [Next]_vars
               PROVE  TypeOK' /\ LookupInv'
    OBVIOUS
  <2>1. CASE UNCHANGED vars
    BY <2>1 DEF vars, TypeOK, LookupInv, StageTellsExecutor, AnswersAreHeard, OutcomeIsFinal,
       BatchIsComplete, NoneIsLeftActive, WaitedForAreFew, Active
  <2> QED
    BY <2>1, LookupStepsKeep, CollectKeeps DEF Next, Finished
<1> QED
  BY <1>1, <1>2, PTL DEF Spec

\* The variables keep their types (TypeOK): what is returned are outcomes.
THEOREM TypeCorrect == Spec => []TypeOK
<1> QED
  BY BatchInduction, PTL

\* The results come back complete and in planner order (PlannerOrder), for
\* every number of lookups and of workers.
THEOREM ResultsInPlannerOrder == Spec => []PlannerOrder
<1>1. TypeOK /\ LookupInv => PlannerOrder
  <2> SUFFICES ASSUME TypeOK, LookupInv, batch = "returned"
               PROVE  /\ Len(results) = NumRequests
                      /\ \A i \in Requests :
                            /\ results[i].request = i
                            /\ results[i].outcome \in {answer[i]} \cup Closed
                            /\ results[i].outcome = "one" => executor[i] = "ended"
    BY DEF PlannerOrder
  <2>1. results = [i \in 1..NumRequests |-> [request |-> i, outcome |-> result[i]]]
    BY DEF LookupInv, BatchIsComplete, Requests
  <2>2. Len(results) = NumRequests
    BY <2>1, ConstantsAssumption
  <2>3. ASSUME NEW i \in Requests
        PROVE  /\ results[i].request = i
               /\ results[i].outcome \in {answer[i]} \cup Closed
               /\ results[i].outcome = "one" => executor[i] = "ended"
    BY <2>1 DEF LookupInv, BatchIsComplete, OutcomeIsFinal, Closed, Requests
  <2> QED
    BY <2>2, <2>3
<1> QED
  BY <1>1, BatchInduction, PTL

\* An executor that outlives its lookup was abandoned by a timeout, and no more
\* are waited for than the policy allows (OrphansTimedOut).
THEOREM OnlyTimeoutsAbandon == Spec => []OrphansTimedOut
<1>1. LookupInv => OrphansTimedOut
  BY DEF LookupInv, StageTellsExecutor, OutcomeIsFinal, WaitedForAreFew, OrphansTimedOut
<1> QED
  BY <1>1, BatchInduction, PTL

\* What an abandoned executor does later touches nothing: a lookup that is
\* over stays over with the outcome it was given, and a batch that has
\* returned keeps its results.
LateAnswersTouchNothing ==
    /\ \A i \in Requests :
          stage[i] = "done" => stage'[i] = "done" /\ result'[i] = result[i]
    /\ batch # "open" => UNCHANGED <<batch, results>>

\* No step, least of all the late answer of an executor that a timeout has
\* abandoned, changes an outcome (LateAnswersTouchNothing).
THEOREM OutcomesAreFinal == Spec => [][LateAnswersTouchNothing]_vars
<1>1. TypeOK /\ LookupInv /\ [Next]_vars => [LateAnswersTouchNothing]_vars
  <2> SUFFICES ASSUME TypeOK, LookupInv, Next
               PROVE  LateAnswersTouchNothing
    OBVIOUS
  <2> USE DEF TypeOK, LateAnswersTouchNothing
  <2>1. ASSUME NEW i \in Requests,
               \/ \E o \in {"refused", "unauthorized"} : Refuse(i, o)
               \/ ResolverRaises(i)
               \/ StartExecutor(i)
        PROVE  LateAnswersTouchNothing
    BY <2>1 DEF Refuse, ResolverRaises, StartExecutor, Next1, Settle, Abort
  <2>2. ASSUME NEW i \in Requests,
               \/ \E a \in Answers : ExecutorAnswers(i, a)
               \/ ThreadEnds(i)
               \/ JoinTimesOut(i)
               \/ JoinReturns(i)
        PROVE  LateAnswersTouchNothing
    BY <2>2 DEF ExecutorAnswers, ThreadEnds, JoinTimesOut, JoinReturns
  <2>3. ASSUME NEW i \in Requests, Look(i) \/ Alarm(i) \/ AlarmSwallowed(i) \/ MainReturns(i)
        PROVE  LateAnswersTouchNothing
    BY <2>3 DEF Look, Alarm, AlarmSwallowed, MainReturns, Accept, Settle, Abort, LookupInv, NoneIsLeftActive,
       Active
  <2>4. CASE Collect \/ Finished
    BY <2>4 DEF Collect, Finished, vars
  <2> QED
    BY <2>1, <2>2, <2>3, <2>4 DEF Next
<1> QED
  BY <1>1, BatchInduction, PTL DEF Spec

================================================================================

---------------------------- MODULE LookupExecution ----------------------------
(***************************************************************************)
(* One batch of planned lookups (runtime/lookup/execution.py and           *)
(* lifecycle.py): the lookups run one after the other, or in a thread pool *)
(* when the capability's policy allows more than one at a time, each under *)
(* the policy's timeout.                                                   *)
(*                                                                         *)
(* On the main thread the timeout is an alarm that raises an Exception in  *)
(* the executor, once: an executor that catches it and goes on is never    *)
(* interrupted again.                                                      *)
(* On every other thread the executor runs in a daemon thread of its own,  *)
(* which a timeout abandons: it goes on, and its answer may come late.     *)
(***************************************************************************)
EXTENDS Naturals, Sequences, FiniteSets

CONSTANTS
    NumRequests,     \* the lookups of the batch, in planner order
    MaxConcurrent    \* the largest max_concurrent_lookups of a policy

ASSUME ConstantsAssumption ==
    NumRequests \in Nat /\ MaxConcurrent \in Nat \ {0}

VARIABLES
    workers,    \* max_concurrent_lookups of the capability's policy
    mode,       \* "pool", or one by one on the "main" or on a "side" thread
    swallowed,  \* the lookups whose executor caught its alarm and went on
    stage,      \* lookup -> how far execute_lookup_request is with it
    executor,   \* lookup -> the life of its executor
    answer,     \* lookup -> what its executor answered
    result,     \* lookup -> the outcome execute_lookup_request gave it
    batch,      \* execute_lookup_requests is "open", has "returned" or "raised"
    results     \* the list it returned

vars == <<workers, mode, swallowed, stage, executor, answer, result, batch, results>>

Requests == 1..NumRequests

--------------------------------------------------------------------------------
(* Outcomes of a lookup.                                                   *)

\* What an executor can do: return a result, raise, or raise what no handler
\* of Exception catches.
Answers == {"one", "many", "no_match", "duplicate", "malformed",
            "cancelled", "exception", "abort"}

\* The outcomes decided without an executor's answer.
Closed == {"refused", "unauthorized", "exception", "timeout"}
Outcomes == (Answers \ {"abort"}) \cup Closed

--------------------------------------------------------------------------------
Active == {i \in Requests : stage[i] \in {"executing", "looking"}}

Init ==
    /\ workers \in 1..MaxConcurrent
    /\ mode \in IF NumRequests > 1 /\ workers > 1 THEN {"pool"} ELSE {"main", "side"}
    /\ swallowed = {}
    /\ stage = [i \in Requests |-> "waiting"]
    /\ executor = [i \in Requests |-> "none"]
    /\ answer = [i \in Requests |-> "none"]
    /\ result = [i \in Requests |-> "none"]
    /\ batch = "open"
    /\ results = <<>>

\* A worker of the pool, or the calling thread, has nothing to do.
Free ==
    IF mode = "pool" THEN Cardinality(Active) < workers ELSE Active = {}

\* The next lookup of the batch: workers take them in the order submitted.
Next1(i) ==
    /\ batch = "open"
    /\ stage[i] = "waiting"
    /\ \A j \in 1..(i - 1) : stage[j] # "waiting"
    /\ Free

\* A lookup ends with an outcome.
Settle(i, outcome) ==
    /\ stage' = [stage EXCEPT ![i] = "done"]
    /\ result' = [result EXCEPT ![i] = outcome]

\* What was raised leaves execute_lookup_request: a future keeps it, a batch
\* that runs one by one ends with it.
Abort(i) ==
    /\ stage' = [stage EXCEPT ![i] = "aborted"]
    /\ batch' = IF mode = "pool" THEN batch ELSE "raised"
    /\ UNCHANGED result

\* Validation, governance, the capability or the executor's absence refuse it.
Refuse(i, outcome) ==
    /\ Next1(i)
    /\ Settle(i, outcome)
    /\ UNCHANGED <<workers, mode, swallowed, executor, answer, batch, results>>

\* The agent's resolver raises: outside the handlers of execute_lookup_request,
\* but the pool's collection closes it.
ResolverRaises(i) ==
    /\ Next1(i)
    /\ IF mode = "pool"
       THEN Settle(i, "exception") /\ UNCHANGED batch
       ELSE Abort(i)
    /\ UNCHANGED <<workers, mode, swallowed, executor, answer, results>>

StartExecutor(i) ==
    /\ Next1(i)
    /\ stage' = [stage EXCEPT ![i] = "executing"]
    /\ executor' = [executor EXCEPT ![i] = "running"]
    /\ UNCHANGED <<workers, mode, swallowed, answer, result, batch, results>>

\* The executor returns or raises; in a thread it puts its answer in the queue.
ExecutorAnswers(i, a) ==
    /\ executor[i] = "running"
    /\ executor' = [executor EXCEPT ![i] = "answered"]
    /\ answer' = [answer EXCEPT ![i] = a]
    /\ UNCHANGED <<workers, mode, swallowed, stage, result, batch, results>>

\* The daemon thread ends after it has put its answer.
ThreadEnds(i) ==
    /\ mode # "main"
    /\ executor[i] = "answered"
    /\ executor' = [executor EXCEPT ![i] = "ended"]
    /\ UNCHANGED <<workers, mode, swallowed, stage, answer, result, batch, results>>

\* A mutant of JoinTimesOut: the thread is joined without a timeout.
JoinWithoutTimeout(i) ==
    /\ mode # "main"
    /\ stage[i] = "executing"
    /\ executor[i] = "ended"
    /\ stage' = [stage EXCEPT ![i] = "looking"]
    /\ UNCHANGED <<workers, mode, swallowed, executor, answer, result, batch, results>>

\* worker.join(timeout) returns because the time is up.  The thread may still
\* answer, and even end, before is_alive is called.
JoinTimesOut(i) ==
    /\ mode # "main"
    /\ stage[i] = "executing"
    /\ stage' = [stage EXCEPT ![i] = "looking"]
    /\ UNCHANGED <<workers, mode, swallowed, executor, answer, result, batch, results>>

\* worker.join(timeout) returns because the thread has ended.
JoinReturns(i) ==
    /\ mode # "main"
    /\ stage[i] = "executing"
    /\ executor[i] = "ended"
    /\ stage' = [stage EXCEPT ![i] = "looking"]
    /\ UNCHANGED <<workers, mode, swallowed, executor, answer, result, batch, results>>

\* A mutant of Accept: what is no Exception is taken for an answer.
AcceptAbort(i) == Settle(i, answer[i]) /\ UNCHANGED batch

\* The answer of a lookup's executor becomes its outcome.
Accept(i) ==
    IF answer[i] = "abort" THEN Abort(i)
    ELSE Settle(i, answer[i]) /\ UNCHANGED batch

\* A mutant of Look: the queue is read whether the thread is alive or not.
LookInQueue(i) ==
    /\ stage[i] = "looking"
    /\ IF executor[i] = "running"
       THEN Settle(i, "cancelled") /\ UNCHANGED batch
       ELSE Accept(i)
    /\ UNCHANGED <<workers, mode, swallowed, executor, answer, results>>

\* The thread is looked at: alive is a timeout, even with its answer in the
\* queue; otherwise the queue holds its answer.
Look(i) ==
    /\ stage[i] = "looking"
    /\ IF executor[i] = "ended"
       THEN Accept(i)
       ELSE Settle(i, "timeout") /\ UNCHANGED batch
    /\ UNCHANGED <<workers, mode, swallowed, executor, answer, results>>

\* The alarm of the main thread goes off while the executor runs, or when it
\* has answered and its alarm is not cancelled yet.  Its answer is dropped.
Alarm(i) ==
    /\ mode = "main"
    /\ stage[i] = "executing"
    /\ i \notin swallowed
    /\ executor' = [executor EXCEPT ![i] = "ended"]
    /\ Settle(i, "timeout")
    /\ UNCHANGED <<workers, mode, swallowed, answer, batch, results>>

\* The alarm goes off in the executor, which handles the exception, as any
\* "except Exception" does, and goes on.  There is no second alarm.
AlarmSwallowed(i) ==
    /\ mode = "main"
    /\ stage[i] = "executing"
    /\ executor[i] = "running"
    /\ i \notin swallowed
    /\ swallowed' = swallowed \cup {i}
    /\ UNCHANGED <<workers, mode, stage, executor, answer, result, batch, results>>

\* The main thread cancels the alarm and takes the executor's answer.
MainReturns(i) ==
    /\ mode = "main"
    /\ stage[i] = "executing"
    /\ executor[i] = "answered"
    /\ executor' = [executor EXCEPT ![i] = "ended"]
    /\ Accept(i)
    /\ UNCHANGED <<workers, mode, swallowed, answer, results>>

\* A mutant of Collect: what a future raised is left out of the results.
CollectWithoutRaised ==
    /\ batch = "open"
    /\ \A i \in Requests : stage[i] \in {"done", "aborted"}
    /\ LET settled == SelectSeq([i \in Requests |-> i], LAMBDA i : stage[i] = "done")
       IN  results' = [n \in 1..Len(settled) |->
                         [request |-> settled[n], outcome |-> result[settled[n]]]]
    /\ batch' = "returned"
    /\ UNCHANGED <<workers, mode, swallowed, stage, executor, answer, result>>

\* The batch is returned in planner order when every lookup is over.  What a
\* future of the pool raised is raised then.
Collect ==
    /\ batch = "open"
    /\ \A i \in Requests : stage[i] \in {"done", "aborted"}
    /\ IF \E i \in Requests : stage[i] = "aborted"
       THEN batch' = "raised" /\ UNCHANGED results
       ELSE /\ batch' = "returned"
            /\ results' = [i \in Requests |->
                              [request |-> i, outcome |-> result[i]]]
    /\ UNCHANGED <<workers, mode, swallowed, stage, executor, answer, result>>

\* The batch is over; abandoned threads may go on.
Finished == batch # "open" /\ UNCHANGED vars

Next ==
    \/ \E i \in Requests :
          \/ \E o \in {"refused", "unauthorized"} : Refuse(i, o)
          \/ ResolverRaises(i)
          \/ StartExecutor(i)
          \/ \E a \in Answers : ExecutorAnswers(i, a)
          \/ ThreadEnds(i)
          \/ JoinTimesOut(i)
          \/ JoinReturns(i)
          \/ Look(i)
          \/ Alarm(i)
          \/ AlarmSwallowed(i)
          \/ MainReturns(i)
    \/ Collect
    \/ Finished

\* The runtime's threads run and its timers expire; nothing makes an executor
\* answer, or end when its alarm goes off.
Fairness ==
    /\ \A i \in Requests :
          /\ WF_vars(StartExecutor(i))
          /\ WF_vars(JoinTimesOut(i))
          /\ WF_vars(Look(i))
          /\ WF_vars(Alarm(i) \/ AlarmSwallowed(i))
          /\ WF_vars(MainReturns(i))
    /\ WF_vars(Collect)

Spec == Init /\ [][Next]_vars
FairSpec == Spec /\ Fairness

--------------------------------------------------------------------------------
TypeOK ==
    /\ workers \in 1..MaxConcurrent
    /\ mode \in {"pool", "main", "side"}
    /\ swallowed \subseteq Requests
    /\ stage \in [Requests -> {"waiting", "executing", "looking", "done", "aborted"}]
    /\ executor \in [Requests -> {"none", "running", "answered", "ended"}]
    /\ answer \in [Requests -> Answers \cup {"none"}]
    /\ result \in [Requests -> Outcomes \cup {"none"}]
    /\ batch \in {"open", "returned", "raised"}
    /\ results \in Seq([request : Requests, outcome : Outcomes])

\* The results come back complete and in planner order, whatever order the
\* lookups end in, and what a lookup found is what its own executor answered.
PlannerOrder ==
    batch = "returned" =>
        /\ Len(results) = NumRequests
        /\ \A i \in Requests :
              /\ results[i].request = i
              /\ results[i].outcome \in {answer[i]} \cup Closed
              /\ results[i].outcome = "one" => executor[i] = "ended"

\* An executor that outlives its lookup was abandoned by a timeout, and no
\* other outcome is reported of it: "cancelled" or an answer means it is over.
\* Those abandoned are beyond every limit; those that are waited for are never
\* more than the policy allows, although each timeout frees a worker.
OrphansTimedOut ==
    /\ \A i \in Requests :
          stage[i] \in {"done", "aborted"} /\ executor[i] \in {"running", "answered"}
              => result[i] = "timeout"
    /\ Cardinality(Active) <= workers

\* A batch ends, even one whose executors never answer, unless the executor of
\* a lookup on the main thread has swallowed its only alarm and never returns.
Unstoppable == \E i \in swallowed : executor[i] = "running"

BatchEnds == []<>(~Unstoppable) => <>(batch # "open")
================================================================================

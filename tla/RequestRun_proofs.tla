---------------------------- MODULE RequestRun_proofs ----------------------------
(***************************************************************************)
(* A conversation, for every set of engines, routes, artifact types and    *)
(* bounds: its invariants, by induction.  What makes them inductive is     *)
(* where in a turn its pieces can be: which plans have come to a model,    *)
(* which answers past validation, and which lines are remembered already.  *)
(***************************************************************************)
EXTENDS RequestRun, TLAPS

Hows == {"blank", "raised", "error", "lost", "model", "direct", "materialized", "local"}

Lines == [turn : Nat, role : {"user", "assistant"}, live : BOOLEAN, repaired : BOOLEAN]

TraceStates == {"received", "routed", "context_resolved", "planned", "executing",
                "action_pending", "completed", "failed"}

\* The types of what is kept from turn to turn, which TypeOK leaves out.
Histories ==
    /\ said \in Seq([how : Hows, answer : Answers])
    /\ memory \in Seq(Lines)
    /\ acts \in Seq(Nat)
    /\ trace \in Seq(TraceStates) /\ trace # <<>>

\* A plan that has come to a model asks for one, a dry run is answered by the
\* notice, and what is past validation has been accepted.
AnswersArePlanned ==
    /\ pc \notin {"idle", "start"} => plan \in Plans
    /\ pc \in {"prepare", "engines", "answered", "validate", "act"} => plan.kind \in ModelKinds
    /\ ~result.live => result.answer = "notice"
    /\ dry => pc \in {"validate", "act", "complete"} /\ result.answer = "notice"
    /\ pc \in {"act", "persist", "remember", "remember reply", "complete"}
          /\ plan.kind \in ModelKinds => result.answer \notin {"broken", "meta"}

\* The lines of the current turn are those that it has come to.
LinesAreInTime ==
    \A i \in 1..Len(memory) :
        /\ memory[i].turn \in 1..turn
        /\ memory[i].turn = turn /\ memory[i].role = "user" =>
              pc \in {"remember reply", "complete", "idle"}
        /\ memory[i].turn = turn /\ memory[i].role = "assistant" => pc \in {"complete", "idle"}

TraceIsOpen == pc # "idle" => Last(trace) \notin {"completed", "failed"}

RequestInv ==
    /\ TypeOK /\ Histories
    /\ AnswersArePlanned /\ LinesAreInTime /\ TraceIsOpen
    /\ DeliveredWereAccepted /\ RecordsTellTurns

--------------------------------------------------------------------------------
\* Appending puts an element behind what a sequence has.
LEMMA AppendFacts ==
    ASSUME NEW S, NEW s \in Seq(S), NEW x \in S
    PROVE  /\ Append(s, x) \in Seq(S) /\ Append(s, x) # <<>>
           /\ Len(s) \in Nat /\ Len(Append(s, x)) = Len(s) + 1
           /\ Append(s, x)[Len(s) + 1] = x
           /\ \A i \in 1..Len(s) : s[i] \in S /\ Append(s, x)[i] = s[i]
OBVIOUS

\* Entering a state makes it the last of the trace.
LEMMA EnterFacts ==
    ASSUME Histories, NEW s \in TraceStates
    PROVE  Enter(s) \in Seq(TraceStates) /\ Enter(s) # <<>> /\ Last(Enter(s)) = s
<1>1. CASE Last(trace) = s
  BY <1>1 DEF Enter, Histories
<1>2. CASE Last(trace) # s
  <2>1. Enter(s) = Append(trace, s) /\ trace \in Seq(TraceStates)
    BY <1>2 DEF Enter, Histories
  <2>2. /\ Append(trace, s) \in Seq(TraceStates) /\ Append(trace, s) # <<>>
        /\ Len(Append(trace, s)) = Len(trace) + 1 /\ Append(trace, s)[Len(trace) + 1] = s
    BY <2>1, AppendFacts
  <2> QED
    BY <2>1, <2>2 DEF Last
<1> QED
  BY <1>1, <1>2

\* During a turn, all turns before it have ended.
LEMMA TurnHasBegun ==
    ASSUME RequestInv, pc # "idle"
    PROVE  turn \in Nat /\ turn \in 1..turn /\ Len(said) \in Nat /\ Len(said) = turn - 1
<1>1. turn \in 0..MaxTurns /\ Len(said) = turn - 1 /\ said \in Seq([how : Hows, answer : Answers])
  BY Zenon DEF RequestInv, TypeOK, Histories
<1>2. MaxTurns \in Nat
  BY ConstantsAssumption
<1>3. Len(said) \in Nat
  BY <1>1
<1> QED
  BY <1>1, <1>2, <1>3

\* The queue gets records of the current turn only.
LEMMA QueueGrows ==
    ASSUME RequestInv, UNCHANGED turn, acts' = acts \/ acts' = Append(acts, turn), turn \in 1..turn
    PROVE  acts' \in Seq(Nat) /\ \A i \in 1..Len(acts') : acts'[i] \in 1..turn
<1>1. turn \in Nat /\ acts \in Seq(Nat) /\ \A i \in 1..Len(acts) : acts[i] \in 1..turn
  <2>1. acts \in Seq(Nat) /\ \A i \in 1..Len(acts) : acts[i] \in 1..turn
    BY Zenon DEF RequestInv, Histories, TypeOK
  <2> QED
    BY <2>1
<1>2. CASE acts' = acts
  BY <1>1, <1>2
<1>3. CASE acts' = Append(acts, turn)
  <2>1. /\ acts' \in Seq(Nat) /\ Len(acts) \in Nat /\ Len(acts') = Len(acts) + 1
        /\ acts'[Len(acts) + 1] = turn /\ \A i \in 1..Len(acts) : acts'[i] = acts[i]
    BY <1>1, <1>3, AppendFacts
  <2>2. \A i \in 1..Len(acts') : i \in 1..Len(acts) \/ i = Len(acts) + 1
    BY <2>1
  <2> QED
    BY <1>1, <2>1, <2>2
<1> QED
  BY <1>2, <1>3

\* However a turn ends, its records tell how.
LEMMA TurnEnds ==
    ASSUME RequestInv, pc # "idle", NEW how \in Hows, End(how),
           UNCHANGED <<cloud, toggles, turn, memory>>, presence' \in BOOLEAN,
           acts' = acts \/ acts' = Append(acts, turn),
           trace' \in Seq(TraceStates), trace' # <<>>,
           \/ how = "error" /\ pc # "complete" /\ Last(trace') = "failed"
           \/ how \in {"blank", "raised"} /\ pc = "start" /\ trace' = trace
           \/ how = "lost" /\ trace' = trace
           \/ /\ how \in {"model", "direct", "materialized"} /\ pc = "complete"
              /\ Last(trace') = "completed"
              /\ how = "model" => plan.kind \in ModelKinds
           \/ how = "local" /\ pc = "complete" /\ trace' = trace
    PROVE  RequestInv'
<1> DEFINE entry == [how |-> how, answer |-> result.answer]
<1>1. /\ turn \in Nat /\ Len(said) = turn - 1 /\ result.answer \in Answers
      /\ said \in Seq([how : Hows, answer : Answers])
      /\ entry \in [how : Hows, answer : Answers]
  <2>1. turn \in Nat /\ Len(said) = turn - 1
    <3>1. turn \in 0..MaxTurns /\ Len(said) = turn - 1
      BY Zenon DEF RequestInv, TypeOK
    <3>2. MaxTurns \in Nat
      BY ConstantsAssumption
    <3> QED
      BY <3>1, <3>2
  <2>2. result.answer \in Answers
    BY DEF RequestInv, TypeOK
  <2>3. said \in Seq([how : Hows, answer : Answers])
    BY DEF RequestInv, Histories
  <2> QED
    BY <2>1, <2>2, <2>3
<1>2. /\ said' = Append(said, entry) /\ pc' = "idle" /\ plan' = NoPlan /\ result' = NoResult
      /\ call' = "primary" /\ dry' = FALSE /\ repairs' = 0 /\ left' = 0
  BY DEF End
<1>3. /\ said' \in Seq([how : Hows, answer : Answers])
      /\ Len(said) \in Nat /\ Len(said') = turn /\ said'[turn] = entry
      /\ \A i \in 1..Len(said) : said'[i] = said[i]
  BY <1>1, <1>2, AppendFacts
<1>4. entry.how = how /\ entry.answer = result.answer
  OBVIOUS
<1> HIDE DEF entry
<1>5. turn \in 1..turn
  BY <1>1, <1>3
<1>6. Histories'
  BY <1>3, <1>5, QueueGrows DEF RequestInv, Histories
<1>7. TypeOK'
  <2>1. \A i \in 1..Len(acts') : acts'[i] \in 1..turn
    BY <1>5, QueueGrows
  <2>2. result' \in [engine : Engines \cup {NotSet}, answer : Answers, live : BOOLEAN]
    BY <1>2 DEF NoResult, Answers
  <2>3. repairs' \in 0..MaxRepairs /\ left' \in 0..MaxActions
    BY <1>2, ConstantsAssumption
  <2> QED
    BY <1>2, <1>3, <2>1, <2>2, <2>3 DEF RequestInv, TypeOK
<1>8. AnswersArePlanned' /\ TraceIsOpen'
  BY <1>2 DEF AnswersArePlanned, TraceIsOpen, NoResult
<1>9. LinesAreInTime'
  BY <1>2 DEF RequestInv, LinesAreInTime
<1>10. DeliveredWereAccepted'
  <2>1. how = "model" => result.answer \notin {"broken", "meta"}
    BY DEF RequestInv, AnswersArePlanned, Hows
  <2>2. \A i \in 1..Len(said') : i \in 1..Len(said) \/ i = turn
    BY <1>1, <1>3
  <2> QED
    BY <1>3, <1>4, <2>1, <2>2 DEF RequestInv, DeliveredWereAccepted
<1>11. RecordsTellTurns'
  <2>1. \A i \in 1..Len(memory) :
           memory[i].role = "assistant" /\ memory[i].turn \in 1..Len(said') =>
              said'[memory[i].turn].how \in {"model", "direct", "materialized", "local", "lost"}
    <3> TAKE i \in 1..Len(memory)
    <3>1. CASE memory[i].turn = turn
      BY <1>3, <1>4, <3>1 DEF RequestInv, LinesAreInTime
    <3>2. CASE memory[i].turn # turn
      <4>1. memory[i].turn \in 1..Len(said') => memory[i].turn \in 1..Len(said)
        BY <1>1, <1>3, <3>2
      <4> QED
        BY <1>3, <4>1 DEF RequestInv, RecordsTellTurns
    <3> QED
      BY <3>1, <3>2
  <2>2. /\ Last(trace') = "completed" <=> how \in {"model", "direct", "materialized"}
        /\ Last(trace') = "failed" <=> how = "error"
    BY DEF RequestInv, TraceIsOpen
  <2> QED
    BY <1>3, <1>4, <2>1, <2>2 DEF RequestInv, RecordsTellTurns
<1> QED
  BY <1>6, <1>7, <1>8, <1>9, <1>10, <1>11 DEF RequestInv

\* A step within a turn keeps what is said, and the lines of the turn.
LEMMA TurnGoesOn ==
    ASSUME RequestInv, pc # "idle",
           pc' \in {"prepare", "engines", "answered", "validate", "act", "persist", "remember",
                    "remember reply", "complete"},
           UNCHANGED <<cloud, toggles, turn, memory, said>>,
           pc \in {"remember reply", "complete"} => pc' = "complete",
           plan' \in Plans, call' \in {"primary", "retry", "repair"}, presence' \in BOOLEAN,
           dry' \in BOOLEAN, repairs' \in 0..MaxRepairs, left' \in 0..MaxActions,
           result' \in [engine : Engines \cup {NotSet}, answer : Answers, live : BOOLEAN],
           acts' = acts \/ acts' = Append(acts, turn),
           trace' \in Seq(TraceStates), trace' # <<>>, Last(trace') \notin {"completed", "failed"},
           AnswersArePlanned'
    PROVE  RequestInv'
<1>1. turn \in 1..turn
  BY TurnHasBegun, Zenon
<1>2. acts' \in Seq(Nat) /\ \A i \in 1..Len(acts') : acts'[i] \in 1..turn
  BY <1>1, QueueGrows
<1>3. TypeOK' /\ Histories'
  BY <1>2 DEF RequestInv, TypeOK, Histories
<1>4. LinesAreInTime' /\ TraceIsOpen'
  BY DEF RequestInv, LinesAreInTime, TraceIsOpen
<1>5. DeliveredWereAccepted' /\ RecordsTellTurns'
  BY DEF RequestInv, DeliveredWereAccepted, RecordsTellTurns
<1> QED
  BY <1>3, <1>4, <1>5 DEF RequestInv

\* The invariant is inductive.
LEMMA RequestInduction == Spec => []RequestInv
<1>1. Init => RequestInv
  <2> SUFFICES ASSUME Init PROVE RequestInv
    OBVIOUS
  <2>1. TypeOK
    <3>1. /\ 0 \in 0..MaxToggles /\ 0 \in 0..MaxTurns /\ 0 \in 0..MaxRepairs /\ 0 \in 0..MaxActions
          /\ Len(<<>>) = 0
      BY ConstantsAssumption
    <3>2. NoResult \in [engine : Engines \cup {NotSet}, answer : Answers, live : BOOLEAN]
      BY DEF NoResult, Answers
    <3>3. \A i \in 1..Len(acts) : acts[i] \in 1..turn
      BY DEF Init
    <3>4. Len(said) = IF pc = "idle" THEN turn ELSE turn - 1
      BY DEF Init
    <3> QED
      BY <3>1, <3>2, <3>3, <3>4, Zenon DEF Init, TypeOK
  <2>2. Histories
    <3>1. /\ said \in Seq([how : Hows, answer : Answers])
          /\ memory \in Seq(Lines)
          /\ acts \in Seq(Nat)
      BY DEF Init
    <3>2. trace \in Seq(TraceStates) /\ Len(trace) = 1
      BY DEF Init, TraceStates
    <3>3. trace # <<>>
      BY <3>2
    <3> QED
      BY <3>1, <3>2, <3>3, Zenon DEF Histories
  <2>3. AnswersArePlanned /\ LinesAreInTime /\ TraceIsOpen
    BY DEF Init, AnswersArePlanned, LinesAreInTime, TraceIsOpen, NoResult
  <2>4. DeliveredWereAccepted /\ RecordsTellTurns
    BY DEF Init, DeliveredWereAccepted, RecordsTellTurns
  <2> QED
    BY <2>1, <2>2, <2>3, <2>4 DEF RequestInv
<1>2. RequestInv /\ [Next]_vars => RequestInv'
  <2> SUFFICES ASSUME RequestInv, [Next]_vars PROVE RequestInv'
    OBVIOUS
  <2> USE DEF controlVars, callVars, fileVars
  <2>1. /\ trace \in Seq(TraceStates) /\ trace # <<>> /\ presence \in BOOLEAN /\ dry \in BOOLEAN
        /\ pc \notin {"idle", "start"} => plan \in Plans
        /\ pc # "idle" => Last(trace) \notin {"completed", "failed"}
        /\ result \in [engine : Engines \cup {NotSet}, answer : Answers, live : BOOLEAN]
        /\ call \in {"primary", "retry", "repair"}
        /\ repairs \in 0..MaxRepairs /\ left \in 0..MaxActions
    BY DEF RequestInv, TypeOK, Histories, AnswersArePlanned, TraceIsOpen
  <2>2. \A s \in TraceStates : Enter(s) \in Seq(TraceStates) /\ Enter(s) # <<>> /\ Last(Enter(s)) = s
    BY EnterFacts DEF RequestInv
  <2>a. /\ Enter("failed") \in Seq(TraceStates) /\ Enter("failed") # <<>>
        /\ Last(Enter("failed")) = "failed" /\ "error" \in Hows
    <3>1. "failed" \in TraceStates /\ "error" \in Hows
      BY DEF Hows, TraceStates
    <3> QED
      BY <2>2, <3>1, Zenon
  <2>b. /\ Enter("executing") \in Seq(TraceStates) /\ Enter("executing") # <<>>
        /\ Last(Enter("executing")) = "executing"
    <3>1. "executing" \in TraceStates
      BY DEF TraceStates
    <3> QED
      BY <2>2, <3>1, Zenon
  <2>c. /\ Enter("action_pending") \in Seq(TraceStates) /\ Enter("action_pending") # <<>>
        /\ Last(Enter("action_pending")) = "action_pending"
    <3>1. "action_pending" \in TraceStates
      BY DEF TraceStates
    <3> QED
      BY <2>2, <3>1, Zenon
  <2>d. /\ Enter("completed") \in Seq(TraceStates) /\ Enter("completed") # <<>>
        /\ Last(Enter("completed")) = "completed"
    <3>1. "completed" \in TraceStates
      BY DEF TraceStates
    <3> QED
      BY <2>2, <3>1, Zenon
  <2>3. ASSUME Failed, pc \notin {"idle", "complete"}, UNCHANGED <<cloud, toggles, turn, memory, acts>>
        PROVE  RequestInv'
    <3>1. /\ End("error") /\ presence' \in BOOLEAN /\ trace' \in Seq(TraceStates) /\ trace' # <<>>
          /\ Last(trace') = "failed" /\ "error" \in Hows
      BY <2>1, <2>a, <2>3 DEF Failed
    <3> QED
      BY <2>3, <3>1, TurnEnds
  <2>4. CASE Toggle
    <3>1. cloud' \in BOOLEAN /\ toggles' \in 0..MaxToggles
      <4>1. /\ cloud' = ~cloud /\ toggles' = toggles + 1 /\ toggles < MaxToggles
            /\ cloud \in BOOLEAN /\ toggles \in 0..MaxToggles
        BY <2>4, Zenon DEF Toggle, RequestInv, TypeOK
      <4>2. MaxToggles \in Nat
        BY ConstantsAssumption
      <4> QED
        BY <4>1, <4>2
    <3>2. UNCHANGED <<turn, pc, plan, queue, call, presence, result, repairs, dry, left, trace,
                      acts, memory, saved, said>>
      BY <2>4 DEF Toggle
    <3>3. TypeOK' /\ Histories'
      BY <3>1, <3>2 DEF RequestInv, TypeOK, Histories
    <3> QED
      BY <3>2, <3>3 DEF RequestInv, AnswersArePlanned, LinesAreInTime, TraceIsOpen,
                        DeliveredWereAccepted, RecordsTellTurns
  <2>5. CASE Receive
    <3>1. /\ pc = "idle" /\ pc' = "start" /\ turn' = turn + 1 /\ trace' = <<"received">>
          /\ UNCHANGED <<cloud, toggles, plan, queue, call, presence, result, repairs, dry, left,
                         acts, memory, saved, said>>
      BY <2>5 DEF Receive
    <3>2. turn \in Nat /\ turn' \in 0..MaxTurns /\ Len(said) = turn
      <4>1. turn \in 0..MaxTurns /\ turn < MaxTurns /\ Len(said) = turn
        BY <2>5, Zenon DEF Receive, RequestInv, TypeOK
      <4>2. MaxTurns \in Nat
        BY ConstantsAssumption
      <4> QED
        BY <3>1, <4>1, <4>2
    <3>3. \A i \in 1..Len(acts') : acts'[i] \in 1..turn'
      <4>1. \A i \in 1..Len(acts) : acts[i] \in 1..turn
        BY DEF RequestInv, TypeOK
      <4> QED
        BY <3>1, <3>2, <4>1
    <3>4. Len(said') = turn' - 1
      BY <3>1, <3>2
    <3>5. TypeOK'
      BY <3>1, <3>2, <3>3, <3>4 DEF RequestInv, TypeOK
    <3>6. Histories' /\ TraceIsOpen'
      <4>1. trace' \in Seq(TraceStates) /\ trace' # <<>> /\ Last(trace') = "received"
        BY <3>1 DEF TraceStates, Last
      <4> QED
        BY <3>1, <4>1 DEF RequestInv, Histories, TraceIsOpen
    <3>7. AnswersArePlanned'
      BY <3>1 DEF RequestInv, AnswersArePlanned
    <3>8. LinesAreInTime'
      <4> SUFFICES ASSUME NEW i \in 1..Len(memory)
                   PROVE  memory[i].turn \in 1..turn' /\ memory[i].turn # turn'
        BY <3>1 DEF LinesAreInTime
      <4>1. memory[i].turn \in 1..turn
        BY DEF RequestInv, LinesAreInTime
      <4> QED
        BY <3>1, <3>2, <4>1
    <3>9. DeliveredWereAccepted' /\ RecordsTellTurns'
      BY <3>1 DEF RequestInv, DeliveredWereAccepted, RecordsTellTurns
    <3> QED
      BY <3>5, <3>6, <3>7, <3>8, <3>9 DEF RequestInv
  <2>6. CASE EmptyMessage
    <3>1. End("blank") /\ "blank" \in Hows
      BY <2>6 DEF EmptyMessage, Hows
    <3> QED
      BY <2>1, <2>6, <3>1, TurnEnds DEF EmptyMessage
  <2>7. CASE HandlerRaises
    <3>1. End("raised") /\ "raised" \in Hows
      BY <2>7 DEF HandlerRaises, Hows
    <3> QED
      BY <2>1, <2>7, <3>1, TurnEnds DEF HandlerRaises
  <2>8. CASE LocalWorkflow
    <3>1. /\ plan' \in Plans /\ plan'.kind = "local"
          /\ result' \in [engine : Engines \cup {NotSet}, answer : Answers, live : BOOLEAN]
          /\ result'.live /\ result'.answer = "text" /\ ~dry
      BY <2>8 DEF LocalWorkflow, Plans, NoPlan, OwnResult, NoResult, Answers, RequestInv,
                  AnswersArePlanned
    <3>2. AnswersArePlanned'
      BY <2>8, <3>1 DEF LocalWorkflow, AnswersArePlanned, ModelKinds, ArtifactKinds
    <3> QED
      BY <2>1, <2>8, <3>1, <3>2, TurnGoesOn DEF LocalWorkflow
  <2>9. ASSUME NEW p \in Plans, PlanTurn(p) PROVE RequestInv'
    <3>1. ~dry
      BY <2>9 DEF PlanTurn, RequestInv, AnswersArePlanned
    <3>2. /\ result' \in [engine : Engines \cup {NotSet}, answer : Answers, live : BOOLEAN]
          /\ result'.live /\ result'.answer \notin {"broken", "meta"}
      BY <2>9 DEF PlanTurn, OwnResult, NoResult, Answers
    <3>3. /\ trace' \in Seq(TraceStates) /\ trace' # <<>> /\ Last(trace') = "planned"
      <4>1. trace' = trace \o <<"routed", "context_resolved", "planned">>
        BY <2>9 DEF PlanTurn
      <4>2. trace' \in Seq(TraceStates) /\ Len(trace) \in Nat /\ Len(trace') = Len(trace) + 3
        BY <2>1, <4>1 DEF TraceStates
      <4>3. \A s \in Seq(TraceStates) :
               (s \o <<"routed", "context_resolved", "planned">>)[Len(s) + 3] = "planned"
        BY DEF TraceStates
      <4>4. trace'[Len(trace) + 3] = "planned"
        BY <2>1, <4>1, <4>3
      <4> QED
        BY <4>2, <4>4 DEF Last
    <3>4. /\ plan' = p /\ pc' = IF p.kind \in ModelKinds THEN "prepare" ELSE "persist"
          /\ pc = "start" /\ UNCHANGED <<cloud, toggles, turn, call, presence, dry, repairs, left,
                                         acts, memory, said>>
      BY <2>9 DEF PlanTurn
    <3>5. AnswersArePlanned'
      BY <3>1, <3>2, <3>4, <2>9 DEF AnswersArePlanned
    <3> QED
      BY <2>1, <2>9, <3>2, <3>3, <3>4, <3>5, TurnGoesOn
  <2>10. CASE PlanFails
    BY <2>3, <2>10 DEF PlanFails
  <2>11. CASE Prepare
    <3>1. CASE Failed
      BY <2>3, <2>11, <3>1 DEF Prepare
    <3>2. CASE /\ Call(plan.route, "primary")
               /\ UNCHANGED <<plan, presence, result, dry, repairs, left, trace, said>>
      <4>1. /\ pc = "prepare" /\ pc' = "engines" /\ call' = "primary"
            /\ UNCHANGED <<cloud, toggles, turn, plan, presence, result, dry, repairs, left, trace,
                           acts, memory, saved, said>>
        BY <2>11, <3>2 DEF Prepare, Call
      <4>2. AnswersArePlanned'
        BY <4>1 DEF RequestInv, AnswersArePlanned
      <4> QED
        BY <2>1, <4>1, <4>2, TurnGoesOn
    <3> QED
      BY <2>11, <3>1, <3>2 DEF Prepare
  <2>12. CASE UnknownEngine
    <3>1. AnswersArePlanned'
      BY <2>12 DEF UnknownEngine, RequestInv, AnswersArePlanned
    <3> QED
      BY <2>1, <2>12, <3>1, TurnGoesOn DEF UnknownEngine
  <2>13. CASE EngineFails
    <3>1. AnswersArePlanned'
      BY <2>13 DEF EngineFails, RequestInv, AnswersArePlanned
    <3> QED
      BY <2>1, <2>b, <2>13, <3>1, TurnGoesOn DEF EngineFails
  <2>14. CASE EngineAnswers
    <3>1. PICK a \in Answers, blocked \in BOOLEAN :
             /\ result' = [engine |-> Head(queue), answer |-> a, live |-> ~blocked]
             /\ blocked => a = "notice"
             /\ Head(queue) \in Engines
      BY <2>14 DEF EngineAnswers, Known, Answers
    <3>2. /\ result' \in [engine : Engines \cup {NotSet}, answer : Answers, live : BOOLEAN]
          /\ ~result'.live => result'.answer = "notice"
      BY <3>1
    <3>3. ~dry
      BY <2>14 DEF EngineAnswers, RequestInv, AnswersArePlanned
    <3>4. AnswersArePlanned'
      BY <2>14, <3>2, <3>3 DEF EngineAnswers, RequestInv, AnswersArePlanned
    <3> QED
      BY <2>1, <2>b, <2>14, <3>2, <3>4, TurnGoesOn DEF EngineAnswers
  <2>15. CASE AllFailed
    <3>1. /\ End("error") /\ presence' \in BOOLEAN /\ trace' \in Seq(TraceStates) /\ trace' # <<>>
          /\ Last(trace') = "failed" /\ "error" \in Hows
      BY <2>1, <2>a, <2>15 DEF AllFailed
    <3> QED
      BY <2>15, <3>1, TurnEnds DEF AllFailed
  <2>16. CASE Answered
    <3>1. /\ pc = "answered" /\ pc' \in {"engines", "validate"}
          /\ call' \in {"primary", "retry", "repair"} /\ dry' \in BOOLEAN
          /\ dry' => pc' = "validate" /\ ~result.live
          /\ UNCHANGED <<cloud, toggles, turn, plan, presence, result, repairs, left, trace,
                         acts, memory, saved, said>>
      BY <2>1, <2>16 DEF Answered, Call, DryRun, RequestInv, AnswersArePlanned
    <3>2. AnswersArePlanned'
      BY <3>1 DEF RequestInv, AnswersArePlanned
    <3> QED
      BY <2>1, <3>1, <3>2, TurnGoesOn
  <2>17. CASE Accept
    <3>1. /\ pc = "validate" /\ pc' = "act"
          /\ dry \/ (result.answer # "meta" /\ ~Rejected(result.answer))
          /\ left' \in ActionCounts(result.answer)
          /\ UNCHANGED <<cloud, toggles, turn, plan, queue, call, presence, result, repairs, dry,
                         trace, acts, memory, saved, said>>
      BY <2>17 DEF Accept
    <3>2. left' \in 0..MaxActions
      BY <3>1, ConstantsAssumption DEF ActionCounts
    <3>3. result.answer \notin {"broken", "meta"}
      BY <3>1 DEF Rejected, RequestInv, AnswersArePlanned
    <3>4. AnswersArePlanned'
      BY <3>1, <3>3 DEF RequestInv, AnswersArePlanned
    <3> QED
      BY <2>1, <3>1, <3>2, <3>4, TurnGoesOn
  <2>18. CASE RejectMeta
    BY <2>3, <2>18 DEF RejectMeta
  <2>19. CASE Repair
    <3>1. /\ pc = "validate" /\ pc' = "engines" /\ ~dry /\ call' = "repair"
          /\ repairs < MaxRepairs /\ repairs' = repairs + 1
          /\ UNCHANGED <<cloud, toggles, turn, plan, presence, result, dry, left, trace,
                         acts, memory, saved, said>>
      BY <2>19 DEF Repair, Call
    <3>2. repairs' \in 0..MaxRepairs
      BY <2>1, <3>1, ConstantsAssumption
    <3>3. AnswersArePlanned'
      BY <3>1 DEF RequestInv, AnswersArePlanned
    <3> QED
      BY <2>1, <3>1, <3>2, <3>3, TurnGoesOn
  <2>20. CASE RepairsExhausted
    BY <2>3, <2>20 DEF RepairsExhausted
  <2>21. CASE QueueAction
    <3>1. pc = "act" /\ left > 0 /\ UNCHANGED <<cloud, toggles, turn, memory, saved>>
      BY <2>21 DEF QueueAction
    <3>2. CASE Failed /\ UNCHANGED acts
      BY <2>3, <3>1, <3>2
    <3>3. CASE /\ acts' = Append(acts, turn)
               /\ left' = left - 1
               /\ trace' = Enter("action_pending")
               /\ UNCHANGED <<pc, plan, callVars, dry, said>>
      <4>1. left' \in 0..MaxActions
        BY <2>1, <3>1, <3>3, ConstantsAssumption
      <4>2. AnswersArePlanned'
        BY <3>3 DEF RequestInv, AnswersArePlanned
      <4> QED
        BY <2>1, <2>c, <3>1, <3>3, <4>1, <4>2, TurnGoesOn
    <3>4. CASE /\ acts' = Append(acts, turn)
               /\ End("error")
               /\ presence' = presence
               /\ trace' = Enter("action_pending") \o <<"failed">>
      <4>1. trace' \in Seq(TraceStates) /\ trace' # <<>> /\ Last(trace') = "failed"
        <5> DEFINE s == Enter("action_pending")
        <5>1. s \in Seq(TraceStates) /\ trace' = s \o <<"failed">>
          BY <2>c, <3>4
        <5> HIDE DEF s
        <5>2. /\ trace' \in Seq(TraceStates) /\ Len(s) \in Nat /\ Len(trace') = Len(s) + 1
              /\ trace'[Len(s) + 1] = "failed"
          BY <5>1 DEF TraceStates
        <5> QED
          BY <5>2 DEF Last
      <4> QED
        BY <2>1, <2>a, <3>1, <3>4, <4>1, TurnEnds
    <3> QED
      BY <2>21, <3>2, <3>3, <3>4 DEF QueueAction
  <2>22. CASE ActionsQueued
    <3>1. AnswersArePlanned'
      BY <2>22 DEF ActionsQueued, RequestInv, AnswersArePlanned
    <3> QED
      BY <2>1, <2>22, <3>1, TurnGoesOn DEF ActionsQueued
  <2>23. CASE Persist
    <3>1. pc = "persist" /\ UNCHANGED <<cloud, toggles, turn, acts, memory>>
      BY <2>23 DEF Persist
    <3>2. CASE Failed
      BY <2>3, <3>1, <3>2
    <3>3. CASE pc' = "remember" /\ UNCHANGED <<plan, callVars, dry, left, trace, said>>
      <4>1. AnswersArePlanned'
        BY <3>1, <3>3 DEF RequestInv, AnswersArePlanned
      <4> QED
        BY <2>1, <3>1, <3>3, <4>1, TurnGoesOn
    <3> QED
      BY <2>23, <3>2, <3>3 DEF Persist
  <2>24. ASSUME NEW at, NEW role, NEW then, RememberLine(at, role, then),
                \/ at = "remember" /\ role = "user" /\ then = "remember reply"
                \/ at = "remember reply" /\ role = "assistant" /\ then = "complete"
         PROVE  RequestInv'
    <3>1. /\ pc = at /\ UNCHANGED <<cloud, toggles, turn, acts, saved>>
          /\ ~dry
      BY <2>24 DEF RememberLine, RequestInv, AnswersArePlanned
    <3>2. CASE MemoryFails /\ UNCHANGED memory
      <4>1. CASE plan.kind = "local"
        <5>1. pc' = "complete" /\ UNCHANGED <<plan, callVars, dry, left, trace, said>>
          BY <3>2, <4>1 DEF MemoryFails
        <5>2. AnswersArePlanned'
          BY <2>24, <3>1, <5>1 DEF RequestInv, AnswersArePlanned
        <5> QED
          BY <2>1, <2>24, <3>1, <3>2, <5>1, <5>2, TurnGoesOn
      <4>2. CASE plan.kind # "local"
        BY <2>3, <2>24, <3>1, <3>2, <4>2 DEF MemoryFails
      <4> QED
        BY <4>1, <4>2
    <3>3. CASE /\ memory' = Append(memory, Line(role)) /\ pc' = then
               /\ UNCHANGED <<plan, callVars, dry, left, trace, said>>
      <4>1. /\ turn \in Nat /\ turn \in 1..turn /\ Len(said) \in Nat /\ Len(said) = turn - 1
        BY <2>24, <3>1, TurnHasBegun
      <4>2. Line(role) \in Lines
        BY <2>1, <2>24, <4>1 DEF Line, Lines
      <4>3. /\ memory' \in Seq(Lines)
            /\ Len(memory) \in Nat /\ Len(memory') = Len(memory) + 1
            /\ memory'[Len(memory) + 1] = Line(role)
            /\ \A i \in 1..Len(memory) :
                  /\ memory[i] \in Lines
                  /\ memory'[i] = memory[i]
        <5>1. memory \in Seq(Lines)
          BY DEF RequestInv, Histories
        <5>2. memory' = Append(memory, Line(role))
          BY <3>3
        <5>3. /\ memory' \in Seq(Lines)
              /\ Len(memory) \in Nat /\ Len(memory') = Len(memory) + 1
              /\ memory'[Len(memory) + 1] = Line(role)
              /\ \A i \in 1..Len(memory) : memory'[i] = memory[i]
          BY <4>2, <5>1, <5>2, AppendFacts
        <5>4. \A i \in 1..Len(memory) :
                 memory[i] \in Lines
          BY <5>1
        <5> QED
          BY <5>3, <5>4, Zenon
      <4>4. Line(role).turn = turn /\ Line(role).role = role
        BY DEF Line
      <4>5. \A i \in 1..Len(memory') : i \in 1..Len(memory) \/ i = Len(memory) + 1
        BY <4>3
      <4>6. UNCHANGED <<cloud, toggles, turn, plan, queue, call, presence, result, repairs, dry,
                        left, trace, acts, said>>
        BY <3>1, <3>3
      <4>7. TypeOK' /\ Histories'
        BY <2>24, <3>1, <3>3, <4>3, <4>6 DEF RequestInv, TypeOK, Histories
      <4>8. AnswersArePlanned' /\ TraceIsOpen' /\ DeliveredWereAccepted'
        <5>1. AnswersArePlanned'
          <6>1. /\ pc \in {"remember", "remember reply"}
                /\ pc' \in {"remember reply", "complete"} /\ ~dry
                /\ UNCHANGED <<plan, result, dry>>
            BY <2>24, <3>1, <3>3
          <6> QED
            BY <6>1 DEF RequestInv, AnswersArePlanned
        <5> QED
          BY <2>24, <3>1, <3>3, <4>6, <5>1 DEF RequestInv, TraceIsOpen, DeliveredWereAccepted
      <4>9. LinesAreInTime'
        <5>1. ASSUME NEW i \in 1..Len(memory)
              PROVE  /\ memory[i].turn \in 1..turn
                     /\ memory[i].turn = turn /\ memory[i].role = "user" =>
                           pc' \in {"remember reply", "complete", "idle"}
                     /\ memory[i].turn = turn /\ memory[i].role = "assistant" =>
                           pc' \in {"complete", "idle"}
          BY <2>24, <3>1, <3>3 DEF RequestInv, LinesAreInTime
        <5> QED
          BY <2>24, <3>3, <4>1, <4>3, <4>4, <4>5, <4>6, <5>1 DEF LinesAreInTime
      <4>10. \A i, j \in 1..Len(memory') : i < j =>
                \/ memory'[i].turn < memory'[j].turn
                \/ /\ memory'[i].turn = memory'[j].turn
                   /\ memory'[i].role = "user" /\ memory'[j].role = "assistant"
        <5> SUFFICES ASSUME NEW i \in 1..Len(memory'), NEW j \in 1..Len(memory'), i < j
                     PROVE  \/ memory'[i].turn < memory'[j].turn
                            \/ /\ memory'[i].turn = memory'[j].turn
                               /\ memory'[i].role = "user" /\ memory'[j].role = "assistant"
          OBVIOUS
        <5>1. i \in 1..Len(memory)
          BY <4>3
        <5>2. CASE j \in 1..Len(memory)
          BY <4>3, <5>1, <5>2 DEF RequestInv, RecordsTellTurns
        <5>3. CASE j = Len(memory) + 1
          <6>1. memory'[j].turn = turn /\ memory'[j].role = role /\ memory'[i] = memory[i]
            BY <4>3, <4>4, <5>1, <5>3
          <6>2. CASE memory[i].turn = turn
            <7>1. memory[i].role = "user" /\ role = "assistant"
              <8>1. memory[i].role \in {"user", "assistant"}
                BY <4>3, <5>1 DEF Lines
              <8> QED
                BY <2>24, <3>1, <5>1, <6>2, <8>1 DEF RequestInv, LinesAreInTime
            <7> QED
              BY <6>1, <6>2, <7>1
          <6>3. CASE memory[i].turn # turn
            <7>1. memory[i].turn \in 1..turn
              BY <5>1 DEF RequestInv, LinesAreInTime
            <7> QED
              BY <4>1, <6>1, <6>3, <7>1
          <6> QED
            BY <6>2, <6>3
        <5> QED
          BY <4>5, <5>2, <5>3
      <4>11. \A i \in 1..Len(memory') :
                memory'[i].role = "assistant" /\ memory'[i].turn \in 1..Len(said) =>
                   said[memory'[i].turn].how \in
                      {"model", "direct", "materialized", "local", "lost"}
        BY <4>1, <4>3, <4>4, <4>5 DEF RequestInv, RecordsTellTurns
      <4>12. pc' # "idle"
        BY <2>24, <3>3
      <4>13. RecordsTellTurns'
        BY <4>6, <4>10, <4>11, <4>12 DEF RecordsTellTurns
      <4> QED
        BY <4>7, <4>8, <4>9, <4>13 DEF RequestInv
    <3> QED
      BY <2>24, <3>2, <3>3 DEF RememberLine
  <2>25. CASE Complete
    <3>1. plan \in Plans /\ pc = "complete" /\ UNCHANGED <<cloud, toggles, turn, presence, acts, memory>>
      BY <2>1, <2>25 DEF Complete
    <3>2. CASE plan.kind \in ModelKinds
      <4>1. End("model") /\ "model" \in Hows /\ trace' = Enter("completed")
        BY <2>25, <3>2 DEF Complete, Hows, ModelKinds, ArtifactKinds
      <4> QED
        BY <2>1, <2>d, <3>1, <3>2, <4>1, TurnEnds
    <3>3. CASE plan.kind \notin ModelKinds
      <4>1. plan.kind \in {"local", "direct", "materialized"}
        BY <3>1, <3>3 DEF Plans, ModelKinds, ArtifactKinds
      <4>2. /\ End(plan.kind) /\ plan.kind \in Hows
            /\ trace' = IF plan.kind = "local" THEN trace ELSE Enter("completed")
        BY <2>25, <3>3, <4>1 DEF Complete, Hows
      <4> QED
        BY <2>1, <2>d, <3>1, <4>1, <4>2, TurnEnds
    <3> QED
      BY <3>2, <3>3
  <2>26. CASE Crash
    <3>1. End("lost") /\ "lost" \in Hows /\ presence' \in BOOLEAN
      BY <2>26 DEF Crash, Hows
    <3> QED
      BY <2>1, <2>26, <3>1, TurnEnds DEF Crash
  <2>27. CASE UNCHANGED vars
    <3>1. UNCHANGED <<cloud, toggles, turn, pc, plan, queue, call, presence, result, repairs, dry,
                      left, trace, acts, memory, saved, said>>
      BY <2>27 DEF vars
    <3>2. TypeOK' /\ Histories'
      BY <3>1 DEF RequestInv, TypeOK, Histories
    <3> QED
      BY <3>1, <3>2 DEF RequestInv, AnswersArePlanned, LinesAreInTime, TraceIsOpen,
                        DeliveredWereAccepted, RecordsTellTurns
  <2>28. CASE Remember
    BY <2>24, <2>28 DEF Remember
  <2>29. CASE Advance
    BY <2>6, <2>7, <2>8, <2>9, <2>10, <2>11, <2>12, <2>13, <2>14, <2>15, <2>16, <2>17, <2>18,
       <2>19, <2>20, <2>21, <2>22, <2>23, <2>25, <2>28, <2>29, Zenon DEF Advance
  <2> QED
    BY <2>4, <2>5, <2>26, <2>27, <2>29, Zenon DEF Next
<1> QED
  BY <1>1, <1>2, PTL DEF Spec

--------------------------------------------------------------------------------
\* The variables keep their types: the turns, repairs and actions their bounds,
\* and the action queue only records of turns that have begun.
THEOREM TypeCorrect == Spec => []TypeOK
<1>1. RequestInv => TypeOK
  BY DEF RequestInv
<1> QED
  BY <1>1, RequestInduction, PTL

\* What a model is reported to have said kept its contract and did what was
\* asked, whatever the fallbacks, retries and repairs (validate_runtime_response).
THEOREM DeliveredAnswersWereAccepted == Spec => []DeliveredWereAccepted
<1>1. RequestInv => DeliveredWereAccepted
  BY DEF RequestInv
<1> QED
  BY <1>1, RequestInduction, PTL

\* The memory has the turns in their order and no reply that was not given, and
\* the trace tells how the turn ended (run_request).
THEOREM RecordsTellHowTurnsEnded == Spec => []RecordsTellTurns
<1>1. RequestInv => RecordsTellTurns
  BY DEF RequestInv
<1> QED
  BY <1>1, RequestInduction, PTL

================================================================================

-------------------------- MODULE ActionQueue_proofs --------------------------
(***************************************************************************)
(* The action queue, for every set of bots, actions and policies: its      *)
(* invariants, by induction.  What makes them inductive is what holds of   *)
(* the copy of the queue that the keeper has read and is about to write    *)
(* back (ReadIsSound), and of the action that a bot is asking about        *)
(* (BotsAskOnce).                                                          *)
(***************************************************************************)
EXTENDS ActionQueue, TLAPS

\* The copy that the keeper writes back has every action that was ever read,
\* with its last status; what it adds is the outcome of a tool that ended.
ReadIsSound ==
    /\ keeper.at = "replace" =>
          /\ seen \subseteq Listed(keeper.read)
          /\ \A a \in Listed(keeper.read) : keeper.read[a] = written[a]
          /\ \A a \in Ids : Told(a, keeper.read[a])
    /\ keeper.at \in {"load", "replace"} => Told(keeper.id, keeper.status)

\* Only what was read has been written, and only what was issued is listed.
UnseenAreFresh ==
    /\ \A a \in Ids \ seen : written[a] = "pending"
    /\ Listed(file) \subseteq issued

QueuePromises == SeenNeverLost /\ StatusesNeverReverted /\ StatusesTellOutcomes

QueueInv ==
    /\ QueuePromises
    /\ ReadIsSound
    /\ UnseenAreFresh
    /\ keeper.at = "replace" => keeper.id \in Listed(keeper.read)
    /\ keeper.at = "replace" => Listed(keeper.read) \subseteq seen

Busy(b) == bot[b].at \in {"queued", "asking"}

\* No two bots are busy with the same action, and the one that is has not yet
\* said whether the owner is asked.
BotsAskOnce ==
    /\ \A b \in Bots : Busy(b) =>
          /\ bot[b].id \in issued \ asked
          /\ bot[b].id \notin muted
    /\ \A b, c \in Bots : Busy(b) /\ Busy(c) /\ bot[b].id = bot[c].id => b = c

AskInv == AskedOrMuted /\ BotsAskOnce /\ asked \cup muted \subseteq issued

--------------------------------------------------------------------------------
\* The variables keep their types (TypeOK).
THEOREM TypeCorrect == Spec => []TypeOK
<1>1. Init => TypeOK
  <2> SUFFICES ASSUME Init
               PROVE  TypeOK
    OBVIOUS
  <2>1. file \in Files /\ torn \in BOOLEAN /\ written \in [Ids -> Statuses]
    BY DEF Init, Files, Statuses
  <2>2. policies \in [Policies -> {"absent", "valid", "revoked", "expired"}]
    BY DEF Init
  <2>3. bot \in [Bots -> BotStates] /\ keeper \in KeeperStates
    BY DEF Init, BotStates, KeeperStates, Idle
  <2>4. restarts \in [Services -> 0..MaxRestarts]
    BY ConstantsAssumption DEF Init
  <2>5. outcome \in [Ids -> SUBSET BOOLEAN]
    BY Zenon DEF Init
  <2> QED
    BY <2>1, <2>2, <2>3, <2>4, <2>5 DEF Init, TypeOK
<1>2. TypeOK /\ [Next]_vars => TypeOK'
  <2> SUFFICES ASSUME TypeOK, [Next]_vars
               PROVE  TypeOK'
    OBVIOUS
  <2> USE ConstantsAssumption DEF TypeOK, Files, Statuses, Listed
  <2>1. ASSUME NEW b \in Bots, BotStep(b)
        PROVE  TypeOK'
    <3> USE DEF BotStates, fileVars, historyVars
    <3>1. ASSUME NEW a \in Ids, Enqueue(b, a)
          PROVE  TypeOK'
      BY <3>1 DEF Enqueue
    <3>2. ASSUME NEW a \in Ids, BotEndsWriting(b, a)
          PROVE  TypeOK'
      BY <3>2 DEF BotEndsWriting, Down
    <3>3. CASE NeedsNoApproval(b)
      BY <3>3 DEF NeedsNoApproval, Idle
    <3>4. CASE Evaluate(b)
      BY <3>4 DEF Evaluate, Idle
    <3>5. CASE NotifyOwner(b)
      BY <3>5 DEF NotifyOwner, Idle
    <3>6. CASE BotEnds(b)
      BY <3>6 DEF BotEnds, Down
    <3>7. CASE RestartBot(b)
      BY <3>7 DEF RestartBot, Idle, Services
    <3> QED
      BY <2>1, <3>1, <3>2, <3>3, <3>4, <3>5, <3>6, <3>7 DEF BotStep
  <2>2. ASSUME KeeperStep
        PROVE  TypeOK'
    <3> USE DEF KeeperStates, fileVars, processVars, historyVars
    <3>1. ASSUME NEW a \in Ids, ExecuteAction(a)
          PROVE  TypeOK'
      BY <3>1 DEF ExecuteAction, ReadQueue
    <3>2. ASSUME NEW a \in Ids, NEW d \in Decisions, Decide(a, d)
          PROVE  TypeOK'
      BY <3>2 DEF Decide
    <3>3. ASSUME NEW ok \in BOOLEAN, ToolEnds(ok)
          PROVE  TypeOK'
      BY <3>3 DEF ToolEnds, ResultOf, Results
    <3>4. CASE ToolRaises
      BY <3>4 DEF ToolRaises, Idle
    <3>5. CASE LoadQueue
      BY <3>5 DEF LoadQueue, ReadQueue, Idle
    <3>6. CASE ReplaceQueue
      BY <3>6 DEF ReplaceQueue, Idle
    <3>7. ASSUME NEW p \in Policies, CreatePolicy(p) \/ RevokePolicy(p) \/ ExpirePolicy(p)
          PROVE  TypeOK'
      BY <3>7 DEF CreatePolicy, RevokePolicy, ExpirePolicy
    <3>8. CASE KeeperEnds
      BY <3>8 DEF KeeperEnds, Down
    <3>9. CASE RestartKeeper
      BY <3>9 DEF RestartKeeper, Idle, Services
    <3> QED
      BY <2>2, <3>1, <3>2, <3>3, <3>4, <3>5, <3>6, <3>7, <3>8, <3>9 DEF KeeperStep
  <2>3. CASE UNCHANGED vars
    BY <2>3 DEF vars, fileVars, processVars, historyVars
  <2> QED
    BY <2>1, <2>2, <2>3 DEF Next
<1> QED
  BY <1>1, <1>2, PTL DEF Spec

\* A step of a bot leaves the queue sound: it adds an action that no one has
\* read, and nothing that the keeper holds.
LEMMA BotStepsKeepQueue ==
  ASSUME TypeOK, QueueInv, NEW b \in Bots, BotStep(b)
  PROVE  QueueInv'
<1> USE DEF TypeOK, QueueInv, QueuePromises, fileVars, historyVars
<1>1. ASSUME NEW a \in Ids, Enqueue(b, a)
      PROVE  QueueInv'
  <2>1. /\ UNCHANGED <<keeper, seen, written, outcome>>
        /\ issued' = issued \cup {a}
        /\ file' = file \/ file' = [file EXCEPT ![a] = "pending"]
    BY <1>1 DEF Enqueue
  <2>2. a \notin issued /\ written[a] = "pending"
    BY <1>1 DEF Enqueue, SeenNeverLost, UnseenAreFresh, Listed
  <2>3. SeenNeverLost' /\ StatusesNeverReverted' /\ UnseenAreFresh'
    BY <2>1, <2>2 DEF SeenNeverLost, StatusesNeverReverted, UnseenAreFresh, Listed, Files
  <2>4. StatusesTellOutcomes'
    BY <2>1 DEF StatusesTellOutcomes, Told, Files
  <2>5. ReadIsSound'
    BY <2>1 DEF ReadIsSound, Told, Listed
  <2> QED
    BY <2>1, <2>3, <2>4, <2>5 DEF Listed
<1>2. ASSUME NEW a \in Ids, BotEndsWriting(b, a)
      PROVE  QueueInv'
  BY <1>2 DEF BotEndsWriting, SeenNeverLost, StatusesNeverReverted, StatusesTellOutcomes,
     ReadIsSound, UnseenAreFresh, Told, Listed
<1>3. CASE UNCHANGED <<file, keeper, issued, seen, written, outcome>>
  BY <1>3 DEF SeenNeverLost, StatusesNeverReverted, StatusesTellOutcomes, ReadIsSound,
     UnseenAreFresh, Told, Listed
<1> QED
  BY <1>1, <1>2, <1>3 DEF BotStep, NeedsNoApproval, Evaluate, NotifyOwner, BotEnds, RestartBot

\* A step of the keeper leaves the queue sound: what it writes back is what it
\* has read, which no one but the keeper can have changed since.
LEMMA KeeperStepsKeepQueue ==
  ASSUME TypeOK, QueueInv, KeeperStep
  PROVE  QueueInv'
<1> USE DEF TypeOK, QueueInv, QueuePromises, fileVars, processVars, historyVars
<1> DEFINE Kept == UNCHANGED <<file, issued, written, outcome>>
           Sound == QueuePromises /\ UnseenAreFresh
<1>1. ASSUME Kept, seen' = seen \/ seen' = seen \cup Listed(file)
      PROVE  Sound'
  BY <1>1 DEF SeenNeverLost, StatusesNeverReverted, StatusesTellOutcomes, UnseenAreFresh,
     Told, Listed
<1>2. ASSUME Kept, UNCHANGED seen, keeper'.at \in {"idle", "down"}
      PROVE  QueueInv'
  BY <1>1, <1>2 DEF ReadIsSound
<1>3. ASSUME NEW a \in Ids, ExecuteAction(a)
      PROVE  QueueInv'
  <2>1. Kept /\ keeper'.at = "tool" /\ seen' = seen \cup Listed(file)
    BY <1>3 DEF ExecuteAction, ReadQueue
  <2> QED
    BY <2>1, <1>1 DEF ReadIsSound
<1>4. ASSUME NEW a \in Ids, NEW d \in Decisions, Decide(a, d)
      PROVE  QueueInv'
  <2>1. Kept /\ UNCHANGED seen /\ keeper' = [at |-> "load", id |-> a, status |-> d]
    BY <1>4 DEF Decide
  <2>2. ReadIsSound'
    BY <2>1 DEF ReadIsSound, Told, Decisions
  <2> QED
    BY <2>1, <2>2, <1>1
<1>5. ASSUME NEW ok \in BOOLEAN, ToolEnds(ok)
      PROVE  QueueInv'
  <2>1. /\ UNCHANGED <<file, issued, seen, written>>
        /\ keeper.id \in Ids
        /\ outcome' = [outcome EXCEPT ![keeper.id] = @ \cup {ok}]
        /\ keeper' = [at |-> "load", id |-> keeper.id, status |-> ResultOf(ok)]
    BY <1>5 DEF ToolEnds, KeeperStates
  <2>2. StatusesTellOutcomes'
    <3> SUFFICES ASSUME NEW a \in Ids
                 PROVE  Told(a, file[a])'
      BY <2>1 DEF StatusesTellOutcomes
    <3>1. outcome[a] \subseteq outcome'[a]
      BY <2>1
    <3> QED
      BY <3>1, <2>1 DEF StatusesTellOutcomes, Told
  <2>3. SeenNeverLost' /\ StatusesNeverReverted' /\ UnseenAreFresh'
    BY <2>1 DEF SeenNeverLost, StatusesNeverReverted, UnseenAreFresh, Listed
  <2>4. ok \in outcome'[keeper.id] /\ keeper'.id = keeper.id /\ keeper'.status = ResultOf(ok)
    BY <2>1
  <2>5. ReadIsSound'
    BY <2>1, <2>4 DEF ReadIsSound, Told, ResultOf
  <2> QED
    BY <2>1, <2>2, <2>3, <2>5
<1>6. CASE LoadQueue
  <2>1. Kept /\ seen' = seen \cup Listed(file)
    BY <1>6 DEF LoadQueue, ReadQueue
  <2>2. CASE keeper.id \in Listed(file)
    <3>1. /\ keeper.at = "load"
          /\ keeper' = [at |-> "replace", id |-> keeper.id, status |-> keeper.status,
                        read |-> file]
      BY <1>6, <2>2 DEF LoadQueue, ReadQueue
    <3>2. seen' \subseteq Listed(file) /\ Listed(file) \subseteq seen'
      BY <2>1 DEF SeenNeverLost
    <3>3. /\ keeper'.at = "replace" /\ keeper'.id = keeper.id
          /\ keeper'.status = keeper.status /\ keeper'.read = file
      BY <3>1
    <3>4. ReadIsSound'
      BY <2>1, <3>1, <3>2, <3>3 DEF ReadIsSound, StatusesNeverReverted, StatusesTellOutcomes,
         Told, Listed
    <3> QED
      BY <1>1, <2>1, <2>2, <3>2, <3>3, <3>4 DEF Listed
  <2>3. CASE keeper.id \notin Listed(file)
    BY <1>1, <1>6, <2>1, <2>3 DEF LoadQueue, ReadQueue, Idle, ReadIsSound
  <2> QED
    BY <2>2, <2>3
<1>7. CASE ReplaceQueue
  <2> DEFINE k == keeper.id
  <2>1. /\ UNCHANGED <<issued, seen, outcome>> /\ keeper'.at = "idle"
        /\ file' = [keeper.read EXCEPT ![k] = keeper.status]
        /\ written' = [written EXCEPT ![k] = keeper.status]
    BY <1>7 DEF ReplaceQueue, Idle
  <2>2. /\ keeper.at = "replace" /\ k \in Ids /\ keeper.read \in Files
        /\ keeper.status \in Statuses
    BY <1>7 DEF ReplaceQueue, KeeperStates
  <2>3. k \in Listed(keeper.read) /\ Listed(keeper.read) = seen
    BY <2>2 DEF ReadIsSound
  <2>4. Listed(file') = seen
    BY <2>1, <2>2, <2>3 DEF Listed, Files, Statuses, Decisions, Results
  <2>5. SeenNeverLost' /\ UnseenAreFresh'
    BY <2>1, <2>2, <2>3, <2>4 DEF SeenNeverLost, UnseenAreFresh, Listed
  <2>6. StatusesNeverReverted'
    BY <2>1, <2>2, <2>3, <2>4 DEF StatusesNeverReverted, ReadIsSound, Listed, Files
  <2>7. StatusesTellOutcomes'
    BY <2>1, <2>2 DEF StatusesTellOutcomes, ReadIsSound, Told, Files
  <2> QED
    BY <2>1, <2>5, <2>6, <2>7 DEF ReadIsSound
<1>8. CASE ToolRaises \/ KeeperEnds \/ RestartKeeper
  <2>1. Kept /\ UNCHANGED seen /\ keeper'.at \in {"idle", "down"}
    BY <1>8 DEF ToolRaises, KeeperEnds, RestartKeeper, Idle, Down
  <2> QED
    BY <1>2, <2>1
<1>9. ASSUME NEW p \in Policies, CreatePolicy(p) \/ RevokePolicy(p) \/ ExpirePolicy(p)
      PROVE  QueueInv'
  <2>1. Kept /\ UNCHANGED <<keeper, seen>>
    BY <1>9 DEF CreatePolicy, RevokePolicy, ExpirePolicy
  <2> QED
    BY <1>1, <2>1 DEF ReadIsSound, Told, Listed
<1> QED
  BY <1>3, <1>4, <1>5, <1>6, <1>7, <1>8, <1>9 DEF KeeperStep

\* However bots append, the keeper replaces and both die, what was read once
\* stays in the queue (SeenNeverLost) with the status that was written last
\* (StatusesNeverReverted), which is true of its tool (StatusesTellOutcomes).
THEOREM QueueAlwaysSound ==
  Spec => [](SeenNeverLost /\ StatusesNeverReverted /\ StatusesTellOutcomes)
<1>1. Init /\ TypeOK => QueueInv
  BY DEF Init, QueueInv, QueuePromises, SeenNeverLost, StatusesNeverReverted, StatusesTellOutcomes,
     ReadIsSound, UnseenAreFresh, Told, Listed, Idle
<1>2. QueueInv /\ TypeOK /\ [Next]_vars => QueueInv'
  <2> SUFFICES ASSUME QueueInv, TypeOK, [Next]_vars
               PROVE  QueueInv'
    OBVIOUS
  <2>1. CASE UNCHANGED vars
    BY <2>1 DEF vars, fileVars, processVars, historyVars, QueueInv, QueuePromises,
       SeenNeverLost,
       StatusesNeverReverted, StatusesTellOutcomes, ReadIsSound, UnseenAreFresh, Told, Listed
  <2> QED
    BY <2>1, BotStepsKeepQueue, KeeperStepsKeepQueue DEF Next
<1>3. QueueInv => SeenNeverLost /\ StatusesNeverReverted /\ StatusesTellOutcomes
  BY DEF QueueInv, QueuePromises
<1> QED
  BY <1>1, <1>2, <1>3, TypeCorrect, PTL DEF Spec

\* The owner is never asked about an action that a policy kept from them
\* (AskedOrMuted), whatever policies come and go while it is decided.
THEOREM NeverAskedAndMuted == Spec => []AskedOrMuted
<1>1. Init /\ TypeOK => AskInv
  BY DEF Init, AskInv, AskedOrMuted, BotsAskOnce, Busy, Idle
<1>2. AskInv /\ TypeOK /\ [Next]_vars => AskInv'
  <2> SUFFICES ASSUME AskInv, TypeOK, [Next]_vars
               PROVE  AskInv'
    OBVIOUS
  <2> USE DEF AskInv, AskedOrMuted, BotsAskOnce, Busy, TypeOK, fileVars, processVars,
          historyVars
  <2>1. ASSUME NEW b \in Bots, BotStep(b)
        PROVE  AskInv'
    <3>1. ASSUME NEW a \in Ids, Enqueue(b, a)
          PROVE  AskInv'
      <4>1. /\ UNCHANGED <<asked, muted>> /\ a \notin issued /\ issued' = issued \cup {a}
            /\ bot' = [bot EXCEPT ![b] = [at |-> "queued", id |-> a]]
        BY <3>1 DEF Enqueue
      <4>2. bot'[b].id = a /\ \A c \in Bots \ {b} : bot'[c] = bot[c]
        BY <4>1
      <4>3. a \notin asked /\ a \notin muted
        BY <4>1
      <4> QED
        BY <4>1, <4>2, <4>3
    <3>2. ASSUME NEW a \in Ids, BotEndsWriting(b, a)
          PROVE  AskInv'
      BY <2>1, <3>2 DEF BotEndsWriting, Down
    <3>3. CASE NeedsNoApproval(b)
      BY <2>1, <3>3 DEF NeedsNoApproval, Idle
    <3>4. CASE Evaluate(b)
      BY <2>1, <3>4 DEF Evaluate, Idle
    <3>5. CASE NotifyOwner(b)
      BY <2>1, <3>5 DEF NotifyOwner, Idle
    <3>6. CASE BotEnds(b)
      BY <2>1, <3>6 DEF BotEnds, Down
    <3>7. CASE RestartBot(b)
      BY <2>1, <3>7 DEF RestartBot, Idle
    <3> QED
      BY <2>1, <3>1, <3>2, <3>3, <3>4, <3>5, <3>6, <3>7 DEF BotStep
  <2>2. CASE UNCHANGED <<bot, issued, asked, muted>>
    BY <2>2
  <2> QED
    BY <2>1, <2>2 DEF Next, KeeperStep, ExecuteAction, Decide, ToolEnds, ToolRaises, LoadQueue,
       ReplaceQueue, CreatePolicy, RevokePolicy, ExpirePolicy, KeeperEnds, RestartKeeper, vars
<1>3. AskInv => AskedOrMuted
  BY DEF AskInv
<1> QED
  BY <1>1, <1>2, <1>3, TypeCorrect, PTL DEF Spec

================================================================================

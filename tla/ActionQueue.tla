------------------------------ MODULE ActionQueue ------------------------------
(***************************************************************************)
(* The queue of actions that wait for the owner: runtime/actions/queue.py, *)
(* what runtime/action_manager.py and runtime/actions/executor.py do with  *)
(* it, and the policies of runtime/governance/stop_asking.py.              *)
(*                                                                         *)
(* The bots are processes of their own, which runner/dev.py starts again   *)
(* when they end.  An agent's bot appends to the queue; the keeper, the    *)
(* bot that the owner replies to, reads the whole file, changes a status   *)
(* and replaces the file.  Nothing locks it.                               *)
(***************************************************************************)
EXTENDS Naturals, FiniteSets

CONSTANTS
    Bots,         \* the bots of agents
    Keeper,       \* the bot that the owner replies to
    Ids,          \* the ids of actions
    Policies,     \* the ids of stop-asking policies
    MaxRestarts   \* max_restarts of a service

Services == Bots \cup {Keeper}

ASSUME ConstantsAssumption == Keeper \notin Bots /\ MaxRestarts \in Nat

VARIABLES
    file,      \* the queue file: id -> status, or "absent"
    torn,      \* whether an unfinished line ends the file
    policies,  \* the policy file: policy -> what it is, or "absent"
    bot,       \* bot -> what it does, and for which action
    keeper,    \* what the keeper does, with the queue it has read
    restarts,  \* service -> how often it was started again
    issued,    \* history: the ids given to actions
    finished,  \* history: the actions whose line was written whole
    seen,      \* history: the actions that the keeper has read
    written,   \* history: id -> the status the keeper wrote last
    outcome,   \* history: id -> the ways in which its tool has ended
    asked,     \* history: the actions that the owner was asked about
    muted      \* history: the actions that a policy kept from being asked

fileVars == <<file, torn, policies>>
processVars == <<bot, keeper, restarts>>
historyVars == <<issued, finished, seen, written, outcome, asked, muted>>
vars == <<fileVars, processVars, historyVars>>

--------------------------------------------------------------------------------
(* Files and processes. *)

Decisions == {"approved", "denied"}
Results == {"completed", "failed"}
Statuses == {"pending"} \cup Decisions \cup Results
Files == [Ids -> Statuses \cup {"absent"}]

Listed(f) == {a \in Ids : f[a] # "absent"}

BotStates == [at : {"idle", "down"}] \cup [at : {"queued", "asking"}, id : Ids]

KeeperStates ==
    [at : {"idle", "down"}]
        \cup [at : {"tool"}, id : Ids]
        \cup [at : {"load"}, id : Ids, status : Statuses]
        \cup [at : {"replace"}, id : Ids, status : Statuses, read : Files]

Idle == [at |-> "idle"]
Down == [at |-> "down"]

\* A policy suppresses asking until it is revoked or expires.
InForce(p) == policies[p] = "valid"

\* A mutant of ReadQueue: only pending actions are read, and so written back.
ReadQueuePending == [a \in Ids |-> IF file[a] = "pending" THEN "pending" ELSE "absent"]

\* What load_actions returns: the records of all lines that can be read.
ReadQueue == file

ResultOf(ok) == IF ok THEN "completed" ELSE "failed"

Init ==
    /\ file = [a \in Ids |-> "absent"]
    /\ torn = FALSE
    /\ policies = [p \in Policies |-> "absent"]
    /\ bot = [b \in Bots |-> Idle]
    /\ keeper = Idle
    /\ restarts = [s \in Services |-> 0]
    /\ issued = {} /\ finished = {} /\ seen = {}
    /\ written = [a \in Ids |-> "pending"]
    /\ outcome = [a \in Ids |-> {}]
    /\ asked = {} /\ muted = {}

--------------------------------------------------------------------------------
(* A bot, which queues the actions of an answer. *)

\* A line is appended.  One that follows an unfinished line cannot be read.
Enqueue(b, a) ==
    /\ bot[b] = Idle
    /\ a \notin issued
    /\ issued' = issued \cup {a}
    /\ finished' = IF torn THEN finished ELSE finished \cup {a}
    /\ file' = IF torn THEN file ELSE [file EXCEPT ![a] = "pending"]
    /\ torn' = FALSE
    /\ bot' = [bot EXCEPT ![b] = [at |-> "queued", id |-> a]]
    /\ UNCHANGED <<policies, keeper, restarts, seen, written, outcome, asked, muted>>

\* An action that needs no approval is no more than queued.
NeedsNoApproval(b) ==
    /\ bot[b].at = "queued"
    /\ bot' = [bot EXCEPT ![b] = Idle]
    /\ UNCHANGED <<fileVars, keeper, restarts, historyVars>>

\* A mutant of Evaluate: the owner is asked all the same.
EvaluateAsks(b) ==
    /\ bot[b].at = "queued"
    /\ bot' = [bot EXCEPT ![b] = [at |-> "asking", id |-> bot[b].id]]
    /\ muted' = IF \E p \in Policies : InForce(p) THEN muted \cup {bot[b].id} ELSE muted
    /\ UNCHANGED <<fileVars, keeper, restarts, issued, finished, seen, written, outcome,
                   asked>>

\* The policies are read, and keep the owner from being asked or do not.
Evaluate(b) ==
    /\ bot[b].at = "queued"
    /\ IF \E p \in Policies : InForce(p)
       THEN /\ muted' = muted \cup {bot[b].id}
            /\ bot' = [bot EXCEPT ![b] = Idle]
       ELSE /\ bot' = [bot EXCEPT ![b] = [at |-> "asking", id |-> bot[b].id]]
            /\ UNCHANGED muted
    /\ UNCHANGED <<fileVars, keeper, restarts, issued, finished, seen, written, outcome,
                   asked>>

\* The owner is told how to approve or deny the action.
NotifyOwner(b) ==
    /\ bot[b].at = "asking"
    /\ asked' = asked \cup {bot[b].id}
    /\ bot' = [bot EXCEPT ![b] = Idle]
    /\ UNCHANGED <<fileVars, keeper, restarts, issued, finished, seen, written, outcome,
                   muted>>

--------------------------------------------------------------------------------
(* The keeper, which acts on the owner's replies. *)

\* The owner decides on an action that they were asked about.
Decide(a, d) ==
    /\ keeper = Idle
    /\ a \in asked
    /\ keeper' = [at |-> "load", id |-> a, status |-> d]
    /\ UNCHANGED <<fileVars, bot, restarts, historyVars>>

\* An action that is found in the queue has its tool run, whatever its status.
ExecuteAction(a) ==
    /\ keeper = Idle
    /\ a \in Listed(ReadQueue)
    /\ keeper' = [at |-> "tool", id |-> a]
    /\ seen' = seen \cup Listed(ReadQueue)
    /\ UNCHANGED <<fileVars, bot, restarts, issued, finished, written, outcome, asked,
                   muted>>

ToolEnds(ok) ==
    /\ keeper.at = "tool"
    /\ outcome' = [outcome EXCEPT ![keeper.id] = @ \cup {ok}]
    /\ keeper' = [at |-> "load", id |-> keeper.id, status |-> ResultOf(ok)]
    /\ UNCHANGED <<fileVars, bot, restarts, issued, finished, seen, written, asked, muted>>

\* The tool raises, and the status is left as it was.
ToolRaises ==
    /\ keeper.at = "tool"
    /\ keeper' = Idle
    /\ UNCHANGED <<fileVars, bot, restarts, historyVars>>

\* update_action_status reads the queue, and does nothing without the action.
LoadQueue ==
    /\ keeper.at = "load"
    /\ seen' = seen \cup Listed(ReadQueue)
    /\ keeper' = IF keeper.id \in Listed(ReadQueue)
                 THEN [at |-> "replace", id |-> keeper.id, status |-> keeper.status,
                       read |-> ReadQueue]
                 ELSE Idle
    /\ UNCHANGED <<fileVars, bot, restarts, issued, finished, written, outcome, asked,
                   muted>>

\* The file is replaced by what was read, with the status changed.
ReplaceQueue ==
    /\ keeper.at = "replace"
    /\ file' = [keeper.read EXCEPT ![keeper.id] = keeper.status]
    /\ torn' = FALSE
    /\ written' = [written EXCEPT ![keeper.id] = keeper.status]
    /\ keeper' = Idle
    /\ UNCHANGED <<policies, bot, restarts, issued, finished, seen, outcome, asked, muted>>

CreatePolicy(p) ==
    /\ keeper = Idle
    /\ policies[p] = "absent"
    /\ policies' = [policies EXCEPT ![p] = "valid"]
    /\ UNCHANGED <<file, torn, processVars, historyVars>>

RevokePolicy(p) ==
    /\ keeper = Idle
    /\ policies[p] # "absent"
    /\ policies' = [policies EXCEPT ![p] = "revoked"]
    /\ UNCHANGED <<file, torn, processVars, historyVars>>

ExpirePolicy(p) ==
    /\ policies[p] = "valid"
    /\ policies' = [policies EXCEPT ![p] = "expired"]
    /\ UNCHANGED <<file, torn, processVars, historyVars>>

--------------------------------------------------------------------------------
(* Processes end, a bot's perhaps in the middle of a line, and are restarted. *)

BotEnds(b) ==
    /\ bot[b] # Down
    /\ bot' = [bot EXCEPT ![b] = Down]
    /\ UNCHANGED <<fileVars, keeper, restarts, historyVars>>

BotEndsWriting(b, a) ==
    /\ bot[b] = Idle
    /\ a \notin issued
    /\ issued' = issued \cup {a}
    /\ torn' = TRUE
    /\ bot' = [bot EXCEPT ![b] = Down]
    /\ UNCHANGED <<file, policies, keeper, restarts, finished, seen, written, outcome,
                   asked, muted>>

KeeperEnds ==
    /\ keeper # Down
    /\ keeper' = Down
    /\ UNCHANGED <<fileVars, bot, restarts, historyVars>>

\* A mutant of RestartBot: a service is restarted for ever.
RestartBotAlways(b) ==
    /\ bot[b] = Down
    /\ restarts' = [restarts EXCEPT ![b] = @ + 1]
    /\ bot' = [bot EXCEPT ![b] = Idle]
    /\ UNCHANGED <<fileVars, keeper, historyVars>>

RestartBot(b) ==
    /\ bot[b] = Down
    /\ restarts[b] < MaxRestarts
    /\ restarts' = [restarts EXCEPT ![b] = @ + 1]
    /\ bot' = [bot EXCEPT ![b] = Idle]
    /\ UNCHANGED <<fileVars, keeper, historyVars>>

RestartKeeper ==
    /\ keeper = Down
    /\ restarts[Keeper] < MaxRestarts
    /\ restarts' = [restarts EXCEPT ![Keeper] = @ + 1]
    /\ keeper' = Idle
    /\ UNCHANGED <<fileVars, bot, historyVars>>

BotStep(b) ==
    \/ \E a \in Ids : Enqueue(b, a) \/ BotEndsWriting(b, a)
    \/ NeedsNoApproval(b) \/ Evaluate(b) \/ NotifyOwner(b)
    \/ BotEnds(b) \/ RestartBot(b)

KeeperStep ==
    \/ \E a \in Ids : ExecuteAction(a) \/ \E d \in Decisions : Decide(a, d)
    \/ \E ok \in BOOLEAN : ToolEnds(ok)
    \/ ToolRaises \/ LoadQueue \/ ReplaceQueue
    \/ \E p \in Policies : CreatePolicy(p) \/ RevokePolicy(p) \/ ExpirePolicy(p)
    \/ KeeperEnds \/ RestartKeeper

Next == (\E b \in Bots : BotStep(b)) \/ KeeperStep

Spec == Init /\ [][Next]_vars

--------------------------------------------------------------------------------
(* Properties. *)

\* The types of the variables.
TypeOK ==
    /\ file \in Files
    /\ torn \in BOOLEAN
    /\ policies \in [Policies -> {"absent", "valid", "revoked", "expired"}]
    /\ bot \in [Bots -> BotStates]
    /\ keeper \in KeeperStates
    /\ restarts \in [Services -> 0..MaxRestarts]
    /\ issued \subseteq Ids /\ finished \subseteq Ids /\ seen \subseteq Ids
    /\ written \in [Ids -> Statuses]
    /\ outcome \in [Ids -> SUBSET BOOLEAN]
    /\ asked \subseteq Ids /\ muted \subseteq Ids

\* An action that the keeper has read once stays in the queue, whoever appends
\* and whoever dies while the file is replaced (update_action_status).
SeenNeverLost == seen \subseteq Listed(file)

\* The queue shows for each action the status that was written last: replacing
\* the whole file never takes the status of another action back.
StatusesNeverReverted == \A a \in Listed(file) : file[a] = written[a]

\* The queue calls an action completed or failed only if a run of its tool
\* ended so, whenever the keeper died in between (execute_action).
Told(a, status) ==
    /\ status = "completed" => TRUE \in outcome[a]
    /\ status = "failed" => FALSE \in outcome[a]

StatusesTellOutcomes == \A a \in Ids : Told(a, file[a])

\* An owner whom a policy keeps from being asked is not asked, and one who is
\* asked was not kept from it: never both (process_actions).
AskedOrMuted == asked \cap muted = {}

\* Every action whose line was written whole is in the queue: it is what the
\* owner is told of as pending (process_actions).  Refuted: a line appended
\* while the keeper replaces the file is replaced with it.
QueuedAreListed == finished \subseteq Listed(file)

================================================================================

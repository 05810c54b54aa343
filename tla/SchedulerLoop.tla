----------------------------- MODULE SchedulerLoop -----------------------------
(***************************************************************************)
(* The scheduler loop of runtime/scheduling: each iteration reads the      *)
(* clock and the tasks the agent declares, locks the window of every due   *)
(* and enabled task, runs the locked tasks one after the other, audits     *)
(* each, and writes a heartbeat.                                           *)
(*                                                                         *)
(* The locks are in memory, so a process that starts again has none; so    *)
(* are the contracts, which a process reads once. The audit is a file of   *)
(* lines that a crash can leave with an unfinished last line, and the      *)
(* status file is emptied before it is written.                            *)
(***************************************************************************)
EXTENDS ScheduledTasks

D == INSTANCE SourceDeclarations

CONSTANTS
    InstalledFiles,  \* tasks, sources: the registries; manifest, feeds: the agent's
    FileEdits,       \* for each of them, what it may become
    TaskIds,         \* the ids of the tasks in them
    TicksPerMinute,  \* instants of the clock in a minute
    MaxIterations,   \* max_iterations of the loop
    MinGap,          \* heartbeat_min_interval_seconds, in instants
    MaxStatus,       \* records kept in the status file
    MaxClock,        \* bound on the time explored
    MaxLives,        \* bound on the processes started, one after the other
    MaxEdits         \* bound on the edits of the files

ASSUME ConstantsAssumption ==
    /\ TicksPerMinute \in Nat \ {0}
    /\ MaxIterations \in Nat \ {0} /\ MinGap \in Nat /\ MaxStatus \in Nat \ {0}
    /\ MaxClock \in Nat /\ MaxLives \in Nat /\ MaxEdits \in Nat

\* What the manifest of tasks is, sooner or later.
TaskManifests == {InstalledFiles.manifest} \cup FileEdits.manifest

ASSUME FilesAssumption ==
    /\ DOMAIN InstalledFiles = {"tasks", "manifest", "sources", "feeds"}
    /\ DOMAIN FileEdits = DOMAIN InstalledFiles
    /\ \A m \in TaskManifests :
          /\ Len(m.entries) \in Nat /\ DOMAIN m.entries = 1..Len(m.entries)
          /\ \A i \in DOMAIN m.entries : m.entries[i].id \in TaskIds

VARIABLES
    clock,       \* the time
    files,       \* the registries and the agent's manifests
    edits,       \* how often they were edited
    life,        \* the process: how many have been started
    ends,        \* how each of them ended: "running", "finished", "died"
    pc,          \* what the process does next, "down" when there is none
    iteration,   \* the iteration of its loop
    now,         \* the time of the iteration
    kept,        \* for tasks and sources: <<>> or <<the contracts it has read>>
    read,        \* the manifest of tasks read in the iteration
    locks,       \* the windows locked by the process
    queue,       \* the positions of the tasks locked in it and not run yet
    result,      \* what is being audited: "skipped", "success" or "failed"
    runs,        \* history: the runs begun
    checks,      \* history: the feed checks
    lines,       \* the finished lines of the audit file
    torn,        \* whether an unfinished line follows them
    status,      \* the status file
    pending,     \* what the status file is about to hold
    lastBeat     \* the times of the heartbeats of the process: the last, or none

processVars == <<life, ends, pc, iteration, now, kept, read, locks, queue, result>>
fileVars == <<lines, torn, status, pending, lastBeat>>
history == <<runs, checks>>
vars == <<clock, files, edits, history, processVars, fileVars>>

--------------------------------------------------------------------------------
(* Schedules and windows. *)

\* A cron task is due during a minute that its expression matches; an interval
\* task only at the instant that its interval divides.
Due(d, at) ==
    LET schedule == d.schedule[1] IN
    \/ /\ schedule.type = "cron"
       /\ schedule.timezone = "UTC" /\ schedule.expression[1].readable
       /\ at \div TicksPerMinute \in schedule.expression[1].minutes
    \/ schedule.type = "interval" /\ at % schedule.every = 0

Window(schedule, at) ==
    at \div (IF schedule.type = "cron" THEN TicksPerMinute ELSE schedule.every)

\* The key of the lock of a task at a time.
Key(d, at) == <<d.id, d.schedule[1].type, Window(d.schedule[1], at)>>

\* A mutant of Lock: the windows found free are not remembered.
LockForgets(keys) == locks

\* The windows locked once the given ones are too.
Lock(keys) == locks \cup keys

\* The positions of the due tasks that are run.  Disabled ones make no plan;
\* audit_only ones make a plan that is skipped.
Eligible(declarations, at) ==
    {i \in DOMAIN declarations :
        declarations[i].governance = "enabled" /\ Due(declarations[i], at)}

--------------------------------------------------------------------------------
Init ==
    /\ clock = 0
    /\ files = InstalledFiles /\ edits = 0
    /\ life = 0 /\ ends = <<>> /\ pc = "down"
    /\ iteration = 0 /\ now = 0
    /\ kept = [tasks |-> <<>>, sources |-> <<>>]
    /\ read = files.manifest
    /\ locks = {} /\ queue = {} /\ result = "skipped"
    /\ runs = <<>> /\ checks = {}
    /\ lines = <<>> /\ torn = FALSE
    /\ status = <<>> /\ pending = <<>> /\ lastBeat = <<>>

world == <<clock, files, edits>>

\* Time passes.  The clock is read only at the start of an iteration, so all
\* of the time that an iteration takes can pass before the next.
Tick ==
    /\ pc \in {"down", "poll"}
    /\ clock < MaxClock
    /\ clock' = clock + 1
    /\ UNCHANGED <<files, edits, history, processVars, fileVars>>

\* The operator edits a registry or a manifest.
EditFile ==
    /\ edits < MaxEdits
    /\ edits' = edits + 1
    /\ \E f \in DOMAIN FileEdits : \E file \in FileEdits[f] :
          files' = [files EXCEPT ![f] = file]
    /\ UNCHANGED <<clock, history, processVars, fileVars>>

\* A process starts its loop, with no contracts, no locks and no heartbeat yet.
Start ==
    /\ pc = "down"
    /\ life < MaxLives
    /\ life' = life + 1
    /\ ends' = Append(ends, "running")
    /\ pc' = "poll"
    /\ iteration' = 0
    /\ kept' = [tasks |-> <<>>, sources |-> <<>>]
    /\ locks' = {} /\ queue' = {} /\ lastBeat' = <<>>
    /\ UNCHANGED <<world, now, read, result, history, lines, torn, status, pending>>

\* The process ends: its loop is over, an exception leaves it, it is killed.
End(how) ==
    /\ pc' = "down"
    /\ ends' = [ends EXCEPT ![life] = how]

\* A mutant of Keep: the contracts are read each time.
KeepNothing(registry, contracts) == <<contracts>>

\* The contracts a process has are those it read first, if they are none too.
Keep(registry, contracts) == IF registry = <<>> THEN <<contracts>> ELSE registry

\* The declarations of the iteration.
Loaded == LoadTasks(read, kept.tasks[1]).declarations

GoOn == pc' = IF queue' = {} THEN "beat" ELSE "execute"

\* An iteration reads the clock and the manifest, and locks the windows of all
\* its tasks before it runs any of them.
Poll ==
    /\ pc = "poll"
    /\ now' = clock
    /\ read' = files.manifest
    /\ iteration' = iteration + 1
    /\ LET contracts == Keep(kept.tasks, LoadTaskContracts(files.tasks))
           loaded == LoadTasks(files.manifest, contracts[1]).declarations
       IN /\ kept' = [kept EXCEPT !.tasks = contracts]
          /\ queue' = {i \in Eligible(loaded, clock) : Key(loaded[i], clock) \notin locks}
          /\ locks' = Lock({Key(loaded[i], clock) : i \in queue'})
    /\ GoOn
    /\ UNCHANGED <<world, life, ends, result, history, fileVars>>

\* The tasks are run in the order of the manifest.
First == Min(queue)
Current == Loaded[First]

\* The next task's plan is refused by the executor's guards, but audited.
Skip ==
    /\ pc = "execute"
    /\ ~Executable(Current)
    /\ result' = "skipped"
    /\ pc' = "audit"
    /\ UNCHANGED <<world, life, ends, iteration, now, kept, read, locks, queue,
                   history, fileVars>>

\* The next task is run.  A run belongs to the process that began it.
Run == [key |-> Key(Current, now), life |-> life]

\* The feeds are looked at whole, and never fetched: plans are dry runs.
CheckFeeds ==
    LET contracts == Keep(kept.sources, D!LoadSourceContracts(files.sources))
        verdict == IF D!LoadSources(files.feeds, contracts[1]).flawed
                   THEN "failed" ELSE "success"
    IN /\ kept' = [kept EXCEPT !.sources = contracts]
       /\ result' = verdict
       /\ checks' = checks \union {[life |-> life, feeds |-> files.feeds, verdict |-> verdict]}

RunWorkflow ==
    \/ Current.id = "alexis_rss_feed_check" /\ CheckFeeds
    \/ /\ Current.id # "alexis_rss_feed_check"
       /\ result' = "success" /\ UNCHANGED <<kept, checks>>

Execute ==
    /\ pc = "execute"
    /\ Executable(Current)
    /\ runs' = Append(runs, Run)
    /\ RunWorkflow
    /\ pc' = "audit"
    /\ UNCHANGED <<world, life, ends, iteration, now, read, locks, queue, fileVars>>

\* A mutant of ExecuteRaises: the loop goes on with the next task.
ExecuteRaisesSwallowed ==
    /\ pc = "execute"
    /\ Executable(Current)
    /\ runs' = Append(runs, Run)
    /\ queue' = queue \ {First}
    /\ GoOn
    /\ UNCHANGED <<world, life, ends, iteration, now, kept, read, locks, result,
                   checks, fileVars>>

\* The workflow raises: nothing is audited and the exception ends the loop.
ExecuteRaises ==
    /\ pc = "execute"
    /\ Executable(Current)
    /\ runs' = Append(runs, Run)
    /\ End("died")
    /\ UNCHANGED <<world, life, iteration, now, kept, read, locks, queue, result,
                   checks, fileVars>>

\* The result is appended to the audit.  After an unfinished line it ends up on
\* that line, which cannot be read.
AppendAudit ==
    /\ pc = "audit"
    /\ lines' = Append(lines, [run |-> Run, result |-> result, readable |-> ~torn])
    /\ torn' = FALSE
    /\ queue' = queue \ {First}
    /\ GoOn
    /\ UNCHANGED <<world, life, ends, iteration, now, kept, read, locks, result,
                   history, status, pending, lastBeat>>

--------------------------------------------------------------------------------
(* The heartbeat, and the end of an iteration. *)

Damaged == torn \/ \E line \in ToSet(lines) : ~line.readable
AnyEnabled == \E d \in Range(Loaded) : d.governance = "enabled"
Throttled == lastBeat # <<>> /\ now - lastBeat[1] < MinGap

EndIteration ==
    IF iteration < MaxIterations
    THEN pc' = "poll" /\ UNCHANGED ends
    ELSE End("finished")

BeatThrottled ==
    /\ pc = "beat"
    /\ Throttled
    /\ EndIteration
    /\ UNCHANGED <<world, life, iteration, now, kept, read, locks, queue, result,
                   history, fileVars>>

\* The heartbeat looks up the last run of every enabled task in the audit, and
\* a line that is not JSON raises out of the loop.
BeatRaises ==
    /\ pc = "beat"
    /\ ~Throttled
    /\ AnyEnabled /\ Damaged
    /\ End("died")
    /\ UNCHANGED <<world, life, iteration, now, kept, read, locks, queue, result,
                   history, fileVars>>

\* A mutant of Bounded: one record too many is kept.
BoundedOneMore(records) ==
    SubSeq(records, Max({1, Len(records) - MaxStatus}), Len(records))

\* The last MaxStatus records.
Bounded(records) ==
    SubSeq(records, Max({1, Len(records) - MaxStatus + 1}), Len(records))

\* The status file is read, and opened for writing, which empties it.
BeatOpens ==
    /\ pc = "beat"
    /\ ~Throttled
    /\ ~(AnyEnabled /\ Damaged)
    /\ pending' = Bounded(Append(status, [at |-> now, life |-> life]))
    /\ status' = <<>>
    /\ pc' = "write"
    /\ UNCHANGED <<world, life, ends, iteration, now, kept, read, locks, queue, result,
                   history, lines, torn, lastBeat>>

BeatWrites ==
    /\ pc = "write"
    /\ status' = pending
    /\ lastBeat' = <<now>>
    /\ EndIteration
    /\ UNCHANGED <<world, life, iteration, now, kept, read, locks, queue, result,
                   history, lines, torn, pending>>

\* The process is killed, perhaps in the middle of its append to the audit.
Crash ==
    /\ pc # "down"
    /\ End("died")
    /\ torn' \in {torn, torn \/ pc = "audit"}
    /\ UNCHANGED <<world, life, iteration, now, kept, read, locks, queue, result,
                   history, lines, status, pending, lastBeat>>

\* Nothing runs and no process is started any more.
Stopped == pc = "down" /\ life = MaxLives /\ UNCHANGED vars

Next ==
    \/ Tick \/ EditFile
    \/ Start \/ Poll
    \/ Skip \/ Execute \/ ExecuteRaises \/ AppendAudit
    \/ BeatThrottled \/ BeatRaises \/ BeatOpens \/ BeatWrites
    \/ Crash \/ Stopped

Spec == Init /\ [][Next]_vars

--------------------------------------------------------------------------------
LockKeys == TaskIds \X ScheduleTypes \X (0..MaxClock)
Results == {"skipped", "success", "failed"}
RunRecords == [key : LockKeys, life : 1..MaxLives]
AuditLines == [run : RunRecords, result : Results, readable : BOOLEAN]
Beats == [at : 0..MaxClock, life : 1..MaxLives]

TypeOK ==
    /\ clock \in 0..MaxClock /\ now \in 0..clock
    /\ edits \in 0..MaxEdits
    /\ life \in 0..MaxLives
    /\ ends \in Seq({"running", "finished", "died"}) /\ Len(ends) = life
    /\ pc \in {"down", "poll", "execute", "audit", "beat", "write"}
    /\ iteration \in 0..MaxIterations
    /\ Len(kept.tasks) <= 1 /\ Len(kept.sources) <= 1
    /\ locks \subseteq LockKeys
    /\ queue \subseteq Nat \ {0}
    /\ pc \in {"execute", "audit"} => queue # {}
    /\ result \in Results
    /\ runs \in Seq(RunRecords)
    /\ lines \in Seq(AuditLines)
    /\ torn \in BOOLEAN
    /\ status \in Seq(Beats) /\ Len(status) <= MaxStatus
    /\ pending \in Seq(Beats) /\ Len(pending) <= MaxStatus
    /\ lastBeat \in Seq(0..MaxClock) /\ Len(lastBeat) <= 1

\* A process runs a task at most once in a window, however often it polls in it
\* and whatever becomes of the manifest meanwhile.
OncePerWindow ==
    \A i, j \in 1..Len(runs) :
        i # j /\ runs[i].life = runs[j].life => runs[i].key # runs[j].key

\* At the end of an iteration every sound, enabled and due task of the manifest
\* it read was run or refused in its window, whatever is beside it in the
\* manifest, and if others of the iteration were refused: an entry that is
\* judged unsound takes none of its neighbours along, a window is not locked in
\* vain.  Only two sound entries of one id leave the whole manifest unserved.
\* Of an iteration that does not reach its end nothing is said: an entry whose
\* governance_state or schedule type is a list or an object is not judged, it
\* raises, and takes the loop along.
SoundTasksAreServed ==
    pc \in {"beat", "write"} =>
        LET sound == {e \in DOMAIN read.entries : TaskSound(read.entries[e], kept.tasks[1])}
            served == {r.key : r \in {x \in ToSet(runs) : x.life = life}} \union
                      {l.run.key : l \in {x \in ToSet(lines) : x.run.life = life}}
        IN Readable(read) /\ (\A e, f \in sound : read.entries[e].id = read.entries[f].id => e = f) =>
               \A e \in sound :
                   read.entries[e].governance = "enabled" /\ Due(read.entries[e], now) =>
                       Key(read.entries[e], now) \in served

\* The lines of the audit that can be read tell of the runs in their order, of
\* each once, and of no other.  Two kinds of runs are missing from them: the
\* last one of a process, while it is not audited yet or because the process
\* died in it; and one whose line was written onto the unfinished line of a
\* process that had died, which happens to the first line of a later process
\* and to no other.  The loader does not read around such a line, it raises:
\* until one is removed by hand it tells of nothing at all.
Performed == {i \in 1..Len(lines) : lines[i].result # "skipped"}
Told == {i \in Performed : lines[i].readable}

FirstAfterDeath(i) ==
    /\ \A j \in 1..(i - 1) : lines[j].run.life < lines[i].run.life
    /\ \E l \in 1..(lines[i].run.life - 1) : ends[l] = "died"

AuditMatchesRuns ==
    /\ \A i \in Told : \E r \in 1..Len(runs) : lines[i].run = runs[r]
    /\ \A i, j \in Told : \A r, s \in 1..Len(runs) :
          i < j /\ lines[i].run = runs[r] /\ lines[j].run = runs[s] => r < s
    /\ \A r \in 1..Len(runs) :
          \/ \E i \in Told : lines[i].run = runs[r]
          \/ \E i \in Performed \ Told : lines[i].run = runs[r] /\ FirstAfterDeath(i)
          \/ /\ \A s \in 1..Len(runs) : runs[s].life = runs[r].life => s <= r
             /\ \/ ends[runs[r].life] = "died"
                \/ runs[r].life = life /\ pc = "audit" /\ result # "skipped"

\* A process judges the same feeds alike each time, whatever becomes of the
\* registry between its checks.
FeedVerdictsAgree ==
    \A a, b \in checks : a.life = b.life /\ a.feeds = b.feeds => a.verdict = b.verdict
================================================================================

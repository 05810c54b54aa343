-------------------------- MODULE SchedulerLoop_proofs --------------------------
(***************************************************************************)
(* The scheduler loop, for every set of tasks, registries, schedules and   *)
(* bounds: its invariants, by induction over a process and its successors. *)
(* A run of the current process has its window locked; a task in the queue *)
(* has too, and was not run yet, so that no window is run twice and the    *)
(* run that is being audited is the one run that the audit does not tell.  *)
(***************************************************************************)
EXTENDS SchedulerLoop, WellFoundedInduction, SequenceTheorems, TLAPS

\* The files read are among those there may be, and what is kept of them is a
\* record of two registries.
FilesAreKnown ==
    /\ DOMAIN files = DOMAIN InstalledFiles
    /\ files.manifest \in TaskManifests /\ read \in TaskManifests
    /\ kept = [tasks |-> kept.tasks, sources |-> kept.sources]

\* A process that is up is running, and polls only if it has iterations left.
ProcessIsUp ==
    /\ pc # "down" => life >= 1 /\ ends[life] = "running"
    /\ pc = "poll" => iteration < MaxIterations

\* No run is of a process to come, and the windows of the runs of this one are
\* locked.
RunsAreLocked ==
    \A r \in 1..Len(runs) :
        /\ runs[r].life \in 1..life
        /\ runs[r].life = life => runs[r].key \in locks

\* The windows of the tasks in the queue are locked too, and none of them has
\* been run but the one whose result is to be audited.
QueueIsLocked ==
    pc \in {"execute", "audit"} =>
        /\ queue \subseteq DOMAIN Loaded
        /\ \A i \in queue :
              /\ Key(Loaded[i], now) \in locks
              /\ \A r \in 1..Len(runs) :
                    runs[r].life = life /\ runs[r].key = Key(Loaded[i], now) =>
                        pc = "audit" /\ result # "skipped" /\ i = First

\* The windows of this process that were run or refused.
ServedIn(rs, ls, of) ==
    {r.key : r \in {x \in ToSet(rs) : x.life = of}} \union
        {l.run.key : l \in {x \in ToSet(ls) : x.run.life = of}}
Served == ServedIn(runs, lines, life)

\* No window is locked in vain: it has been served, or its task is in the queue.
\* Those of all eligible tasks of the iteration are locked.
LocksAreServed ==
    /\ pc # "down" => \A k \in locks :
          \/ k \in Served
          \/ pc \in {"execute", "audit"} /\ \E i \in queue : k = Key(Loaded[i], now)
    /\ pc \in {"execute", "audit", "beat", "write"} =>
          /\ kept.tasks # <<>>
          /\ \A i \in Eligible(Loaded, now) : Key(Loaded[i], now) \in locks

\* The run to be audited is the last, and the audit does not tell of it yet.
AuditIsDue ==
    pc = "audit" /\ result # "skipped" =>
        /\ runs # <<>> /\ runs[Len(runs)] = Run
        /\ \A i \in Performed : lines[i].run # Run

\* The lines written, readable or not, tell of the runs in their order; only the
\* last run of a process has none.
LinesMatchRuns ==
    /\ \A i \in Performed : \E r \in 1..Len(runs) : lines[i].run = runs[r]
    /\ \A i, j \in Performed : \A r, s \in 1..Len(runs) :
          i < j /\ lines[i].run = runs[r] /\ lines[j].run = runs[s] => r < s
    /\ \A r \in 1..Len(runs) :
          \/ \E i \in Performed : lines[i].run = runs[r]
          \/ /\ \A s \in 1..Len(runs) : runs[s].life = runs[r].life => s <= r
             /\ \/ ends[runs[r].life] = "died"
                \/ runs[r].life = life /\ pc = "audit" /\ result # "skipped"

\* What a process made of feeds is what the source contracts it keeps make of
\* them.
Verdict(feeds, contracts) ==
    IF D!LoadSources(feeds, contracts).flawed THEN "failed" ELSE "success"

ChecksFollowContracts ==
    \A c \in checks :
        /\ c.life \in 1..life
        /\ c.life = life => /\ kept.sources # <<>>
                            /\ c.verdict = Verdict(c.feeds, kept.sources[1])

SchedulerInv ==
    /\ TypeOK /\ FilesAreKnown /\ ProcessIsUp
    /\ RunsAreLocked /\ QueueIsLocked /\ LocksAreServed
    /\ AuditIsDue /\ ChecksFollowContracts
    /\ OncePerWindow /\ LinesMatchRuns /\ FeedVerdictsAgree

--------------------------------------------------------------------------------
\* A set of numbers that is not empty has a least.
LEMMA MinIsMember ==
    ASSUME NEW S \in SUBSET Nat, S # {}
    PROVE  Min(S) \in S
<1>1. PICK x \in S : \A y \in S : ~(<<y, x>> \in OpToRel(<, Nat))
  BY NatLessThanWellFounded, WFMin
<1>2. \A y \in S : x <= y
  <2> SUFFICES ASSUME NEW y \in S PROVE x <= y
    OBVIOUS
  <2>1. ~(<<y, x>> \in OpToRel(<, Nat))
    BY <1>1
  <2>2. ~(y < x)
    BY <2>1 DEF OpToRel
  <2> QED
    BY <2>2
<1> QED
  BY <1>2 DEF Min

\* What is loaded of a manifest are sound entries of it, at their positions, and
\* no two of them have the same id.
SoundOnly(manifest, contracts, L) ==
    /\ DOMAIN L \subseteq DOMAIN manifest.entries \/ L = <<>>
    /\ \A i \in DOMAIN L : L[i] = manifest.entries[i] /\ TaskSound(L[i], contracts)
    /\ \A i, j \in DOMAIN L : L[i].id = L[j].id => i = j

\* Nothing of a manifest that can be read is left out but what is not sound,
\* unless two of its sound entries have the same id.
AllSound(manifest, contracts, L) ==
    \A sound :
        /\ sound = {e \in DOMAIN manifest.entries : TaskSound(manifest.entries[e], contracts)}
        /\ Readable(manifest)
        /\ \A e, f \in sound : manifest.entries[e].id = manifest.entries[f].id => e = f
        => \A e \in sound : e \in DOMAIN L /\ L[e] = manifest.entries[e]

\* The loading of a manifest (_load_declaration_manifest) is sound and complete.
LEMMA LoadedEntries ==
    ASSUME NEW manifest, NEW contracts
    PROVE  SoundOnly(manifest, contracts, LoadTasks(manifest, contracts).declarations)
<1> SUFFICES ASSUME NEW L, L = LoadTasks(manifest, contracts).declarations
             PROVE  /\ DOMAIN L \subseteq DOMAIN manifest.entries \/ L = <<>>
                    /\ \A i \in DOMAIN L :
                          L[i] = manifest.entries[i] /\ TaskSound(L[i], contracts)
                    /\ \A i, j \in DOMAIN L : L[i].id = L[j].id => i = j
  BY DEF SoundOnly
<1> DEFINE Sound == {d \in ToSet(manifest.entries) : TaskSound(d, contracts)}
           K == {i \in DOMAIN manifest.entries : manifest.entries[i] \in Sound}
<1>1. CASE L = <<>>
  BY <1>1
<1>2. CASE L # <<>>
  <2>1. L = Restrict(manifest.entries, K) /\ AllDiffer(Restrict(manifest.entries, K))
    BY <1>2 DEF LoadTasks, LoadManifest, Declared
  <2>2. DOMAIN L = K /\ \A i \in K : L[i] = manifest.entries[i]
    BY <2>1 DEF Restrict
  <2>3. \A i, j \in DOMAIN L : L[i].id = L[j].id => i = j
    <3>1. IsInjective([i \in DOMAIN L |-> L[i].id])
      BY <2>1 DEF AllDiffer
    <3> QED
      BY <3>1 DEF IsInjective
  <2> QED
    BY <2>2, <2>3
<1> QED
  BY <1>1, <1>2

LEMMA SoundEntriesAreLoaded ==
    ASSUME NEW manifest, NEW contracts
    PROVE  AllSound(manifest, contracts, LoadTasks(manifest, contracts).declarations)
<1> SUFFICES ASSUME NEW L, L = LoadTasks(manifest, contracts).declarations, NEW sound,
                    sound = {e \in DOMAIN manifest.entries :
                                TaskSound(manifest.entries[e], contracts)},
                    Readable(manifest),
                    \A e, f \in sound : manifest.entries[e].id = manifest.entries[f].id => e = f
             PROVE  \A e \in sound : e \in DOMAIN L /\ L[e] = manifest.entries[e]
  BY DEF AllSound
<1> DEFINE Sound == {d \in ToSet(manifest.entries) : TaskSound(d, contracts)}
           K == {i \in DOMAIN manifest.entries : manifest.entries[i] \in Sound}
           R == Restrict(manifest.entries, K)
<1>1. K = sound
  <2>1. \A i \in DOMAIN manifest.entries : manifest.entries[i] \in ToSet(manifest.entries)
    BY DEF ToSet
  <2> QED
    BY <2>1
<1>2. DOMAIN R = sound /\ \A e \in sound : R[e] = manifest.entries[e]
  BY <1>1 DEF Restrict
<1>3. AllDiffer(R)
  <2>1. IsInjective([i \in DOMAIN R |-> R[i].id])
    <3> HIDE DEF R
    <3> QED
      BY <1>2 DEF IsInjective
  <2> QED
    BY <2>1 DEF AllDiffer
<1>4. CASE contracts = <<>>
  <2>1. ToSet(contracts) = {}
    BY <1>4 DEF ToSet
  <2> QED
    BY <2>1 DEF TaskSound
<1>5. CASE contracts # <<>>
  <2>1. L = LoadManifest(manifest, Sound).declarations
    BY <1>5 DEF LoadTasks
  <2>2. L = R
    BY <1>3, <2>1 DEF LoadManifest, Declared
  <2> QED
    BY <1>2, <2>2
<1> QED
  BY <1>4, <1>5

\* A sound task's windows are numbers up to the time, and tell it from others.
LEMMA KeyOfTask ==
    ASSUME NEW d, NEW contracts, TaskSound(d, contracts), d.id \in TaskIds,
           NEW at \in 0..MaxClock
    PROVE  Key(d, at) \in LockKeys
<1>1. d.schedule[1].type \in ScheduleTypes
  BY DEF TaskSound, ScheduleSound, ScheduleTypes
<1>2. \A n \in Nat \ {0} : at \div n \in 0..at
  BY ConstantsAssumption
<1>3. Window(d.schedule[1], at) \in 0..at
  <2>1. CASE d.schedule[1].type = "cron"
    BY <1>2, <2>1, ConstantsAssumption DEF Window
  <2>2. CASE d.schedule[1].type # "cron"
    <3>1. d.schedule[1].every \in Nat \ {0}
      BY <2>2 DEF TaskSound, ScheduleSound
    <3> QED
      BY <1>2, <2>2, <3>1 DEF Window
  <2> QED
    BY <2>1, <2>2
<1>4. Window(d.schedule[1], at) \in 0..MaxClock
  BY <1>3, ConstantsAssumption
<1> QED
  BY <1>1, <1>4 DEF Key, LockKeys

\* The status file keeps as many records as it may.
LEMMA BoundedRecords ==
    ASSUME NEW S, NEW s \in Seq(S)
    PROVE  Bounded(s) \in Seq(S) /\ Len(Bounded(s)) <= MaxStatus
<1> DEFINE n == Len(s) - MaxStatus + 1
           first == Max({1, n})
<1>1. /\ MaxStatus \in Nat \ {0} /\ Len(s) \in Nat /\ n \in Int
      /\ \A i \in 1..Len(s) : s[i] \in S
  BY ConstantsAssumption, LenProperties, ElementOfSeq
<1>2. first \in {1, n} /\ first >= 1 /\ first >= n
  <2>1. \E x \in {1, n} : \A y \in {1, n} : x >= y
    BY <1>1
  <2> QED
    BY <2>1 DEF Max
<1>a. n = Len(s) - MaxStatus + 1
  OBVIOUS
<1>b. Bounded(s) = SubSeq(s, first, Len(s))
  BY DEF Bounded
<1> HIDE DEF n, first
<1>3. first \in Int /\ \A i \in first..Len(s) : s[i] \in S
  BY <1>1, <1>2
<1>4. /\ SubSeq(s, first, Len(s)) \in Seq(S)
      /\ Len(SubSeq(s, first, Len(s))) = IF first <= Len(s) THEN Len(s) - first + 1 ELSE 0
  BY <1>1, <1>3, SubSeqProperties
<1> QED
  BY <1>1, <1>2, <1>a, <1>b, <1>4

\* The next task of the queue is one of those loaded, and its run a record.
LEMMA CurrentTask ==
    ASSUME SchedulerInv, pc \in {"execute", "audit"}
    PROVE  First \in queue /\ First \in DOMAIN Loaded /\ Run \in RunRecords
<1>1. queue \subseteq Nat /\ queue # {} /\ life \in 0..MaxLives /\ locks \subseteq LockKeys
  <2>1. queue \subseteq Nat \ {0} /\ queue # {} /\ life \in 0..MaxLives /\ locks \subseteq LockKeys
    BY Zenon DEF SchedulerInv, TypeOK
  <2> QED
    BY <2>1
<1>2. First \in queue
  BY <1>1, MinIsMember DEF First
<1>3. First \in DOMAIN Loaded /\ Key(Current, now) \in locks
  BY <1>2 DEF SchedulerInv, QueueIsLocked, Current
<1>4. life \in 1..MaxLives
  BY <1>1, ConstantsAssumption DEF SchedulerInv, ProcessIsUp
<1> QED
  BY <1>1, <1>2, <1>3, <1>4 DEF Run, RunRecords

\* However a process ends, it ends.
LEMMA EndTypes ==
    ASSUME SchedulerInv, pc # "down", NEW how \in {"finished", "died"}, End(how)
    PROVE  /\ pc' = "down" /\ ends' \in Seq({"running", "finished", "died"})
           /\ Len(ends') = life
<1>1. /\ ends \in Seq({"running", "finished", "died"}) /\ Len(ends) = life
  BY Zenon DEF SchedulerInv, TypeOK
<1>2. how \in {"running", "finished", "died"} /\ life \in 1..Len(ends)
  <2>1. life \in 0..MaxLives /\ life >= 1
    BY Zenon DEF SchedulerInv, TypeOK, ProcessIsUp
  <2> QED
    BY <1>1, <2>1, ConstantsAssumption
<1>3. /\ [ends EXCEPT ![life] = how] \in Seq({"running", "finished", "died"})
      /\ Len([ends EXCEPT ![life] = how]) = Len(ends)
  BY <1>1, <1>2, ExceptSeq
<1> QED
  BY <1>1, <1>3 DEF End

\* Every step keeps the types, the files known and a running process up.
LEMMA TypesStay ==
    ASSUME SchedulerInv, [Next]_vars
    PROVE  TypeOK' /\ FilesAreKnown' /\ ProcessIsUp'
<1> USE DEF world, history, processVars, fileVars
<1>1. /\ MaxClock \in Nat /\ MaxLives \in Nat /\ MaxEdits \in Nat /\ MaxIterations \in Nat \ {0}
      /\ clock \in 0..MaxClock /\ now \in 0..clock /\ edits \in 0..MaxEdits
      /\ life \in 0..MaxLives /\ iteration \in 0..MaxIterations
  <2>1. /\ clock \in 0..MaxClock /\ now \in 0..clock /\ edits \in 0..MaxEdits
        /\ life \in 0..MaxLives /\ iteration \in 0..MaxIterations
    BY Zenon DEF SchedulerInv, TypeOK
  <2> QED
    BY <2>1, ConstantsAssumption
<1>2. /\ ends \in Seq({"running", "finished", "died"}) /\ Len(ends) = life
      /\ pc \in {"down", "poll", "execute", "audit", "beat", "write"}
      /\ Len(kept.tasks) <= 1 /\ Len(kept.sources) <= 1
      /\ locks \subseteq LockKeys /\ queue \subseteq Nat \ {0}
      /\ result \in Results /\ runs \in Seq(RunRecords) /\ lines \in Seq(AuditLines)
  BY Zenon DEF SchedulerInv, TypeOK
<1>3. /\ torn \in BOOLEAN /\ status \in Seq(Beats) /\ Len(status) <= MaxStatus
      /\ pending \in Seq(Beats) /\ Len(pending) <= MaxStatus
      /\ lastBeat \in Seq(0..MaxClock) /\ Len(lastBeat) <= 1
      /\ pc \in {"execute", "audit"} => queue # {}
  BY Zenon DEF SchedulerInv, TypeOK
<1>4. /\ DOMAIN files = DOMAIN InstalledFiles
      /\ files.manifest \in TaskManifests /\ read \in TaskManifests
      /\ kept = [tasks |-> kept.tasks, sources |-> kept.sources]
      /\ pc # "down" => life >= 1 /\ ends[life] = "running"
      /\ pc = "poll" => iteration < MaxIterations
  BY Zenon DEF SchedulerInv, FilesAreKnown, ProcessIsUp
<1>5. CASE Tick
  <2>1. /\ clock' = clock + 1 /\ clock < MaxClock
        /\ UNCHANGED <<files, edits, life, ends, pc, iteration, now, kept, read, locks, queue,
                       result, runs, checks, lines, torn, status, pending, lastBeat>>
    BY <1>5 DEF Tick
  <2>2. clock' \in 0..MaxClock /\ now' \in 0..clock'
    BY <1>1, <2>1
  <2> QED
    BY <1>1, <1>2, <1>3, <1>4, <2>1, <2>2 DEF TypeOK, FilesAreKnown, ProcessIsUp
<1>6. CASE EditFile
  <2>1. /\ edits' = edits + 1 /\ edits < MaxEdits
        /\ UNCHANGED <<clock, life, ends, pc, iteration, now, kept, read, locks, queue, result,
                       runs, checks, lines, torn, status, pending, lastBeat>>
    BY <1>6 DEF EditFile
  <2>2. PICK f \in DOMAIN FileEdits : \E file \in FileEdits[f] : files' = [files EXCEPT ![f] = file]
    BY <1>6 DEF EditFile
  <2>3. PICK file \in FileEdits[f] : files' = [files EXCEPT ![f] = file]
    BY <2>2
  <2>4. DOMAIN files' = DOMAIN InstalledFiles /\ files'.manifest \in TaskManifests
    <3>1. "manifest" \in DOMAIN files
      BY <1>4, FilesAssumption
    <3>2. files'["manifest"] = IF f = "manifest" THEN file ELSE files["manifest"]
      BY <2>3, <3>1
    <3> QED
      BY <1>4, <2>3, <3>2 DEF TaskManifests
  <2>5. edits' \in 0..MaxEdits
    BY <1>1, <2>1
  <2> QED
    BY <1>1, <1>2, <1>3, <1>4, <2>1, <2>4, <2>5 DEF TypeOK, FilesAreKnown, ProcessIsUp
<1>7. CASE Start
  <2>1. /\ pc = "down" /\ life < MaxLives /\ life' = life + 1 /\ pc' = "poll" /\ iteration' = 0
        /\ ends' = Append(ends, "running") /\ kept' = [tasks |-> <<>>, sources |-> <<>>]
        /\ locks' = {} /\ queue' = {} /\ lastBeat' = <<>>
        /\ UNCHANGED <<clock, files, edits, now, read, result, runs, checks, lines, torn, status,
                       pending>>
    BY <1>7 DEF Start
  <2>2. life' \in 0..MaxLives /\ iteration' \in 0..MaxIterations /\ life' >= 1 /\ iteration' < MaxIterations
    BY <1>1, <2>1
  <2>3. /\ ends' \in Seq({"running", "finished", "died"}) /\ Len(ends') = life'
        /\ ends'[life'] = "running"
    BY <1>2, <2>1, AppendProperties
  <2>4. /\ Len(kept'.tasks) <= 1 /\ Len(kept'.sources) <= 1
        /\ kept' = [tasks |-> kept'.tasks, sources |-> kept'.sources]
        /\ lastBeat' \in Seq(0..MaxClock) /\ Len(lastBeat') <= 1
    BY <2>1
  <2> QED
    BY <1>1, <1>2, <1>3, <1>4, <2>1, <2>2, <2>3, <2>4 DEF TypeOK, FilesAreKnown, ProcessIsUp
<1>8. CASE Poll
  <2>1. /\ pc = "poll" /\ now' = clock /\ read' = files.manifest /\ iteration' = iteration + 1
        /\ kept' = [kept EXCEPT !.tasks = Keep(kept.tasks, LoadTaskContracts(files.tasks))]
        /\ pc' = IF queue' = {} THEN "beat" ELSE "execute"
        /\ UNCHANGED <<clock, files, edits, life, ends, result, runs, checks, lines, torn,
                       status, pending, lastBeat>>
    BY <1>8 DEF Poll, GoOn
  <2>2. PICK c : kept' = [kept EXCEPT !.tasks = c] /\ Len(c) <= 1
    <3>1. Len(Keep(kept.tasks, LoadTaskContracts(files.tasks))) <= 1
      BY <1>2 DEF Keep
    <3> QED
      BY <2>1, <3>1
  <2>3. kept' = [tasks |-> c, sources |-> kept.sources]
    BY <1>4, <2>2
  <2>4. PICK L : L = Loaded'
    OBVIOUS
  <2>5. /\ queue' \subseteq DOMAIN L /\ locks' = locks \cup {Key(L[i], clock) : i \in queue'}
    <3>1. kept'.tasks = Keep(kept.tasks, LoadTaskContracts(files.tasks))
      BY <1>4, <2>1
    <3>2. L = LoadTasks(files.manifest, Keep(kept.tasks, LoadTaskContracts(files.tasks))[1]).declarations
      BY <2>1, <2>4, <3>1 DEF Loaded
    <3> QED
      BY <1>8, <3>2 DEF Poll, Lock, Eligible
  <2>6. /\ DOMAIN L \subseteq DOMAIN files.manifest.entries \/ L = <<>>
        /\ \A i \in DOMAIN L : L[i] = files.manifest.entries[i] /\ TaskSound(L[i], kept'.tasks[1])
    <3>1. SoundOnly(read', kept'.tasks[1], Loaded')
      BY LoadedEntries, Zenon DEF Loaded
    <3> QED
      BY <2>1, <2>4, <3>1 DEF SoundOnly
  <2>7. /\ DOMAIN files.manifest.entries \subseteq Nat \ {0}
        /\ \A i \in DOMAIN files.manifest.entries : files.manifest.entries[i].id \in TaskIds
    BY <1>4, FilesAssumption
  <2>8. queue' \subseteq Nat \ {0}
    BY <2>5, <2>6, <2>7
  <2>9. \A i \in queue' : Key(L[i], clock) \in LockKeys
    <3> SUFFICES ASSUME NEW i \in queue' PROVE Key(L[i], clock) \in LockKeys
      OBVIOUS
    <3>1. L[i].id \in TaskIds /\ TaskSound(L[i], kept'.tasks[1])
      <4>1. i \in DOMAIN L /\ L # <<>>
        BY <2>5
      <4> QED
        BY <2>6, <2>7, <4>1
    <3> QED
      BY <1>1, <3>1, KeyOfTask
  <2>10. locks' \subseteq LockKeys
    BY <1>2, <2>5, <2>9
  <2>11. iteration' \in 0..MaxIterations /\ now' \in 0..clock'
    BY <1>1, <1>4, <2>1
  <2>12. /\ Len(kept'.tasks) <= 1 /\ Len(kept'.sources) <= 1
         /\ kept' = [tasks |-> kept'.tasks, sources |-> kept'.sources]
    BY <1>2, <2>2, <2>3
  <2> QED
    BY <1>1, <1>2, <1>3, <1>4, <2>1, <2>8, <2>10, <2>11, <2>12
       DEF TypeOK, FilesAreKnown, ProcessIsUp
<1>9. CASE Skip
  <2>1. /\ pc = "execute" /\ pc' = "audit" /\ result' = "skipped"
        /\ UNCHANGED <<clock, files, edits, life, ends, iteration, now, kept, read, locks, queue,
                       runs, checks, lines, torn, status, pending, lastBeat>>
    BY <1>9 DEF Skip
  <2> QED
    BY <1>1, <1>2, <1>3, <1>4, <2>1 DEF TypeOK, FilesAreKnown, ProcessIsUp, Results
<1>10. CASE Execute
  <2>1. /\ pc = "execute" /\ pc' = "audit" /\ runs' = Append(runs, Run)
        /\ UNCHANGED <<clock, files, edits, life, ends, iteration, now, read, locks, queue, lines,
                       torn, status, pending, lastBeat>>
    BY <1>10 DEF Execute
  <2>2. runs' \in Seq(RunRecords)
    BY <1>2, <2>1, CurrentTask, AppendProperties
  <2>3. /\ result' \in Results /\ Len(kept'.tasks) <= 1 /\ Len(kept'.sources) <= 1
        /\ kept' = [tasks |-> kept'.tasks, sources |-> kept'.sources]
    <3>1. CASE kept' = kept /\ result' = "success"
      BY <1>2, <1>4, <3>1 DEF Results
    <3>2. CASE CheckFeeds
      <4>1. result' \in Results
        BY <3>2 DEF CheckFeeds, Results
      <4>2. PICK c : kept' = [kept EXCEPT !.sources = c] /\ Len(c) <= 1
        <5>1. kept' = [kept EXCEPT !.sources = Keep(kept.sources, D!LoadSourceContracts(files.sources))]
          BY <3>2 DEF CheckFeeds
        <5>2. Len(Keep(kept.sources, D!LoadSourceContracts(files.sources))) <= 1
          BY <1>2 DEF Keep
        <5> QED
          BY <5>1, <5>2
      <4>3. kept' = [tasks |-> kept.tasks, sources |-> c]
        BY <1>4, <4>2
      <4> QED
        BY <1>2, <4>1, <4>2, <4>3
    <3> QED
      BY <1>10, <3>1, <3>2 DEF Execute, RunWorkflow
  <2> QED
    BY <1>1, <1>2, <1>3, <1>4, <2>1, <2>2, <2>3 DEF TypeOK, FilesAreKnown, ProcessIsUp
<1>11. CASE ExecuteRaises
  <2>1. /\ pc = "execute" /\ runs' = Append(runs, Run) /\ End("died")
        /\ UNCHANGED <<clock, files, edits, life, iteration, now, kept, read, locks, queue,
                       result, checks, lines, torn, status, pending, lastBeat>>
    BY <1>11 DEF ExecuteRaises
  <2>2. /\ pc' = "down" /\ ends' \in Seq({"running", "finished", "died"}) /\ Len(ends') = life
        /\ runs' \in Seq(RunRecords)
    BY <1>2, <2>1, EndTypes, CurrentTask, AppendProperties
  <2> QED
    BY <1>1, <1>2, <1>3, <1>4, <2>1, <2>2 DEF TypeOK, FilesAreKnown, ProcessIsUp
<1>12. CASE AppendAudit
  <2>1. /\ pc = "audit" /\ torn' = FALSE /\ queue' = queue \ {First}
        /\ lines' = Append(lines, [run |-> Run, result |-> result, readable |-> ~torn])
        /\ pc' = IF queue' = {} THEN "beat" ELSE "execute"
        /\ UNCHANGED <<clock, files, edits, life, ends, iteration, now, kept, read, locks, result,
                       runs, checks, status, pending, lastBeat>>
    BY <1>12 DEF AppendAudit, GoOn
  <2>2. [run |-> Run, result |-> result, readable |-> ~torn] \in AuditLines
    BY <1>2, <1>3, <2>1, CurrentTask DEF AuditLines
  <2>3. lines' \in Seq(AuditLines)
    BY <1>2, <2>1, <2>2, AppendProperties
  <2> QED
    BY <1>1, <1>2, <1>3, <1>4, <2>1, <2>3 DEF TypeOK, FilesAreKnown, ProcessIsUp
<1>13. CASE BeatThrottled
  <2>1. pc = "beat" /\ EndIteration
    BY <1>13 DEF BeatThrottled
  <2>2. UNCHANGED <<clock, files, edits, life, iteration, now, kept, read, locks, queue,
                       result, runs, checks, lines, torn, status, pending, lastBeat>>
    BY <1>13 DEF BeatThrottled
  <2>3. /\ pc' \in {"poll", "down"}
        /\ pc' = "poll" => iteration < MaxIterations /\ ends' = ends
        /\ ends' \in Seq({"running", "finished", "died"}) /\ Len(ends') = life
    BY <1>2, <2>1, EndTypes DEF EndIteration
  <2> QED
    BY <1>1, <1>2, <1>3, <1>4, <2>1, <2>2, <2>3 DEF TypeOK, FilesAreKnown, ProcessIsUp
<1>14. CASE BeatRaises
  <2>1. pc = "beat" /\ End("died")
    BY <1>14 DEF BeatRaises
  <2>2. UNCHANGED <<clock, files, edits, life, iteration, now, kept, read, locks, queue,
                       result, runs, checks, lines, torn, status, pending, lastBeat>>
    BY <1>14 DEF BeatRaises
  <2>3. /\ pc' = "down" /\ ends' \in Seq({"running", "finished", "died"}) /\ Len(ends') = life
    BY <2>1, EndTypes
  <2> QED
    BY <1>1, <1>2, <1>3, <1>4, <2>2, <2>3 DEF TypeOK, FilesAreKnown, ProcessIsUp
<1>15. CASE BeatOpens
  <2>1. /\ pc = "beat" /\ pc' = "write" /\ status' = <<>>
        /\ pending' = Bounded(Append(status, [at |-> now, life |-> life]))
        /\ UNCHANGED <<clock, files, edits, life, ends, iteration, now, kept, read, locks, queue,
                       result, runs, checks, lines, torn, lastBeat>>
    BY <1>15 DEF BeatOpens
  <2>2. [at |-> now, life |-> life] \in Beats
    <3>1. now \in 0..MaxClock /\ life \in 1..MaxLives
      BY <1>1, <1>4, <2>1
    <3> QED
      BY <3>1 DEF Beats
  <2>3. pending' \in Seq(Beats) /\ Len(pending') <= MaxStatus
    BY <1>3, <2>1, <2>2, AppendProperties, BoundedRecords
  <2>4. status' \in Seq(Beats) /\ Len(status') <= MaxStatus
    BY <2>1, ConstantsAssumption
  <2> QED
    BY <1>1, <1>2, <1>3, <1>4, <2>1, <2>3, <2>4 DEF TypeOK, FilesAreKnown, ProcessIsUp
<1>16. CASE BeatWrites
  <2>1. pc = "write" /\ EndIteration /\ status' = pending /\ lastBeat' = <<now>>
    BY <1>16 DEF BeatWrites
  <2>2. UNCHANGED <<clock, files, edits, life, iteration, now, kept, read, locks, queue,
                       result, runs, checks, lines, torn, pending>>
    BY <1>16 DEF BeatWrites
  <2>3. /\ pc' \in {"poll", "down"}
        /\ pc' = "poll" => iteration < MaxIterations /\ ends' = ends
        /\ ends' \in Seq({"running", "finished", "died"}) /\ Len(ends') = life
    BY <1>2, <2>1, EndTypes DEF EndIteration
  <2>4. lastBeat' \in Seq(0..MaxClock) /\ Len(lastBeat') <= 1
    BY <1>1, <2>1
  <2> QED
    BY <1>1, <1>2, <1>3, <1>4, <2>1, <2>2, <2>3, <2>4 DEF TypeOK, FilesAreKnown, ProcessIsUp
<1>17. CASE Crash
  <2>1. pc # "down" /\ End("died") /\ torn' \in BOOLEAN
    BY <1>3, <1>17 DEF Crash
  <2>2. UNCHANGED <<clock, files, edits, life, iteration, now, kept, read, locks, queue,
                       result, runs, checks, lines, status, pending, lastBeat>>
    BY <1>17 DEF Crash
  <2>3. /\ pc' = "down" /\ ends' \in Seq({"running", "finished", "died"}) /\ Len(ends') = life
    BY <2>1, EndTypes
  <2> QED
    BY <1>1, <1>2, <1>3, <1>4, <2>1, <2>2, <2>3 DEF TypeOK, FilesAreKnown, ProcessIsUp
<1>18. CASE UNCHANGED vars
  BY <1>18, Zenon DEF vars, SchedulerInv, TypeOK, FilesAreKnown, ProcessIsUp
<1> QED
  BY <1>5, <1>6, <1>7, <1>8, <1>9, <1>10, <1>11, <1>12, <1>13, <1>14, <1>15, <1>16, <1>17, <1>18
     DEF Next, Stopped

\* Where the process stops, or goes on from its heartbeat, nothing that was run
\* or audited changes.
LEMMA QuietSteps ==
    ASSUME SchedulerInv, TypeOK', FilesAreKnown', ProcessIsUp',
           UNCHANGED <<life, now, kept, read, locks, queue, result, runs, checks, lines>>,
           \/ pc' = pc /\ ends' = ends
           \/ pc \in {"beat", "write"} /\ pc' \in {"write", "poll"} /\ ends' = ends
           \/ pc \in {"beat", "write"} /\ End("finished")
           \/ pc # "down" /\ End("died")
    PROVE  SchedulerInv'
<1>1. /\ Loaded' = Loaded /\ First' = First /\ Run' = Run /\ Served' = Served
      /\ Performed' = Performed
  BY DEF Loaded, First, Run, Current, Served, Performed
<1>2. /\ pc' \in {"execute", "audit"} => pc' = pc
      /\ pc' # "down" => pc # "down"
      /\ pc' \in {"beat", "write"} => pc \in {"beat", "write"}
  BY DEF End
<1>3. RunsAreLocked' /\ OncePerWindow' /\ ChecksFollowContracts' /\ FeedVerdictsAgree'
  BY DEF SchedulerInv, RunsAreLocked, OncePerWindow, ChecksFollowContracts, FeedVerdictsAgree
<1>4. QueueIsLocked'
  BY <1>1, <1>2 DEF SchedulerInv, QueueIsLocked
<1>5. LocksAreServed'
  <2>1. pc' # "down" => \A k \in locks :
           \/ k \in Served
           \/ pc' \in {"execute", "audit"} /\ \E i \in queue : k = Key(Loaded[i], now)
    BY <1>2 DEF SchedulerInv, LocksAreServed, End
  <2>2. pc' \in {"execute", "audit", "beat", "write"} =>
           kept.tasks # <<>> /\ \A i \in Eligible(Loaded, now) : Key(Loaded[i], now) \in locks
    BY <1>2 DEF SchedulerInv, LocksAreServed
  <2> QED
    BY <1>1, <2>1, <2>2 DEF LocksAreServed
<1>6. AuditIsDue'
  BY <1>1, <1>2 DEF SchedulerInv, AuditIsDue
<1>7. LinesMatchRuns'
  <2>1. /\ life \in Nat /\ ends \in Seq({"running", "finished", "died"}) /\ Len(ends) = life
        /\ pc # "down" => life >= 1 /\ ends[life] = "running"
    <3>1. life \in 0..MaxLives /\ ends \in Seq({"running", "finished", "died"}) /\ Len(ends) = life
      BY Zenon DEF SchedulerInv, TypeOK
    <3>2. pc # "down" => life >= 1 /\ ends[life] = "running"
      BY DEF SchedulerInv, ProcessIsUp
    <3> QED
      BY <3>1, <3>2, ConstantsAssumption
  <2>2. ASSUME NEW r \in 1..Len(runs),
               \/ ends[runs[r].life] = "died"
               \/ runs[r].life = life /\ pc = "audit" /\ result # "skipped"
        PROVE  \/ ends'[runs[r].life] = "died"
               \/ runs[r].life = life /\ pc' = "audit" /\ result # "skipped"
    <3>1. runs[r].life \in 1..life
      BY DEF SchedulerInv, RunsAreLocked
    <3>2. ASSUME NEW how, End(how)
          PROVE  pc' = "down" /\ ends'[runs[r].life] = IF runs[r].life = life THEN how ELSE ends[runs[r].life]
      <4>1. pc' = "down" /\ ends' = [ends EXCEPT ![life] = how]
        BY <3>2 DEF End
      <4>2. runs[r].life \in DOMAIN ends
        <5>1. DOMAIN ends = 1..life
          BY <2>1, LenProperties
        <5> QED
          BY <3>1, <5>1
      <4> QED
        BY <4>1, <4>2
    <3>3. CASE pc' = pc /\ ends' = ends
      BY <2>2, <3>3
    <3>4. CASE pc \in {"beat", "write"} /\ ends' = ends
      BY <2>2, <3>4
    <3>5. CASE pc \in {"beat", "write"} /\ End("finished")
      <4>1. ends[life] = "running" /\ pc # "audit"
        BY <2>1, <3>5
      <4>2. ends[runs[r].life] = "died" /\ runs[r].life # life
        BY <2>2, <4>1
      <4>3. ends'[runs[r].life] = ends[runs[r].life]
        BY <3>2, <3>5, <4>2
      <4> QED
        BY <4>2, <4>3
    <3>6. CASE End("died")
      BY <2>2, <3>2, <3>6
    <3> QED
      BY <3>3, <3>4, <3>5, <3>6
  <2> QED
    BY <1>1, <2>2 DEF SchedulerInv, LinesMatchRuns
<1> QED
  BY <1>3, <1>4, <1>5, <1>6, <1>7 DEF SchedulerInv

\* What is served, by positions of the runs and lines.
LEMMA ServedMeans ==
    ASSUME NEW rs \in Seq(RunRecords), NEW ls \in Seq(AuditLines), NEW of, NEW k
    PROVE  k \in ServedIn(rs, ls, of) <=>
              \/ \E r \in 1..Len(rs) : rs[r].life = of /\ rs[r].key = k
              \/ \E i \in 1..Len(ls) : ls[i].run.life = of /\ ls[i].run.key = k
<1>1. DOMAIN rs = 1..Len(rs) /\ DOMAIN ls = 1..Len(ls)
  BY LenProperties
<1> QED
  BY <1>1, Zenon DEF ServedIn, ToSet

\* A new process has no locks, and what was run and audited stays.
LEMMA StartKeeps ==
    ASSUME SchedulerInv, Start, TypeOK', FilesAreKnown', ProcessIsUp'
    PROVE  SchedulerInv'
<1>1. /\ pc = "down" /\ life' = life + 1 /\ pc' = "poll" /\ ends' = Append(ends, "running")
      /\ locks' = {} /\ UNCHANGED <<runs, checks, lines>>
  BY DEF Start, history
<1>2. life \in Nat /\ ends \in Seq({"running", "finished", "died"}) /\ Len(ends) = life
  <2>1. life \in 0..MaxLives /\ ends \in Seq({"running", "finished", "died"}) /\ Len(ends) = life
    BY Zenon DEF SchedulerInv, TypeOK
  <2> QED
    BY <2>1, ConstantsAssumption
<1>3. \A r \in 1..Len(runs) : runs[r].life \in 1..life
  BY DEF SchedulerInv, RunsAreLocked
<1>4. RunsAreLocked'
  BY <1>1, <1>2, <1>3 DEF RunsAreLocked
<1>5. QueueIsLocked' /\ LocksAreServed' /\ AuditIsDue'
  BY <1>1 DEF QueueIsLocked, LocksAreServed, AuditIsDue
<1>6. ChecksFollowContracts'
  <2>1. \A c \in checks : c.life \in 1..life
    BY DEF SchedulerInv, ChecksFollowContracts
  <2> QED
    BY <1>1, <1>2, <2>1 DEF ChecksFollowContracts
<1>7. OncePerWindow' /\ FeedVerdictsAgree'
  BY <1>1 DEF SchedulerInv, OncePerWindow, FeedVerdictsAgree
<1>8. LinesMatchRuns'
  <2>1. \A l \in 1..life : ends'[l] = ends[l]
    BY <1>1, <1>2, AppendProperties
  <2>2. Performed' = Performed
    BY <1>1 DEF Performed
  <2>3. ASSUME NEW r \in 1..Len(runs)
        PROVE  \/ \E i \in Performed : lines[i].run = runs[r]
               \/ /\ \A s \in 1..Len(runs) : runs[s].life = runs[r].life => s <= r
                  /\ ends'[runs[r].life] = "died"
    BY <1>1, <1>3, <2>1 DEF SchedulerInv, LinesMatchRuns
  <2>4. /\ \A i \in Performed : \E r \in 1..Len(runs) : lines[i].run = runs[r]
        /\ \A i, j \in Performed : \A r, s \in 1..Len(runs) :
              i < j /\ lines[i].run = runs[r] /\ lines[j].run = runs[s] => r < s
    BY Zenon DEF SchedulerInv, LinesMatchRuns
  <2>5. runs' = runs /\ lines' = lines
    BY <1>1
  <2> HIDE <1>1
  <2> QED
    BY <2>2, <2>3, <2>4, <2>5 DEF LinesMatchRuns
<1> QED
  BY <1>4, <1>5, <1>6, <1>7, <1>8 DEF SchedulerInv

\* An iteration locks the windows of the tasks that it puts into the queue.
LEMMA PollKeeps ==
    ASSUME SchedulerInv, Poll, TypeOK', FilesAreKnown', ProcessIsUp'
    PROVE  SchedulerInv'
<1>1. /\ pc = "poll" /\ now' = clock
      /\ kept' = [kept EXCEPT !.tasks = Keep(kept.tasks, LoadTaskContracts(files.tasks))]
      /\ pc' = IF queue' = {} THEN "beat" ELSE "execute"
      /\ UNCHANGED <<life, ends, result, runs, checks, lines>>
  BY DEF Poll, GoOn, history, fileVars
<1>2. PICK L : L = Loaded'
  OBVIOUS
<1>3. /\ kept'.tasks = Keep(kept.tasks, LoadTaskContracts(files.tasks))
      /\ kept'.sources = kept.sources
  BY <1>1 DEF SchedulerInv, FilesAreKnown
<1>4. /\ queue' = {i \in Eligible(L, clock) : Key(L[i], clock) \notin locks}
      /\ locks' = locks \cup {Key(L[i], clock) : i \in queue'}
      /\ Eligible(L, clock) \subseteq DOMAIN L
  <2>1. L = LoadTasks(files.manifest, Keep(kept.tasks, LoadTaskContracts(files.tasks))[1]).declarations
    BY <1>2, <1>3 DEF Poll, Loaded
  <2> QED
    BY <2>1 DEF Poll, Lock, Eligible
<1>5. RunsAreLocked'
  BY <1>1, <1>4 DEF SchedulerInv, RunsAreLocked
<1>6. QueueIsLocked'
  <2>1. queue' \subseteq DOMAIN L /\ \A i \in queue' : Key(L[i], clock) \in locks'
    BY <1>4
  <2>2. ASSUME NEW i \in queue', NEW r \in 1..Len(runs), runs[r].life = life
        PROVE  runs[r].key # Key(L[i], clock)
    BY <1>4, <2>2 DEF SchedulerInv, RunsAreLocked
  <2> QED
    BY <1>1, <1>2, <2>1, <2>2 DEF QueueIsLocked
<1>7. LocksAreServed'
  <2>1. \A k \in locks : k \in Served'
    BY <1>1 DEF SchedulerInv, LocksAreServed, Served
  <2>2. \A k \in locks' : k \in Served' \/ \E i \in queue' : k = Key(L[i], clock)
    BY <1>4, <2>1
  <2>3. queue' # {} => pc' = "execute"
    BY <1>1
  <2>4. kept'.tasks # <<>>
    BY <1>3 DEF Keep
  <2>5. \A i \in Eligible(L, clock) : Key(L[i], clock) \in locks'
    BY <1>4
  <2> QED
    BY <1>1, <1>2, <2>2, <2>3, <2>4, <2>5 DEF LocksAreServed
<1>8. AuditIsDue' /\ OncePerWindow' /\ FeedVerdictsAgree'
  BY <1>1 DEF SchedulerInv, AuditIsDue, OncePerWindow, FeedVerdictsAgree
<1>9. ChecksFollowContracts'
  BY <1>1, <1>3 DEF SchedulerInv, ChecksFollowContracts
<1>10. LinesMatchRuns'
  <2>1. Performed' = Performed
    BY <1>1 DEF Performed
  <2> QED
    BY <1>1, <2>1 DEF SchedulerInv, LinesMatchRuns
<1> QED
  BY <1>5, <1>6, <1>7, <1>8, <1>9, <1>10 DEF SchedulerInv

\* A run begins: it is in a window of its own, and the last of its process.
LEMMA RunBegins ==
    ASSUME SchedulerInv, pc = "execute", runs' = Append(runs, Run), UNCHANGED <<life, locks, lines>>
    PROVE  /\ Len(runs) \in Nat /\ Len(runs') = Len(runs) + 1
           /\ runs'[Len(runs) + 1] = Run /\ \A r \in 1..Len(runs) : runs'[r] = runs[r]
           /\ RunsAreLocked' /\ OncePerWindow'
           /\ \A i \in Performed : lines[i].run # Run
           /\ \A i \in Performed : \E r \in 1..Len(runs') : lines[i].run = runs'[r]
           /\ \A i, j \in Performed : \A r, s \in 1..Len(runs') :
                 i < j /\ lines[i].run = runs'[r] /\ lines[j].run = runs'[s] => r < s
           /\ \A r \in 1..Len(runs) :
                 \/ \E i \in Performed : lines[i].run = runs'[r]
                 \/ /\ \A s \in 1..Len(runs') : runs'[s].life = runs'[r].life => s <= r
                    /\ ends[runs'[r].life] = "died" /\ runs'[r].life # life
<1>1. runs \in Seq(RunRecords) /\ Run \in RunRecords /\ First \in queue
  BY CurrentTask, Zenon DEF SchedulerInv, TypeOK
<1>2. /\ Len(runs) \in Nat /\ Len(runs') = Len(runs) + 1
      /\ runs'[Len(runs) + 1] = Run /\ \A r \in 1..Len(runs) : runs'[r] = runs[r]
  BY <1>1, AppendProperties, LenProperties
<1>3. \A r \in 1..Len(runs') : r \in 1..Len(runs) \/ r = Len(runs) + 1
  BY <1>2
<1>4. Run.life = life /\ Run.key = Key(Current, now)
  BY DEF Run
<1>5. Run.key \in locks /\ life \in 1..life
  <2>1. Run.key \in locks
    BY <1>1, <1>4 DEF SchedulerInv, QueueIsLocked, Current
  <2>2. life \in 1..MaxLives
    BY <1>1, <1>4 DEF RunRecords
  <2> QED
    BY <2>1, <2>2, ConstantsAssumption
<1>6. \A r \in 1..Len(runs) : runs[r].life # life \/ runs[r].key # Run.key
  BY <1>1, <1>4 DEF SchedulerInv, QueueIsLocked, Current
<1>7. RunsAreLocked'
  BY <1>2, <1>3, <1>4, <1>5 DEF SchedulerInv, RunsAreLocked
<1>8. OncePerWindow'
  BY <1>2, <1>3, <1>4, <1>6 DEF SchedulerInv, OncePerWindow
<1>9. \A i \in Performed : \E r \in 1..Len(runs) : lines[i].run = runs[r]
  BY Zenon DEF SchedulerInv, LinesMatchRuns
<1>10. \A i \in Performed : lines[i].run # Run
  BY <1>4, <1>6, <1>9
<1>11. \A i \in Performed : \E r \in 1..Len(runs') : lines[i].run = runs'[r]
  BY <1>2, <1>9
<1>12. \A i, j \in Performed : \A r, s \in 1..Len(runs') :
          i < j /\ lines[i].run = runs'[r] /\ lines[j].run = runs'[s] => r < s
  <2>1. \A i, j \in Performed : \A r, s \in 1..Len(runs) :
           i < j /\ lines[i].run = runs[r] /\ lines[j].run = runs[s] => r < s
    BY Zenon DEF SchedulerInv, LinesMatchRuns
  <2> QED
    BY <1>2, <1>3, <1>10, <2>1
<1>13. ASSUME NEW r \in 1..Len(runs)
       PROVE  \/ \E i \in Performed : lines[i].run = runs'[r]
              \/ /\ \A s \in 1..Len(runs') : runs'[s].life = runs'[r].life => s <= r
                 /\ ends[runs'[r].life] = "died" /\ runs'[r].life # life
  <2>1. ends[life] = "running"
    BY Zenon DEF SchedulerInv, ProcessIsUp
  <2>2. CASE \E i \in Performed : lines[i].run = runs[r]
    BY <1>2, <2>2
  <2>3. CASE ~ \E i \in Performed : lines[i].run = runs[r]
    <3>1. /\ \A s \in 1..Len(runs) : runs[s].life = runs[r].life => s <= r
          /\ ends[runs[r].life] = "died"
      BY <2>3 DEF SchedulerInv, LinesMatchRuns
    <3>2. runs[r].life # life
      BY <2>1, <3>1
    <3> QED
      BY <1>2, <1>3, <1>4, <3>1, <3>2
  <2> QED
    BY <2>2, <2>3
<1> QED
  BY <1>2, <1>7, <1>8, <1>10, <1>11, <1>12, <1>13

\* Running a task, or refusing to, serves its window; what becomes of the run
\* is audited next, unless the process dies of it.
LEMMA TaskKeeps ==
    ASSUME SchedulerInv, Skip \/ Execute \/ ExecuteRaises, TypeOK', FilesAreKnown', ProcessIsUp'
    PROVE  SchedulerInv'
<1>1. /\ pc = "execute"
      /\ UNCHANGED <<life, now, read, locks, queue, lines>>
      /\ kept'.tasks = kept.tasks /\ kept' = [tasks |-> kept'.tasks, sources |-> kept'.sources]
  <2>1. /\ pc = "execute" /\ UNCHANGED <<life, now, read, locks, queue, lines>>
        /\ kept' = kept \/ CheckFeeds
    BY DEF Skip, Execute, ExecuteRaises, RunWorkflow, world, fileVars
  <2>2. kept'.tasks = kept.tasks
    <3>1. kept = [tasks |-> kept.tasks, sources |-> kept.sources]
      BY DEF SchedulerInv, FilesAreKnown
    <3> QED
      BY <2>1, <3>1 DEF CheckFeeds
  <2> QED
    BY <2>1, <2>2 DEF FilesAreKnown
<1>2. /\ Loaded' = Loaded /\ First' = First /\ Run' = Run /\ Performed' = Performed
  BY <1>1 DEF Loaded, First, Run, Current, Performed
<1>3. /\ runs \in Seq(RunRecords) /\ lines \in Seq(AuditLines) /\ First \in queue
      /\ Run.life = life /\ Run.key = Key(Loaded[First], now)
  BY <1>1, CurrentTask, Zenon DEF SchedulerInv, TypeOK, Run, Current
<1>4. CASE Skip
  <2>1. pc' = "audit" /\ result' = "skipped" /\ UNCHANGED <<ends, kept, runs, checks>>
    BY <1>4 DEF Skip, world, history
  <2>2. Served' = Served
    BY <1>1, <2>1 DEF Served
  <2>3. RunsAreLocked' /\ OncePerWindow' /\ ChecksFollowContracts' /\ FeedVerdictsAgree'
        /\ AuditIsDue'
    BY <1>1, <2>1 DEF SchedulerInv, RunsAreLocked, OncePerWindow, ChecksFollowContracts,
                      FeedVerdictsAgree, AuditIsDue
  <2>4. QueueIsLocked' /\ LocksAreServed'
    BY <1>1, <1>2, <2>1, <2>2 DEF SchedulerInv, QueueIsLocked, LocksAreServed
  <2>5. LinesMatchRuns'
    BY <1>1, <1>2, <2>1 DEF SchedulerInv, LinesMatchRuns
  <2> QED
    BY <2>3, <2>4, <2>5 DEF SchedulerInv
<1>5. CASE Execute
  <2>1. pc' = "audit" /\ runs' = Append(runs, Run) /\ UNCHANGED ends /\ RunWorkflow
    BY <1>5 DEF Execute, world
  <2>2. result' # "skipped"
    BY <2>1 DEF RunWorkflow, CheckFeeds
  <2>a. /\ Len(runs) \in Nat /\ Len(runs') = Len(runs) + 1
        /\ runs'[Len(runs) + 1] = Run /\ \A r \in 1..Len(runs) : runs'[r] = runs[r]
    BY <1>1, <2>1, RunBegins
  <2>b. \A r \in 1..Len(runs') : r \in 1..Len(runs) \/ r = Len(runs) + 1
    BY <2>a
  <2>3. ChecksFollowContracts' /\ FeedVerdictsAgree'
    <3>1. /\ \A c \in checks : c.life \in 1..life
          /\ \A c \in checks : c.life = life =>
                kept.sources # <<>> /\ c.verdict = Verdict(c.feeds, kept.sources[1])
          /\ \A a, b \in checks : a.life = b.life /\ a.feeds = b.feeds => a.verdict = b.verdict
      BY Zenon DEF SchedulerInv, ChecksFollowContracts, FeedVerdictsAgree
    <3>2. CASE kept' = kept /\ checks' = checks
      BY <1>1, <3>1, <3>2 DEF ChecksFollowContracts, FeedVerdictsAgree
    <3>3. CASE CheckFeeds
      <4>1. PICK sources, check :
               /\ sources = Keep(kept.sources, D!LoadSourceContracts(files.sources))
               /\ check = [life |-> life, feeds |-> files.feeds,
                           verdict |-> Verdict(files.feeds, sources[1])]
               /\ kept' = [kept EXCEPT !.sources = sources]
               /\ checks' = checks \union {check}
        BY <3>3, Zenon DEF CheckFeeds, Verdict
      <4>2. kept'.sources = sources
        <5>1. kept = [tasks |-> kept.tasks, sources |-> kept.sources]
          BY DEF SchedulerInv, FilesAreKnown
        <5> QED
          BY <4>1, <5>1
      <4>3. sources # <<>> /\ (kept.sources # <<>> => sources = kept.sources)
        BY <4>1 DEF Keep
      <4>4. /\ check.life = life /\ check.feeds = files.feeds
            /\ check.verdict = Verdict(check.feeds, sources[1])
        BY <4>1
      <4>5. life \in 1..life
        <5>1. Run \in RunRecords
          BY <1>1, CurrentTask
        <5> QED
          BY <1>3, <5>1, ConstantsAssumption DEF RunRecords
      <4>6. \A c \in checks' :
               /\ c.life \in 1..life
               /\ c.life = life => c.verdict = Verdict(c.feeds, sources[1])
        BY <3>1, <4>1, <4>3, <4>4, <4>5
      <4>7. \A a, b \in checks' : a.life = b.life /\ a.feeds = b.feeds => a.verdict = b.verdict
        BY <3>1, <4>1, <4>4, <4>6
      <4> QED
        BY <1>1, <4>2, <4>3, <4>6, <4>7 DEF ChecksFollowContracts, FeedVerdictsAgree
    <3> QED
      BY <2>1, <3>2, <3>3 DEF RunWorkflow
  <2>4. QueueIsLocked'
    <3>1. /\ queue \subseteq DOMAIN Loaded
          /\ \A i \in queue :
                /\ Key(Loaded[i], now) \in locks
                /\ \A r \in 1..Len(runs) :
                      runs[r].life = life => runs[r].key # Key(Loaded[i], now)
      BY <1>1 DEF SchedulerInv, QueueIsLocked
    <3>2. ASSUME NEW i \in queue, Key(Loaded[i], now) = Key(Loaded[First], now)
          PROVE  i = First
      <4>1. Loaded[i].id = Loaded[First].id
        BY <3>2 DEF Key
      <4> QED
        <5>1. \A k, j \in DOMAIN Loaded : Loaded[k].id = Loaded[j].id => k = j
          <6>1. SoundOnly(read, kept.tasks[1], Loaded)
            BY LoadedEntries, Zenon DEF Loaded
          <6> QED
            BY <6>1 DEF SoundOnly
        <5> QED
          BY <1>3, <3>1, <4>1, <5>1
    <3>3. ASSUME NEW i \in queue, NEW r \in 1..Len(runs'), runs'[r].life = life,
                 runs'[r].key = Key(Loaded[i], now)
          PROVE  i = First
      BY <1>3, <2>a, <2>b, <3>1, <3>2, <3>3
    <3> QED
      BY <1>1, <1>2, <2>1, <2>2, <3>1, <3>3 DEF QueueIsLocked
  <2>5. LocksAreServed'
    <3>1. runs' \in Seq(RunRecords)
      BY DEF TypeOK
    <3>2. ASSUME NEW k \in Served PROVE k \in Served'
      <4>1. \/ \E r \in 1..Len(runs) : runs[r].life = life /\ runs[r].key = k
            \/ \E i \in 1..Len(lines) : lines[i].run.life = life /\ lines[i].run.key = k
        BY <1>3, ServedMeans DEF Served
      <4>2. \/ \E r \in 1..Len(runs') : runs'[r].life = life /\ runs'[r].key = k
            \/ \E i \in 1..Len(lines) : lines[i].run.life = life /\ lines[i].run.key = k
        BY <2>a, <4>1
      <4>3. k \in ServedIn(runs', lines, life)
        BY <1>3, <3>1, <4>2, ServedMeans
      <4> QED
        BY <1>1, <4>3 DEF Served
    <3>3. /\ \A k \in locks : k \in Served \/ \E i \in queue : k = Key(Loaded[i], now)
          /\ kept.tasks # <<>>
          /\ \A i \in Eligible(Loaded, now) : Key(Loaded[i], now) \in locks
      BY <1>1 DEF SchedulerInv, LocksAreServed
    <3> QED
      BY <1>1, <1>2, <2>1, <3>2, <3>3 DEF LocksAreServed
  <2>6. AuditIsDue'
    <3>1. runs' # <<>>
      BY <2>a
    <3>2. \A i \in Performed : lines[i].run # Run
      BY <1>1, <2>1, RunBegins
    <3> QED
      BY <1>1, <1>2, <2>1, <2>a, <3>1, <3>2 DEF AuditIsDue
  <2>7. LinesMatchRuns'
    <3>1. /\ \A i \in Performed : \E r \in 1..Len(runs') : lines[i].run = runs'[r]
          /\ \A i, j \in Performed : \A r, s \in 1..Len(runs') :
                i < j /\ lines[i].run = runs'[r] /\ lines[j].run = runs'[s] => r < s
          /\ \A r \in 1..Len(runs) :
                \/ \E i \in Performed : lines[i].run = runs'[r]
                \/ /\ \A s \in 1..Len(runs') : runs'[s].life = runs'[r].life => s <= r
                   /\ ends[runs'[r].life] = "died"
      BY <1>1, <2>1, RunBegins
    <3>2. /\ \A s \in 1..Len(runs') : s <= Len(runs) + 1
          /\ runs'[Len(runs) + 1].life = life
      BY <1>3, <2>a
    <3>3. ASSUME NEW r \in 1..Len(runs')
          PROVE  \/ \E i \in Performed : lines[i].run = runs'[r]
                 \/ /\ \A s \in 1..Len(runs') : runs'[s].life = runs'[r].life => s <= r
                    /\ \/ ends[runs'[r].life] = "died"
                       \/ runs'[r].life = life /\ pc' = "audit" /\ result' # "skipped"
      BY <2>1, <2>2, <2>b, <3>1, <3>2
    <3> QED
      BY <1>1, <1>2, <2>1, <3>1, <3>3 DEF LinesMatchRuns
  <2> QED
    BY <1>1, <2>1, <2>3, <2>4, <2>5, <2>6, <2>7, RunBegins DEF SchedulerInv
<1>6. CASE ExecuteRaises
  <2>1. pc' = "down" /\ runs' = Append(runs, Run) /\ End("died") /\ UNCHANGED <<kept, checks, result>>
    BY <1>6 DEF ExecuteRaises, End
  <2>2. ChecksFollowContracts' /\ FeedVerdictsAgree'
    BY <1>1, <2>1 DEF SchedulerInv, ChecksFollowContracts, FeedVerdictsAgree
  <2>3. QueueIsLocked' /\ LocksAreServed' /\ AuditIsDue'
    BY <2>1 DEF QueueIsLocked, LocksAreServed, AuditIsDue
  <2>4. LinesMatchRuns'
    <3>1. /\ \A i \in Performed : \E r \in 1..Len(runs') : lines[i].run = runs'[r]
          /\ \A i, j \in Performed : \A r, s \in 1..Len(runs') :
                i < j /\ lines[i].run = runs'[r] /\ lines[j].run = runs'[s] => r < s
          /\ \A r \in 1..Len(runs) :
                \/ \E i \in Performed : lines[i].run = runs'[r]
                \/ /\ \A s \in 1..Len(runs') : runs'[s].life = runs'[r].life => s <= r
                   /\ ends[runs'[r].life] = "died" /\ runs'[r].life # life
          /\ Len(runs) \in Nat /\ Len(runs') = Len(runs) + 1 /\ runs'[Len(runs) + 1] = Run
          /\ RunsAreLocked'
      BY <1>1, <2>1, RunBegins
    <3>2. /\ \A r \in 1..Len(runs') : r \in 1..Len(runs) \/ r = Len(runs) + 1
          /\ \A s \in 1..Len(runs') : s <= Len(runs) + 1
          /\ runs'[Len(runs) + 1].life = life
      BY <1>3, <3>1
    <3>3. /\ ends'[life] = "died"
          /\ \A l \in 1..life : l # life => ends'[l] = ends[l]
      <4>1. ends \in Seq({"running", "finished", "died"}) /\ Len(ends) = life
        BY Zenon DEF SchedulerInv, TypeOK
      <4>2. life \in 1..Len(ends)
        <5>1. Run \in RunRecords
          BY <1>1, CurrentTask
        <5> QED
          BY <1>3, <4>1, <5>1, ConstantsAssumption DEF RunRecords
      <4>3. ends' = [ends EXCEPT ![life] = "died"]
        BY <2>1 DEF End
      <4> QED
        BY <4>1, <4>2, <4>3, ExceptSeq
    <3>4. \A r \in 1..Len(runs) : runs'[r].life \in 1..life
      BY <1>1, <3>1 DEF RunsAreLocked
    <3>5. ASSUME NEW r \in 1..Len(runs')
          PROVE  \/ \E i \in Performed : lines[i].run = runs'[r]
                 \/ /\ \A s \in 1..Len(runs') : runs'[s].life = runs'[r].life => s <= r
                    /\ ends'[runs'[r].life] = "died"
      BY <3>1, <3>2, <3>3, <3>4
    <3> QED
      BY <1>1, <1>2, <3>1, <3>5 DEF LinesMatchRuns
  <2> QED
    BY <1>1, <2>1, <2>2, <2>3, <2>4, RunBegins DEF SchedulerInv
<1> QED
  BY <1>4, <1>5, <1>6

\* The audit gets the line that is due.
LEMMA AuditKeeps ==
    ASSUME SchedulerInv, AppendAudit, TypeOK', FilesAreKnown', ProcessIsUp'
    PROVE  SchedulerInv'
<1>1. /\ pc = "audit" /\ queue' = queue \ {First}
      /\ lines' = Append(lines, [run |-> Run, result |-> result, readable |-> ~torn])
      /\ pc' = IF queue' = {} THEN "beat" ELSE "execute"
      /\ UNCHANGED <<life, ends, now, kept, read, locks, result, runs, checks>>
  BY DEF AppendAudit, GoOn, history
<1> DEFINE m == Len(lines) + 1
<1>2. /\ lines \in Seq(AuditLines) /\ lines' \in Seq(AuditLines) /\ runs \in Seq(RunRecords)
      /\ [run |-> Run, result |-> result, readable |-> ~torn] \in AuditLines
  <2>1. /\ lines \in Seq(AuditLines) /\ runs \in Seq(RunRecords) /\ result \in Results
        /\ torn \in BOOLEAN
    BY Zenon DEF SchedulerInv, TypeOK
  <2>2. [run |-> Run, result |-> result, readable |-> ~torn] \in AuditLines
    BY <1>1, <2>1, CurrentTask DEF AuditLines
  <2> QED
    BY <1>1, <2>1, <2>2, AppendProperties
<1>3. /\ Len(lines) \in Nat /\ Len(lines') = m
      /\ lines'[m] = [run |-> Run, result |-> result, readable |-> ~torn]
      /\ \A i \in 1..Len(lines) : lines'[i] = lines[i]
  BY <1>1, <1>2, AppendProperties, LenProperties
<1>4. lines'[m].run = Run /\ lines'[m].result = result
  BY <1>3
<1>5. \A i \in 1..Len(lines') : i \in 1..Len(lines) \/ i = m
  BY <1>3
<1>6. Performed' = IF result = "skipped" THEN Performed ELSE Performed \cup {m}
  BY <1>3, <1>4, <1>5 DEF Performed
<1>7. First \in queue /\ Run.life = life /\ Run.key = Key(Loaded[First], now)
  BY <1>1, CurrentTask DEF Run, Current
<1>8. Loaded' = Loaded
  BY <1>1 DEF Loaded
<1>9. RunsAreLocked' /\ OncePerWindow' /\ ChecksFollowContracts' /\ FeedVerdictsAgree'
      /\ AuditIsDue'
  BY <1>1 DEF SchedulerInv, RunsAreLocked, OncePerWindow, ChecksFollowContracts,
              FeedVerdictsAgree, AuditIsDue
<1>10. QueueIsLocked'
  <2>1. queue \subseteq DOMAIN Loaded
    BY <1>1 DEF SchedulerInv, QueueIsLocked
  <2>2. ASSUME NEW i \in queue'
        PROVE  /\ Key(Loaded[i], now) \in locks
               /\ \A r \in 1..Len(runs) :
                     runs[r].life = life => runs[r].key # Key(Loaded[i], now)
    BY <1>1 DEF SchedulerInv, QueueIsLocked
  <2> QED
    BY <1>1, <1>8, <2>1, <2>2 DEF QueueIsLocked
<1>11. LocksAreServed'
  <2>1. ASSUME NEW k \in locks
        PROVE  k \in Served' \/ \E i \in queue' : k = Key(Loaded[i], now)
    <3>1. k \in Served \/ \E i \in queue : k = Key(Loaded[i], now)
      BY <1>1 DEF SchedulerInv, LocksAreServed
    <3>2. CASE k \in Served
      <4>1. \/ \E r \in 1..Len(runs) : runs[r].life = life /\ runs[r].key = k
            \/ \E i \in 1..Len(lines) : lines[i].run.life = life /\ lines[i].run.key = k
        BY <1>2, <3>2, ServedMeans DEF Served
      <4>2. \/ \E r \in 1..Len(runs) : runs[r].life = life /\ runs[r].key = k
            \/ \E i \in 1..Len(lines') : lines'[i].run.life = life /\ lines'[i].run.key = k
        BY <1>3, <4>1
      <4>3. k \in ServedIn(runs, lines', life)
        BY <1>2, <4>2, ServedMeans
      <4> QED
        BY <1>1, <4>3 DEF Served
    <3>3. CASE k = Key(Loaded[First], now)
      <4>1. lines'[m].run.life = life /\ lines'[m].run.key = k /\ m \in 1..Len(lines')
        BY <1>3, <1>4, <1>7, <3>3
      <4>2. k \in ServedIn(runs, lines', life)
        BY <1>2, <4>1, ServedMeans
      <4> QED
        BY <1>1, <4>2 DEF Served
    <3>4. CASE \E i \in queue \ {First} : k = Key(Loaded[i], now)
      BY <1>1, <3>4
    <3> QED
      BY <3>1, <3>2, <3>3, <3>4
  <2>2. kept.tasks # <<>> /\ \A i \in Eligible(Loaded, now) : Key(Loaded[i], now) \in locks
    BY <1>1 DEF SchedulerInv, LocksAreServed
  <2>3. queue' # {} => pc' = "execute"
    BY <1>1
  <2> QED
    BY <1>1, <1>8, <2>1, <2>2, <2>3 DEF LocksAreServed
<1>12. LinesMatchRuns'
  <2> DEFINE n == Len(runs)
  <2>1. /\ \A i \in Performed : \E r \in 1..n : lines[i].run = runs[r]
        /\ \A i, j \in Performed : \A r, s \in 1..n :
              i < j /\ lines[i].run = runs[r] /\ lines[j].run = runs[s] => r < s
        /\ \A r, s \in 1..n : runs[r] = runs[s] => r = s
    BY Zenon DEF SchedulerInv, LinesMatchRuns, OncePerWindow
  <2>2. ASSUME NEW r \in 1..n, ~ \E i \in Performed : lines[i].run = runs[r]
        PROVE  /\ \A s \in 1..n : runs[s].life = runs[r].life => s <= r
               /\ \/ ends[runs[r].life] = "died"
                  \/ runs[r].life = life /\ result # "skipped"
    <3>1. LinesMatchRuns
      BY DEF SchedulerInv
    <3>2. /\ \A s \in 1..Len(runs) : runs[s].life = runs[r].life => s <= r
          /\ \/ ends[runs[r].life] = "died"
             \/ runs[r].life = life /\ pc = "audit" /\ result # "skipped"
      BY <2>2, <3>1 DEF LinesMatchRuns
    <3> QED
      BY <3>2
  <2>3. Performed \subseteq 1..Len(lines) /\ \A i \in Performed : lines'[i] = lines[i]
    BY <1>3 DEF Performed
  <2>4. n \in Nat
    BY <1>2, LenProperties
  <2>5. CASE result = "skipped"
    <3>1. Performed' = Performed
      BY <1>6, <2>5
    <3>2. ASSUME NEW r \in 1..n
          PROVE  \/ \E i \in Performed' : lines'[i].run = runs[r]
                 \/ /\ \A s \in 1..n : runs[s].life = runs[r].life => s <= r
                    /\ ends[runs[r].life] = "died"
      BY <2>2, <2>3, <2>5, <3>1
    <3> QED
      <4>1. \A i \in Performed' : \E r \in 1..n : lines'[i].run = runs[r]
        BY <2>1, <2>3, <3>1
      <4>2. \A i, j \in Performed' : \A r, s \in 1..n :
               i < j /\ lines'[i].run = runs[r] /\ lines'[j].run = runs[s] => r < s
        BY <2>1, <2>3, <3>1
      <4> QED
        BY <1>1, <3>2, <4>1, <4>2 DEF LinesMatchRuns
  <2>6. CASE result # "skipped"
    <3>1. /\ n >= 1 /\ runs[n] = Run
          /\ \A i \in Performed : lines[i].run # Run
      <4>1. /\ runs # <<>> /\ runs[n] = Run
            /\ \A i \in Performed : lines[i].run # Run
        BY <1>1, <2>6 DEF SchedulerInv, AuditIsDue
      <4> QED
        BY <1>2, <2>4, <4>1
    <3>2. Performed' = Performed \cup {m}
      BY <1>6, <2>6
    <3>3. \A i \in Performed' : \E r \in 1..n : lines'[i].run = runs[r]
      BY <1>4, <2>1, <2>3, <2>4, <3>1, <3>2
    <3>4. ASSUME NEW i \in Performed', NEW j \in Performed', NEW r \in 1..n, NEW s \in 1..n,
                 i < j, lines'[i].run = runs[r], lines'[j].run = runs[s]
          PROVE  r < s
      <4>1. i \in Performed /\ lines[i].run = runs[r]
        BY <1>3, <2>3, <3>2, <3>4
      <4>2. CASE j \in Performed
        BY <2>1, <2>3, <3>4, <4>1, <4>2
      <4>3. CASE j = m
        <5>1. runs[s] = runs[n] /\ runs[r] # runs[n]
          BY <1>4, <3>1, <3>4, <4>1, <4>3
        <5>2. s = n /\ r # n
          BY <2>1, <2>4, <3>1, <5>1
        <5> QED
          BY <2>4, <5>2
      <4> QED
        BY <3>2, <4>2, <4>3
    <3>5. ASSUME NEW r \in 1..n
          PROVE  \/ \E i \in Performed' : lines'[i].run = runs[r]
                 \/ /\ \A s \in 1..n : runs[s].life = runs[r].life => s <= r
                    /\ ends[runs[r].life] = "died"
      <4>1. CASE \E i \in Performed : lines[i].run = runs[r]
        BY <2>3, <3>2, <4>1
      <4>2. CASE r = n
        BY <1>4, <3>1, <3>2, <4>2
      <4>3. CASE r # n /\ ~ \E i \in Performed : lines[i].run = runs[r]
        <5>1. runs[r].life # life
          <6>1. n \in 1..n /\ runs[n].life = life
            BY <1>7, <2>4, <3>1
          <6> QED
            BY <2>2, <2>4, <4>3, <6>1
        <5> QED
          BY <2>2, <4>3, <5>1
      <4> QED
        BY <4>1, <4>2, <4>3
    <3> QED
      BY <1>1, <3>3, <3>4, <3>5 DEF LinesMatchRuns
  <2> QED
    BY <2>5, <2>6
<1> QED
  BY <1>9, <1>10, <1>11, <1>12 DEF SchedulerInv

\* The invariant is inductive.
LEMMA SchedulerInduction == Spec => []SchedulerInv
<1>1. Init => SchedulerInv
  <2> SUFFICES ASSUME Init PROVE SchedulerInv
    OBVIOUS
  <2>1. TypeOK
    <3>1. /\ 0 \in 0..MaxClock /\ 0 \in 0..0 /\ 0 \in 0..MaxEdits /\ 0 \in 0..MaxLives
          /\ 0 \in 0..MaxIterations /\ 0 <= MaxStatus /\ Len(<<>>) = 0
      BY ConstantsAssumption
    <3>2. \A S : <<>> \in Seq(S)
      OBVIOUS
    <3>3. /\ clock \in 0..MaxClock /\ now \in 0..clock /\ edits \in 0..MaxEdits
          /\ life \in 0..MaxLives /\ iteration \in 0..MaxIterations
      BY <3>1 DEF Init
    <3>4. /\ ends \in Seq({"running", "finished", "died"}) /\ Len(ends) = life
          /\ pc \in {"down", "poll", "execute", "audit", "beat", "write"}
          /\ pc \in {"execute", "audit"} => queue # {}
          /\ locks \subseteq LockKeys /\ queue \subseteq Nat \ {0}
          /\ result \in Results /\ torn \in BOOLEAN
      BY <3>1, <3>2 DEF Init, Results
    <3>5. Len(kept.tasks) <= 1 /\ Len(kept.sources) <= 1
      BY <3>1 DEF Init
    <3>6. /\ runs \in Seq(RunRecords) /\ lines \in Seq(AuditLines)
          /\ status \in Seq(Beats) /\ pending \in Seq(Beats) /\ lastBeat \in Seq(0..MaxClock)
      BY <3>2 DEF Init
    <3>7. Len(status) <= MaxStatus /\ Len(pending) <= MaxStatus /\ Len(lastBeat) <= 1
      BY <3>1 DEF Init
    <3> QED
      BY <3>3, <3>4, <3>5, <3>6, <3>7 DEF TypeOK
  <2>2. FilesAreKnown
    BY FilesAssumption DEF Init, FilesAreKnown, TaskManifests
  <2>3. ProcessIsUp /\ RunsAreLocked /\ QueueIsLocked /\ LocksAreServed /\ AuditIsDue
    BY DEF Init, ProcessIsUp, RunsAreLocked, QueueIsLocked, LocksAreServed, AuditIsDue
  <2>4. ChecksFollowContracts /\ OncePerWindow /\ FeedVerdictsAgree /\ LinesMatchRuns
    BY DEF Init, ChecksFollowContracts, OncePerWindow, FeedVerdictsAgree, LinesMatchRuns,
           Performed
  <2> QED
    BY <2>1, <2>2, <2>3, <2>4 DEF SchedulerInv
<1>2. SchedulerInv /\ [Next]_vars => SchedulerInv'
  <2> SUFFICES ASSUME SchedulerInv, [Next]_vars PROVE SchedulerInv'
    OBVIOUS
  <2>1. TypeOK' /\ FilesAreKnown' /\ ProcessIsUp'
    BY TypesStay
  <2>2. CASE Start
    BY <2>1, <2>2, StartKeeps
  <2>3. CASE Poll
    BY <2>1, <2>3, PollKeeps
  <2>4. CASE Skip \/ Execute \/ ExecuteRaises
    BY <2>1, <2>4, TaskKeeps
  <2>5. CASE AppendAudit
    BY <2>1, <2>5, AuditKeeps
  <2>6. CASE Tick \/ EditFile \/ UNCHANGED vars
    <3>1. /\ UNCHANGED <<life, now, kept, read, locks, queue, result, runs, checks, lines>>
          /\ pc' = pc /\ ends' = ends
      BY <2>6 DEF Tick, EditFile, vars, processVars, fileVars, history
    <3> QED
      BY <2>1, <3>1, QuietSteps
  <2>7. CASE BeatThrottled \/ BeatRaises \/ BeatOpens \/ BeatWrites \/ Crash
    <3>1. UNCHANGED <<life, now, kept, read, locks, queue, result, runs, checks, lines>>
      BY <2>7 DEF BeatThrottled, BeatRaises, BeatOpens, BeatWrites, Crash, fileVars, history
    <3>2. \/ pc \in {"beat", "write"} /\ pc' \in {"write", "poll"} /\ ends' = ends
          \/ pc \in {"beat", "write"} /\ End("finished")
          \/ pc # "down" /\ End("died")
      BY <2>7 DEF BeatThrottled, BeatRaises, BeatOpens, BeatWrites, Crash, EndIteration
    <3> QED
      BY <2>1, <3>1, <3>2, QuietSteps
  <2> QED
    BY <2>2, <2>3, <2>4, <2>5, <2>6, <2>7, Zenon DEF Next, Stopped
<1> QED
  BY <1>1, <1>2, PTL DEF Spec

--------------------------------------------------------------------------------
\* The variables keep their types: the locks are those of declared tasks, and
\* the status file never has more than MaxStatus records.
THEOREM TypeCorrect == Spec => []TypeOK
<1>1. SchedulerInv => TypeOK
  BY DEF SchedulerInv
<1> QED
  BY <1>1, SchedulerInduction, PTL

\* A process runs a task at most once in a window, whatever becomes of the
\* manifest (acquire_scheduled_workflow_lock).
THEOREM RunsOncePerWindow == Spec => []OncePerWindow
<1>1. SchedulerInv => OncePerWindow
  BY DEF SchedulerInv
<1> QED
  BY <1>1, SchedulerInduction, PTL

(* Unfinished lines.  Only a death leaves one, no line follows it but that  *)
(* of a later process, and that one ends up on it.                          *)

TornInv ==
    /\ \A i \in 1..Len(lines) :
          /\ lines[i].run.life \in 1..life
          /\ ~lines[i].readable => FirstAfterDeath(i)
    /\ torn => \E l \in 1..life :
          ends[l] = "died" /\ \A i \in 1..Len(lines) : lines[i].run.life <= l

LEMMA TornInduction == Spec => []TornInv
<1>1. Init => TornInv
  BY DEF Init, TornInv
<1>2. TornInv /\ SchedulerInv /\ [Next]_vars => TornInv'
  <2> SUFFICES ASSUME TornInv, SchedulerInv, [Next]_vars PROVE TornInv'
    OBVIOUS
  <2>1. /\ life \in Nat /\ ends \in Seq({"running", "finished", "died"}) /\ Len(ends) = life
        /\ DOMAIN ends = 1..life /\ lines \in Seq(AuditLines) /\ torn \in BOOLEAN
        /\ result \in Results
        /\ pc # "down" => life >= 1 /\ ends[life] = "running"
    <3>1. /\ life \in 0..MaxLives /\ ends \in Seq({"running", "finished", "died"})
          /\ Len(ends) = life /\ lines \in Seq(AuditLines) /\ torn \in BOOLEAN
          /\ result \in Results
      BY Zenon DEF SchedulerInv, TypeOK
    <3>2. pc # "down" => life >= 1 /\ ends[life] = "running"
      BY DEF SchedulerInv, ProcessIsUp
    <3> QED
      BY <3>1, <3>2, ConstantsAssumption, LenProperties
  \* A step that appends no line and undoes no death.
  <2>2. ASSUME lines' = lines, life <= life', life' \in Nat,
               \A l \in 1..life : ends[l] = "died" => ends'[l] = "died",
               \/ torn' = torn
               \/ torn' = TRUE /\ life \in 1..life /\ ends'[life] = "died"
        PROVE  TornInv'
    <3>1. ASSUME NEW i \in 1..Len(lines)
          PROVE  /\ lines[i].run.life \in 1..life'
                 /\ ~lines[i].readable => FirstAfterDeath(i)'
      <4>1. lines[i].run.life \in 1..life
        BY DEF TornInv
      <4>2. ~lines[i].readable => FirstAfterDeath(i)
        BY DEF TornInv
      <4>3. FirstAfterDeath(i) => FirstAfterDeath(i)'
        BY <2>1, <2>2, <4>1 DEF FirstAfterDeath
      <4> QED
        BY <2>1, <2>2, <4>1, <4>2, <4>3
    <3>2. torn' => \E l \in 1..life' :
             ends'[l] = "died" /\ \A i \in 1..Len(lines) : lines[i].run.life <= l
      <4>1. CASE torn' = torn
        BY <2>1, <2>2, <4>1 DEF TornInv
      <4>2. CASE life \in 1..life /\ ends'[life] = "died"
        <5>1. \A i \in 1..Len(lines) : lines[i].run.life <= life
          BY <2>1 DEF TornInv
        <5> QED
          BY <2>1, <2>2, <4>2, <5>1
      <4> QED
        BY <2>2, <4>1, <4>2
    <3> QED
      BY <2>2, <3>1, <3>2 DEF TornInv
  \* The process of the step ends.
  <2>3. ASSUME NEW how \in {"finished", "died"}, pc # "down", End(how), lines' = lines,
               life' = life, torn' = torn \/ (torn' = TRUE /\ how = "died")
        PROVE  TornInv'
    <3>1. life \in 1..life /\ ends[life] = "running"
      BY <2>1, <2>3
    <3>2. ends' = [ends EXCEPT ![life] = how]
      BY <2>3 DEF End
    <3>3. \A l \in 1..life : ends'[l] = IF l = life THEN how ELSE ends[l]
      BY <2>1, <3>2
    <3>4. \A l \in 1..life : ends[l] = "died" => ends'[l] = "died"
      BY <3>1, <3>3
    <3>5. torn' = torn \/ (torn' = TRUE /\ life \in 1..life /\ ends'[life] = "died")
      BY <2>3, <3>1, <3>3
    <3>6. life <= life' /\ life' \in Nat
      BY <2>1, <2>3
    <3> QED
      BY <2>2, <2>3, <3>4, <3>5, <3>6
  <2>4. CASE AppendAudit
    <3> DEFINE line == [run |-> Run, result |-> result, readable |-> ~torn]
    <3>a. PICK m \in Nat : m = Len(lines) + 1
      BY <2>1, LenProperties
    <3>1. /\ pc = "audit" /\ lines' = Append(lines, line) /\ torn' = FALSE
          /\ UNCHANGED <<life, ends>>
      BY <2>4 DEF AppendAudit
    <3>2. line \in AuditLines /\ Run.life = life
      BY <2>1, <3>1, CurrentTask DEF AuditLines, Run
    <3>3. line.run.life = life /\ line.readable = ~torn
      BY <3>2
    <3> HIDE DEF line
    <3>4. /\ Len(lines) \in Nat /\ Len(lines') = m /\ lines'[m] = line
          /\ \A i \in 1..Len(lines) : lines'[i] = lines[i]
      BY <2>1, <3>a, <3>1, <3>2, AppendProperties, LenProperties
    <3>5. ASSUME NEW i \in 1..Len(lines)
          PROVE  /\ lines'[i].run.life \in 1..life'
                 /\ ~lines'[i].readable => FirstAfterDeath(i)'
      <4>1. FirstAfterDeath(i) => FirstAfterDeath(i)'
        BY <3>1, <3>4 DEF FirstAfterDeath
      <4> QED
        BY <3>1, <3>4, <4>1 DEF TornInv
    <3>6. ~lines'[m].readable => FirstAfterDeath(m)'
      <4> SUFFICES ASSUME torn PROVE FirstAfterDeath(m)'
        BY <3>3, <3>4
      <4>1. PICK l \in 1..life :
               ends[l] = "died" /\ \A i \in 1..Len(lines) : lines[i].run.life <= l
        BY DEF TornInv
      <4>2. l \in 1..(life - 1)
        BY <2>1, <3>1, <4>1
      <4>3. \A j \in 1..(m - 1) : lines'[j].run.life < life
        <5>1. \A j \in 1..Len(lines) : lines[j].run.life \in 1..life /\ lines[j].run.life <= l
          BY <4>1 DEF TornInv
        <5>2. \A j \in 1..(m - 1) : j \in 1..Len(lines)
          BY <3>a, <3>4
        <5> QED
          BY <2>1, <3>4, <4>2, <5>1, <5>2
      <4> QED
        BY <3>1, <3>3, <3>4, <4>1, <4>2, <4>3 DEF FirstAfterDeath
    <3>7. \A i \in 1..Len(lines') : i \in 1..Len(lines) \/ i = m
      BY <3>a, <3>4
    <3>8. lines'[m].run.life \in 1..life'
      BY <2>1, <3>1, <3>3, <3>4
    <3> QED
      BY <3>1, <3>5, <3>6, <3>7, <3>8 DEF TornInv
  <2>5. CASE Start
    <3>1. /\ life' = life + 1 /\ ends' = Append(ends, "running") /\ UNCHANGED <<lines, torn>>
      BY <2>5 DEF Start
    <3>2. \A l \in 1..life : ends'[l] = ends[l]
      BY <2>1, <3>1, AppendProperties
    <3> QED
      BY <2>1, <2>2, <3>1, <3>2
  <2>6. CASE Tick \/ EditFile \/ Poll \/ Skip \/ Execute \/ BeatOpens \/ UNCHANGED vars
    <3>1. UNCHANGED <<life, ends, lines, torn>>
      BY <2>6 DEF Tick, EditFile, Poll, Skip, Execute, BeatOpens, vars, processVars, fileVars
    <3> QED
      BY <2>1, <2>2, <3>1
  <2>7. CASE BeatThrottled \/ BeatWrites
    <3>1. UNCHANGED <<life, lines, torn>> /\ pc # "down" /\ (ends' = ends \/ End("finished"))
      BY <2>7 DEF BeatThrottled, BeatWrites, EndIteration, fileVars
    <3> QED
      BY <2>1, <2>2, <2>3, <3>1
  <2>8. CASE ExecuteRaises \/ BeatRaises \/ Crash
    <3>1. UNCHANGED <<life, lines>> /\ pc # "down" /\ End("died") /\ (torn' = torn \/ torn' = TRUE)
      BY <2>1, <2>8 DEF ExecuteRaises, BeatRaises, Crash, fileVars
    <3> QED
      BY <2>3, <3>1
  <2> QED
    BY <2>4, <2>5, <2>6, <2>7, <2>8, Zenon DEF Next, Stopped
<1> QED
  BY <1>1, <1>2, SchedulerInduction, PTL DEF Spec

\* The readable lines of the audit tell of the runs in their order; what they do
\* not tell of is the run in which a process died, or one whose line fell on the
\* unfinished line of an earlier process (run_scheduler_loop,
\* append_scheduled_workflow_audit_record).
THEOREM AuditTellsRuns == Spec => []AuditMatchesRuns
<1>1. SchedulerInv /\ TornInv => AuditMatchesRuns
  <2> SUFFICES ASSUME SchedulerInv, TornInv PROVE AuditMatchesRuns
    OBVIOUS
  <2>1. LinesMatchRuns /\ Told \subseteq Performed
    BY DEF SchedulerInv, Told
  <2>2. \A i \in Performed \ Told : FirstAfterDeath(i)
    BY DEF Told, Performed, TornInv
  <2> HIDE DEF Told, Performed
  <2> QED
    BY <2>1, <2>2 DEF LinesMatchRuns, AuditMatchesRuns
<1> QED
  BY <1>1, SchedulerInduction, TornInduction, PTL

\* A process judges the same feeds alike each time (load_source_ingestion_contracts).
THEOREM FeedsAreJudgedAlike == Spec => []FeedVerdictsAgree
<1>1. SchedulerInv => FeedVerdictsAgree
  BY DEF SchedulerInv
<1> QED
  BY <1>1, SchedulerInduction, PTL

\* A sound, enabled and due task is served in its window, whatever else is in
\* the manifest (_load_declaration_manifest, run_scheduler_loop).
THEOREM SoundTasksServed == Spec => []SoundTasksAreServed
<1>1. SchedulerInv => SoundTasksAreServed
  <2> SUFFICES ASSUME SchedulerInv, pc \in {"beat", "write"}, Readable(read),
                      NEW sound,
                      sound = {e \in DOMAIN read.entries :
                                  TaskSound(read.entries[e], kept.tasks[1])},
                      \A e, f \in sound : read.entries[e].id = read.entries[f].id => e = f,
                      NEW e \in sound,
                      read.entries[e].governance = "enabled", Due(read.entries[e], now)
               PROVE  Key(read.entries[e], now) \in Served
    BY DEF SoundTasksAreServed, Served, ServedIn
  <2>1. e \in DOMAIN Loaded /\ Loaded[e] = read.entries[e]
    <3>1. AllSound(read, kept.tasks[1], Loaded)
      BY SoundEntriesAreLoaded, Zenon DEF Loaded
    <3> QED
      BY <3>1 DEF AllSound
  <2>2. e \in Eligible(Loaded, now)
    BY <2>1 DEF Eligible
  <2>3. Key(Loaded[e], now) \in locks
    BY <2>2 DEF SchedulerInv, LocksAreServed
  <2>4. \A k \in locks : k \in Served
    BY DEF SchedulerInv, LocksAreServed
  <2> QED
    BY <2>1, <2>3, <2>4
<1> QED
  BY <1>1, SchedulerInduction, PTL

================================================================================

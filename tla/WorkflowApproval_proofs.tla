------------------------ MODULE WorkflowApproval_proofs ------------------------
(***************************************************************************)
(* Proofs about WorkflowApproval, for any callers, continuations and bound *)
(* on the transitions: type correctness, the lineage that every instance   *)
(* in the store keeps, and the audit that misses a transition only after a *)
(* crash.  None of these needs the calls to be serial.  For a single       *)
(* caller also: the provenance tells the decision, deliveries follow       *)
(* approvals, and the calls implement WorkflowLifecycle.                   *)
(***************************************************************************)
EXTENDS WorkflowApproval, TLAPS

--------------------------------------------------------------------------------
(* The calls in progress, and the values that a call computes. *)

CallsOK(f) == DOMAIN f \subseteq Callers /\ f \in [DOMAIN f -> CallRecord]

\* Beginning a call keeps the calls in progress well typed.
LEMMA PutCalls ==
    ASSUME NEW f, CallsOK(f), NEW k \in Callers, NEW r \in CallRecord
    PROVE  CallsOK(Put(f, k, r))
BY DEF CallsOK, Put

\* Ending a call, or losing it in a crash, keeps the others well typed.
LEMMA DropCalls ==
    ASSUME NEW f, CallsOK(f), NEW k
    PROVE  CallsOK(Drop(f, k))
BY DEF CallsOK, Drop

\* The outcome of a call of any kind is a state the code can write.
LEMMA OutcomeState == \A kind \in Kinds : Outcome[kind] \in States
BY DEF Kinds, Outcome, States

\* The transition of a call gets a type of its own kind.
LEMMA TransitionTypeOK ==
    ASSUME NEW kind \in Kinds, NEW replaced \in BOOLEAN
    PROVE  TransitionType(kind, replaced) \in TransitionTypes
BY DEF Kinds, Outcome, TransitionType, TransitionTypes

\* The id that a lineage ends in is a number, 0 when it is empty.
LEMMA LatestNat == \A l \in Seq(Transition) : Latest(l) \in Nat
<1> TAKE l \in Seq(Transition)
<1>1. CASE l = <<>>
  BY <1>1 DEF Latest
<1>2. CASE l # <<>>
  <2>1. l[Len(l)] \in Transition
    BY <1>2
  <2> QED
    BY <1>2, <2>1 DEF Latest, Transition
<1> QED
  BY <1>1, <1>2

\* The transition a call adds is a lineage record.
LEMMA NewTransitionType ==
    ASSUME NEW call \in CallRecord, NEW id \in Nat \ {0}
    PROVE  NewTransition(call, id) \in Transition
<1> DEFINE old == call.loaded[call.continuation]
<1>1. call.kind \in Kinds /\ old \in Instance
  BY DEF CallRecord, Files
<1>2. old.lineage \in Seq(Transition) /\ old.state \in States \cup {NoState}
  BY <1>1 DEF Instance
<1>3. Latest(old.lineage) \in Nat
  BY <1>2, LatestNat
<1>4. Len(old.lineage) + 1 \in Nat \ {0}
  BY <1>2
<1>5. TransitionType(call.kind, Has(call.loaded, call.continuation))
          \in TransitionTypes
  BY <1>1, TransitionTypeOK DEF Has
<1>6. Outcome[call.kind] \in States
  BY <1>1, OutcomeState
<1> QED
  BY <1>2, <1>3, <1>4, <1>5, <1>6 DEF NewTransition, Transition

\* The record a call writes is an instance record.
LEMMA NewInstanceType ==
    ASSUME NEW call \in CallRecord, NEW id \in Nat \ {0}
    PROVE  NewInstance(call, id) \in Instance
<1> DEFINE old == call.loaded[call.continuation]
<1>1. old.lineage \in Seq(Transition)
  BY DEF CallRecord, Files, Instance
<1>2. Append(old.lineage, NewTransition(call, id)) \in Seq(Transition)
  BY <1>1, NewTransitionType
<1>3. Outcome[call.kind] \in States /\ call.provenance \in SUBSET Marks
  BY OutcomeState DEF CallRecord
<1> QED
  BY <1>2, <1>3 DEF NewInstance, Instance

\* An empty instance file is a file.
LEMMA EmptyFileType == EmptyFile \in Files
BY DEF EmptyFile, Files, NoInstance, Instance, NoState

--------------------------------------------------------------------------------
(* Type correctness. *)

\* The variables have their types in every reachable state.
THEOREM TypeCorrect == Spec => []TypeOK
<1>1. Init => TypeOK
  BY EmptyFileType, ConstantsAssumption DEF Init, TypeOK
<1>2. TypeOK /\ [Next]_vars => TypeOK'
  <2> SUFFICES ASSUME TypeOK, [Next]_vars PROVE TypeOK'
    OBVIOUS
  <2> USE DEF TypeOK
  <2>c. CallsOK(calls)
    BY DEF CallsOK
  <2>b. ASSUME NEW k \in Callers, NEW kind \in Kinds, NEW c \in Continuations,
               NEW p \in SUBSET Marks, Begin(k, kind, c, p)
        PROVE  TypeOK'
    <3>1. Call("checked", kind, c, p, EmptyFile, 0) \in CallRecord
      BY EmptyFileType DEF Call, CallRecord
    <3>2. CallsOK(calls')
      BY <2>b, <2>c, <3>1, PutCalls DEF Begin
    <3> QED
      BY <2>b, <3>2 DEF Begin, CallsOK
  <2>1. ASSUME NEW k \in Callers, NEW c \in Continuations, StartSuspension(k, c)
        PROVE  TypeOK'
    <3>1. "suspend" \in Kinds /\ {} \in SUBSET Marks
      BY DEF Kinds, Outcome
    <3> QED
      BY <2>1, <2>b, <3>1 DEF StartSuspension
  <2>2. ASSUME NEW k \in Callers, NEW c \in Continuations,
               NEW kind \in {"approve", "deny"}, StartDecision(k, c, kind)
        PROVE  TypeOK'
    <3>1. (store[c].provenance \ {"approve", "deny"}) \cup {kind} \in SUBSET Marks
      BY DEF Files, Instance, Marks
    <3>2. kind \in Kinds
      BY DEF Kinds, Outcome
    <3> QED
      BY <2>2, <2>b, <3>1, <3>2 DEF StartDecision
  <2>3. ASSUME NEW k \in Callers, NEW c \in Continuations, StartResumption(k, c)
        PROVE  TypeOK'
    <3>1. store[c].provenance \cup {"continuation"} \in SUBSET Marks
      BY DEF Files, Instance, Marks
    <3> QED
      BY <2>3, <2>b, <3>1 DEF StartResumption, Kinds, Outcome
  <2>4. ASSUME NEW k \in Callers, Load(k) PROVE TypeOK'
    <3>1. [calls[k] EXCEPT !.stage = "loaded", !.loaded = store] \in CallRecord
      BY <2>4 DEF Load, Busy, CallRecord
    <3>2. CallsOK(calls')
      BY <2>4, <3>1 DEF Load, Busy, CallsOK
    <3> QED
      BY <2>4, <3>2 DEF Load, CallsOK
  <2>5. ASSUME NEW k \in Callers, Write(k) PROVE TypeOK'
    <3>1. calls[k] \in CallRecord /\ lastId + 1 \in Nat \ {0}
      BY <2>5, ConstantsAssumption DEF Write, Busy
    <3>2. store' \in Files
      BY <2>5, <3>1, NewInstanceType DEF Write, Files, CallRecord
    <3>3. CallsOK(calls')
      <4>1. [calls[k] EXCEPT !.stage = "written", !.written = lastId + 1]
                \in CallRecord
        BY <3>1 DEF CallRecord
      <4> QED
        BY <2>5, <4>1 DEF Write, Busy, CallsOK
    <3>4. lastId' \in 0..MaxTransitions
      BY <2>5, ConstantsAssumption DEF Write
    <3> QED
      BY <2>5, <3>2, <3>3, <3>4 DEF Write, CallsOK
  <2>6. ASSUME NEW k \in Callers, UpdateFailed(k) PROVE TypeOK'
    BY <2>6, <2>c, DropCalls DEF UpdateFailed, CallsOK
  <2>7. ASSUME NEW k \in Callers, AppendAudit(k) PROVE TypeOK'
    <3>1. calls[k].continuation \in Continuations /\ calls[k].written \in Nat
      BY <2>7 DEF AppendAudit, Busy, CallRecord
    <3>2. audit' \in Seq([continuation : Continuations, id : Nat, after : Nat])
      BY <2>7, <3>1 DEF AppendAudit
    <3> QED
      BY <2>7, <2>c, <3>2, DropCalls DEF AppendAudit, CallsOK
  <2>8. ASSUME NEW k \in Callers, Crash(k) PROVE TypeOK'
    <3>1. calls[k].written \in Nat /\ lost' \subseteq Nat /\ torn' \in Nat
      BY <2>8 DEF Crash, CallRecord
    <3> QED
      BY <2>8, <2>c, <3>1, DropCalls DEF Crash, CallsOK
  <2>9. ASSUME NEW c \in Continuations, PrepareDelivery(c) PROVE TypeOK'
    <3>1. Latest(store[c].lineage) \in Nat
      BY LatestNat DEF Files, Instance
    <3> QED
      BY <2>9, <3>1 DEF PrepareDelivery
  <2>10. ASSUME NEW g \in {"enabled", "disabled"}, SetGovernance(g) PROVE TypeOK'
    BY <2>10 DEF SetGovernance
  <2>11. CASE UNCHANGED vars
    BY <2>11 DEF vars
  <2> QED
    BY <2>1, <2>2, <2>3, <2>4, <2>5, <2>6, <2>7, <2>8, <2>9, <2>10, <2>11 DEF Next
<1> QED
  BY <1>1, <1>2, PTL DEF Spec

--------------------------------------------------------------------------------
(* Lineage.  A call writes what it has loaded and one record more, so the  *)
(* snapshots that calls hold have to be sound as well: an overtaken write  *)
(* puts an old store back, but a sound one.                                *)

LineageInv ==
    /\ TypeOK
    /\ SoundFile(store)
    /\ \A k \in DOMAIN calls : SoundFile(calls[k].loaded)

\* Appending keeps what a sequence has and puts the element behind it.
LEMMA AppendFacts ==
    ASSUME NEW S, NEW s \in Seq(S), NEW x \in S
    PROVE  /\ Append(s, x) \in Seq(S) /\ Len(s) \in Nat
           /\ Len(Append(s, x)) = Len(s) + 1
           /\ Append(s, x)[Len(s) + 1] = x
           /\ \A i \in 1..Len(s) : Append(s, x)[i] = s[i]
OBVIOUS

\* A transition that goes on from a sound instance, or from none, keeps its
\* lineage sound.
LEMMA ExtendedSound ==
    ASSUME NEW old \in Instance, old = NoInstance \/ SoundInstance(old),
           NEW t \in Transition,
           t.sequence = Len(old.lineage) + 1, t.previous = Latest(old.lineage),
           t.from = old.state,
           NEW new \in Instance, new.lineage = Append(old.lineage, t),
           new.state = t.to
    PROVE  SoundInstance(new)
<1> DEFINE n == Len(old.lineage)
           Linked(l, i) ==
               /\ l[i].sequence = i
               /\ l[i].previous = (IF i = 1 THEN 0 ELSE l[i - 1].id)
               /\ l[i].from = (IF i = 1 THEN NoState ELSE l[i - 1].to)
<1>1. /\ n \in Nat /\ Len(new.lineage) = n + 1 /\ new.lineage[n + 1] = t
      /\ \A i \in 1..n : new.lineage[i] = old.lineage[i]
  <2>1. old.lineage \in Seq(Transition)
    BY DEF Instance
  <2> QED
    BY <2>1, AppendFacts
<1>2. \A i \in 1..n : Linked(old.lineage, i)
  <2>1. CASE old = NoInstance
    BY <2>1 DEF NoInstance
  <2>2. CASE SoundInstance(old)
    BY <2>2 DEF SoundInstance, LineageValid, Continuous
  <2> QED
    BY <2>1, <2>2
<1>3. \A i \in 1..n : Linked(new.lineage, i)
  <2> TAKE i \in 1..n
  <2>1. i # 1 => i - 1 \in 1..n
    BY <1>1
  <2>2. Linked(old.lineage, i)
    BY <1>2
  <2> QED
    BY <1>1, <2>1, <2>2
<1>4. Linked(new.lineage, n + 1)
  <2>1. CASE old = NoInstance
    <3>1. n = 0 /\ old.lineage = <<>> /\ old.state = NoState
      BY <2>1 DEF NoInstance
    <3> QED
      BY <3>1, <1>1 DEF Latest
  <2>2. CASE SoundInstance(old)
    <3>1. old.lineage \in Seq(Transition) /\ old.lineage # <<>>
      BY <2>2 DEF SoundInstance, LineageValid, Instance
    <3>2. n \in 1..n /\ n + 1 # 1 /\ (n + 1) - 1 = n
      BY <3>1, <1>1
    <3>3. new.lineage[n] = old.lineage[n] /\ old.lineage[n].to = old.state
      BY <2>2, <3>2, <1>1 DEF SoundInstance, LineageValid
    <3>4. t.previous = old.lineage[n].id
      BY <3>1 DEF Latest
    <3> QED
      BY <3>2, <3>3, <3>4, <1>1
  <2> QED
    BY <2>1, <2>2
<1>5. \A i \in 1..Len(new.lineage) : Linked(new.lineage, i)
  <2> HIDE DEF Linked, n
  <2>1. \A i \in 1..(n + 1) : i \in 1..n \/ i = n + 1
    BY <1>1
  <2> QED
    BY <1>1, <1>3, <1>4, <2>1
<1>6. new.lineage # <<>> /\ new.lineage[Len(new.lineage)].to = new.state
  BY <1>1 DEF Instance
<1> QED
  BY <1>5, <1>6 DEF SoundInstance, LineageValid, Continuous

\* The record a call writes is sound when the file it has loaded is.
LEMMA NewInstanceSound ==
    ASSUME NEW call \in CallRecord, NEW id \in Nat \ {0}, SoundFile(call.loaded)
    PROVE  SoundInstance(NewInstance(call, id))
<1> DEFINE old == call.loaded[call.continuation]
           t   == NewTransition(call, id)
           new == NewInstance(call, id)
<1>1. old \in Instance /\ (old = NoInstance \/ SoundInstance(old))
  BY DEF CallRecord, Files, SoundFile
<1>2. t \in Transition /\ new \in Instance
  BY NewTransitionType, NewInstanceType
<1>3. /\ t.sequence = Len(old.lineage) + 1 /\ t.previous = Latest(old.lineage)
      /\ t.from = old.state /\ t.to = Outcome[call.kind]
  BY DEF NewTransition
<1>4. new.lineage = Append(old.lineage, t) /\ new.state = Outcome[call.kind]
  BY DEF NewInstance
<1> HIDE DEF old, t, new
<1>5. SoundInstance(new)
  BY <1>1, <1>2, <1>3, <1>4, ExtendedSound
<1> QED
  BY <1>5 DEF new

\* The induction: the store and what every call has loaded of it stay sound.
LEMMA LineageInduction == Spec => []LineageInv
<1>0. Spec => []TypeOK
  BY TypeCorrect
<1>1. Init /\ TypeOK => LineageInv
  BY DEF Init, LineageInv, SoundFile, EmptyFile
<1>2. LineageInv /\ TypeOK' /\ [Next]_vars => LineageInv'
  <2> SUFFICES ASSUME LineageInv, TypeOK', [Next]_vars
               PROVE  /\ SoundFile(store')
                      /\ \A k \in DOMAIN calls' : SoundFile(calls'[k].loaded)
    BY DEF LineageInv, SoundFile
  <2> USE DEF LineageInv
  <2>b. ASSUME NEW k, NEW kind, NEW c, NEW p, Begin(k, kind, c, p)
        PROVE  /\ SoundFile(store')
               /\ \A j \in DOMAIN calls' : SoundFile(calls'[j].loaded)
    <3>1. SoundFile(EmptyFile)
      BY DEF SoundFile, EmptyFile
    <3> QED
      BY <2>b, <3>1 DEF Begin, Put, Call
  <2>1. ASSUME NEW k \in Callers, NEW c \in Continuations,
               \/ StartSuspension(k, c)
               \/ \E kind \in {"approve", "deny"} : StartDecision(k, c, kind)
               \/ StartResumption(k, c)
        PROVE  /\ SoundFile(store')
               /\ \A j \in DOMAIN calls' : SoundFile(calls'[j].loaded)
    BY <2>1, <2>b DEF StartSuspension, StartDecision, StartResumption
  <2>2. ASSUME NEW k \in Callers, Load(k)
        PROVE  /\ SoundFile(store')
               /\ \A j \in DOMAIN calls' : SoundFile(calls'[j].loaded)
    <3>1. [calls[k] EXCEPT !.stage = "loaded", !.loaded = store].loaded = store
      BY <2>2 DEF Load, Busy, TypeOK, CallRecord
    <3> QED
      BY <2>2, <3>1 DEF Load, Busy, TypeOK
  <2>3. ASSUME NEW k \in Callers, Write(k)
        PROVE  /\ SoundFile(store')
               /\ \A j \in DOMAIN calls' : SoundFile(calls'[j].loaded)
    <3>1. /\ k \in DOMAIN calls /\ calls[k] \in CallRecord
          /\ lastId + 1 \in Nat \ {0} /\ SoundFile(calls[k].loaded)
      BY <2>3, ConstantsAssumption DEF Write, Busy, TypeOK
    <3>2. SoundInstance(NewInstance(calls[k], lastId + 1))
      BY <3>1, NewInstanceSound
    <3>3. SoundFile(store')
      BY <2>3, <3>1, <3>2 DEF Write, SoundFile, CallRecord, Files
    <3>4. [calls[k] EXCEPT !.stage = "written", !.written = lastId + 1].loaded
              = calls[k].loaded
      BY <3>1 DEF CallRecord
    <3> QED
      BY <2>3, <3>1, <3>3, <3>4 DEF Write, TypeOK
  <2>4. ASSUME NEW k \in Callers, UpdateFailed(k) \/ AppendAudit(k) \/ Crash(k)
        PROVE  /\ SoundFile(store')
               /\ \A j \in DOMAIN calls' : SoundFile(calls'[j].loaded)
    BY <2>4 DEF UpdateFailed, AppendAudit, Crash, Drop
  <2>5. ASSUME NEW c \in Continuations, PrepareDelivery(c)
        PROVE  UNCHANGED <<store, calls>>
    BY <2>5 DEF PrepareDelivery
  <2>6. ASSUME NEW g, SetGovernance(g) PROVE UNCHANGED <<store, calls>>
    BY <2>6 DEF SetGovernance
  <2>7. CASE UNCHANGED vars
    BY <2>7 DEF vars
  <2> QED
    BY <2>1, <2>2, <2>3, <2>4, <2>5, <2>6, <2>7 DEF Next
<1> QED
  BY <1>0, <1>1, <1>2, PTL DEF Spec

\* Every instance in the store has a lineage that resume integrity accepts, at
\* all times, whatever calls overlap, overtake each other or crash.
THEOREM LineageAlwaysSound == Spec => []LineageSound
<1>1. LineageInv => LineageSound
  BY DEF LineageInv, LineageSound
<1> QED
  BY <1>1, LineageInduction, PTL

--------------------------------------------------------------------------------
(* The audit.  First, whether a line was written: a transition has one, or *)
(* a call is about to append it, or that call crashed.  Snapshots may hold *)
(* transitions the store has lost, so they are accounted for as well; a    *)
(* call that has not written yet has nothing to append.                    *)

LineIds == {audit[i].id : i \in 1..Len(audit)}
GivenIds == LineIds \cup PendingIds \cup lost

AuditInv ==
    /\ TypeOK
    /\ TransitionsIn(store, GivenIds)
    /\ \A k \in DOMAIN calls :
          /\ TransitionsIn(calls[k].loaded, GivenIds)
          /\ calls[k].stage # "written" => calls[k].written = 0

\* The ids of a file stay among ids that grow, 0 being no id of a transition.
LEMMA TransitionsInMono ==
    ASSUME NEW file \in Files, NEW A, NEW B, TransitionsIn(file, A), A \ {0} \subseteq B
    PROVE  TransitionsIn(file, B)
<1> SUFFICES ASSUME NEW c \in Continuations, NEW i \in 1..Len(file[c].lineage)
             PROVE  file[c].lineage[i].id \in B
  BY DEF TransitionsIn
<1>1. file[c].lineage[i] \in Transition
  BY DEF Files, Instance
<1>2. file[c].lineage[i].id \in A /\ file[c].lineage[i].id # 0
  BY <1>1 DEF TransitionsIn, Transition
<1> QED
  BY <1>2

\* What a call writes has the ids it has loaded and the id it was given.
LEMMA WrittenTransitionsIn ==
    ASSUME NEW call \in CallRecord, NEW id \in Nat \ {0}, NEW A,
           TransitionsIn(call.loaded, A), id \in A
    PROVE  TransitionsIn([call.loaded EXCEPT
                             ![call.continuation] = NewInstance(call, id)], A)
<1> DEFINE old == call.loaded[call.continuation].lineage
           t   == NewTransition(call, id)
<1>1. old \in Seq(Transition) /\ call.loaded \in Files
      /\ call.continuation \in Continuations
  BY DEF CallRecord, Files, Instance
<1>2. t \in Transition /\ t.id = id
  BY NewTransitionType DEF NewTransition
<1>3. NewInstance(call, id).lineage = Append(old, t)
  BY DEF NewInstance
<1>4. \A i \in 1..Len(old) : old[i].id \in A
  BY <1>1 DEF TransitionsIn
<1> HIDE DEF t
<1>5. \A i \in 1..Len(Append(old, t)) : Append(old, t)[i].id \in A
  <2> HIDE DEF old
  <2>1. \A i \in 1..(Len(old) + 1) : i \in 1..Len(old) \/ i = Len(old) + 1
    BY <1>1, AppendFacts
  <2> QED
    BY <1>1, <1>2, <1>4, <2>1, AppendFacts
<1> QED
  BY <1>1, <1>3, <1>5 DEF TransitionsIn, Files

\* Whatever is in the store has its line, is about to get it, or is lost.
LEMMA AuditInduction == Spec => []AuditInv
<1>0. Spec => []TypeOK
  BY TypeCorrect
<1>1. Init /\ TypeOK => AuditInv
  BY DEF Init, AuditInv, TransitionsIn, EmptyFile, NoInstance
<1>2. AuditInv /\ TypeOK' /\ [Next]_vars => AuditInv'
  <2> SUFFICES ASSUME AuditInv, TypeOK', [Next]_vars PROVE AuditInv'
    OBVIOUS
  <2> USE DEF AuditInv
  <2> DEFINE Grows == GivenIds \ {0} \subseteq GivenIds'
             Others(k) == \A j \in DOMAIN calls' :
                             j # k => j \in DOMAIN calls /\ calls'[j] = calls[j]
  <2>f. \A k \in DOMAIN calls : calls[k] \in CallRecord /\ calls[k].loaded \in Files
    BY DEF TypeOK, CallRecord
  \* A step that grows the ids and leaves the store alone, but for one call.
  <2>g. ASSUME Grows, store' = store, NEW k, Others(k),
               k \in DOMAIN calls' =>
                  /\ TransitionsIn(calls'[k].loaded, GivenIds')
                  /\ calls'[k].stage # "written" => calls'[k].written = 0
        PROVE  AuditInv'
    <3>1. TransitionsIn(store', GivenIds')
      BY <2>g, TransitionsInMono DEF TypeOK
    <3>2. ASSUME NEW j \in DOMAIN calls'
          PROVE  /\ TransitionsIn(calls'[j].loaded, GivenIds')
                 /\ calls'[j].stage # "written" => calls'[j].written = 0
      <4>1. CASE j = k
        BY <4>1, <3>2, <2>g
      <4>2. CASE j # k
        BY <4>2, <3>2, <2>f, <2>g, TransitionsInMono
      <4> QED
        BY <4>1, <4>2
    <3> QED
      BY <3>1, <3>2 DEF TransitionsIn
  <2>b. ASSUME NEW k \in Callers, NEW kind, NEW c, NEW p, Begin(k, kind, c, p)
        PROVE  AuditInv'
    <3>1. /\ calls'[k].loaded = EmptyFile /\ calls'[k].stage = "checked"
          /\ calls'[k].written = 0 /\ Others(k) /\ DOMAIN calls \subseteq DOMAIN calls'
          /\ \A j \in DOMAIN calls : calls'[j] = calls[j]
      BY <2>b DEF Begin, Put, Call
    <3>2. PendingIds \subseteq PendingIds'
      BY <3>1 DEF PendingIds
    <3>3. Grows
      BY <2>b, <3>2 DEF Begin, GivenIds, LineIds
    <3>4. TransitionsIn(EmptyFile, GivenIds')
      BY DEF TransitionsIn, EmptyFile, NoInstance
    <3> QED
      BY <2>b, <2>g, <3>1, <3>3, <3>4 DEF Begin
  <2>1. ASSUME NEW k \in Callers, NEW c \in Continuations,
               \/ StartSuspension(k, c)
               \/ \E kind \in {"approve", "deny"} : StartDecision(k, c, kind)
               \/ StartResumption(k, c)
        PROVE  AuditInv'
    BY <2>1, <2>b DEF StartSuspension, StartDecision, StartResumption
  <2>2. ASSUME NEW k \in Callers, Load(k) PROVE AuditInv'
    <3> DEFINE new == [calls[k] EXCEPT !.stage = "loaded", !.loaded = store]
    <3>1. /\ k \in DOMAIN calls /\ calls[k].stage = "checked"
          /\ calls' = [calls EXCEPT ![k] = new]
          /\ UNCHANGED <<store, audit, lost>>
      BY <2>2 DEF Load, Busy
    <3>2. /\ new.loaded = store /\ new.stage = "loaded"
          /\ new.written = calls[k].written /\ new.written = 0
      BY <2>f, <3>1 DEF CallRecord
    <3> HIDE DEF new
    <3>3. /\ DOMAIN calls' = DOMAIN calls /\ calls'[k] = new /\ Others(k)
          /\ \A j \in DOMAIN calls : calls'[j].written = calls[j].written
      BY <3>1, <3>2 DEF TypeOK
    <3>4. PendingIds' = PendingIds
      BY <3>3 DEF PendingIds
    <3>5. Grows /\ GivenIds' = GivenIds
      BY <3>1, <3>4 DEF GivenIds, LineIds
    <3> QED
      BY <2>g, <3>1, <3>2, <3>3, <3>5
  <2>3. ASSUME NEW k \in Callers, Write(k) PROVE AuditInv'
    <3> DEFINE new == [calls[k] EXCEPT !.stage = "written", !.written = lastId + 1]
    <3>1. /\ k \in DOMAIN calls /\ calls[k].stage = "loaded"
          /\ calls' = [calls EXCEPT ![k] = new]
          /\ store' = [calls[k].loaded EXCEPT
                          ![calls[k].continuation] = NewInstance(calls[k], lastId + 1)]
          /\ UNCHANGED <<audit, lost>>
          /\ lastId + 1 \in Nat \ {0}
      BY <2>3, ConstantsAssumption DEF Write, Busy, TypeOK
    <3>2. /\ new.loaded = calls[k].loaded /\ new.stage = "written"
          /\ new.written = lastId + 1 /\ calls[k].written = 0
      BY <2>f, <3>1 DEF CallRecord
    <3> HIDE DEF new
    <3>3. DOMAIN calls' = DOMAIN calls /\ calls'[k] = new /\ Others(k)
          /\ \A j \in DOMAIN calls : j # k => calls'[j] = calls[j]
      BY <3>1 DEF TypeOK
    <3>4. PendingIds \ {0} \subseteq PendingIds' /\ lastId + 1 \in PendingIds'
      BY <3>1, <3>2, <3>3 DEF PendingIds
    <3>5. Grows /\ lastId + 1 \in GivenIds'
      BY <3>1, <3>4 DEF GivenIds, LineIds
    <3>6. \A j \in DOMAIN calls : TransitionsIn(calls[j].loaded, GivenIds')
      BY <2>f, <3>5, TransitionsInMono
    <3>7. TransitionsIn(store', GivenIds')
      BY <2>f, <3>1, <3>5, <3>6, WrittenTransitionsIn
    <3>8. \A j \in DOMAIN calls' :
             /\ TransitionsIn(calls'[j].loaded, GivenIds')
             /\ calls'[j].stage # "written" => calls'[j].written = 0
      BY <3>2, <3>3, <3>6
    <3> QED
      BY <3>7, <3>8 DEF TransitionsIn
  <2>d. ASSUME NEW k \in DOMAIN calls, calls' = Drop(calls, k), store' = store,
               \A x \in LineIds \cup lost \cup {calls[k].written} :
                  x \in LineIds' \cup lost' \cup {0}
        PROVE  AuditInv'
    <3>1. Others(k) /\ k \notin DOMAIN calls'
          /\ \A j \in DOMAIN calls : j # k => j \in DOMAIN calls' /\ calls'[j] = calls[j]
      BY <2>d DEF Drop
    <3>2. \A x \in PendingIds : x \in PendingIds' \/ x = calls[k].written
      BY <3>1 DEF PendingIds
    <3>3. Grows
      BY <2>d, <3>2 DEF GivenIds
    <3> QED
      BY <2>d, <2>g, <3>1, <3>3
  <2>4. ASSUME NEW k \in Callers, UpdateFailed(k) PROVE AuditInv'
    <3>1. /\ k \in DOMAIN calls /\ calls[k].written = 0 /\ calls' = Drop(calls, k)
          /\ UNCHANGED <<store, audit, lost>>
      BY <2>4 DEF UpdateFailed, Busy
    <3> QED
      BY <2>d, <3>1 DEF LineIds
  <2>5. ASSUME NEW k \in Callers, AppendAudit(k) PROVE AuditInv'
    <3> DEFINE entry == [continuation |-> calls[k].continuation,
                         id |-> calls[k].written, after |-> torn]
    <3>1. /\ k \in DOMAIN calls /\ calls' = Drop(calls, k)
          /\ UNCHANGED <<store, lost>> /\ audit' = Append(audit, entry)
      BY <2>5 DEF AppendAudit, Busy
    <3>2. entry \in [continuation : Continuations, id : Nat, after : Nat]
          /\ entry.id = calls[k].written
      BY <2>f, <3>1 DEF CallRecord, TypeOK
    <3> HIDE DEF entry
    <3>3. /\ Len(audit) \in Nat /\ Len(audit') = Len(audit) + 1
          /\ audit'[Len(audit) + 1] = entry
          /\ \A i \in 1..Len(audit) : audit'[i] = audit[i]
      BY <3>1, <3>2, AppendFacts DEF TypeOK
    <3>4. Len(audit) + 1 \in 1..Len(audit') /\ 1..Len(audit) \subseteq 1..Len(audit')
      BY <3>3
    <3>5. LineIds \subseteq LineIds' /\ calls[k].written \in LineIds'
      BY <3>2, <3>3, <3>4 DEF LineIds
    <3> QED
      BY <2>d, <3>1, <3>5
  <2>6. ASSUME NEW k \in Callers, Crash(k) PROVE AuditInv'
    <3>1. /\ k \in DOMAIN calls /\ calls' = Drop(calls, k)
          /\ UNCHANGED <<store, audit>>
          /\ lost \subseteq lost' /\ calls[k].written \in lost' \cup {0}
      BY <2>6 DEF Crash
    <3> QED
      BY <2>d, <3>1 DEF LineIds
  <2>7. ASSUME UNCHANGED <<store, audit, calls, lost>> PROVE AuditInv'
    BY <2>7 DEF TransitionsIn, GivenIds, LineIds, PendingIds
  <2>8. ASSUME NEW c \in Continuations, PrepareDelivery(c) PROVE AuditInv'
    BY <2>7, <2>8 DEF PrepareDelivery
  <2>9. ASSUME NEW g, SetGovernance(g) PROVE AuditInv'
    BY <2>7, <2>9 DEF SetGovernance
  <2>10. CASE UNCHANGED vars
    BY <2>7, <2>10 DEF vars
  <2> QED
    BY <2>1, <2>2, <2>3, <2>4, <2>5, <2>6, <2>8, <2>9, <2>10 DEF Next
<1> QED
  BY <1>0, <1>1, <1>2, PTL DEF Spec

(* Second, which lines stand on their own.  What a line was written onto is *)
(* the transition of a crashed call.  Ids are handed out once, so the call  *)
(* that dies next leaves an id behind that no line was written onto yet.    *)

TornInv ==
    /\ TypeOK
    /\ lost \subseteq 1..lastId /\ torn \in lost \cup {0}
    /\ \A i \in 1..Len(audit) : audit[i].after \in lost \cup {0} /\ (torn # 0 => audit[i].after # torn)
    /\ \A k \in DOMAIN calls :
          /\ calls[k].written \in 0..lastId
          /\ calls[k].stage # "written" => calls[k].written = 0
          /\ calls[k].stage = "written" =>
                /\ calls[k].written \notin lost \cup {0}
                /\ \A j \in DOMAIN calls : j # k => calls[j].written # calls[k].written
    /\ OneLinePerCrash

LEMMA TornInduction == Spec => []TornInv
<1>0. Spec => []TypeOK
  BY TypeCorrect
<1>1. Init /\ TypeOK => TornInv
  BY DEF Init, TornInv, OneLinePerCrash
<1>2. TornInv /\ TypeOK' /\ [Next]_vars => TornInv'
  <2> SUFFICES ASSUME TornInv, TypeOK', [Next]_vars PROVE TornInv'
    OBVIOUS
  <2> USE DEF TornInv
  <2>f. lastId \in Nat /\ \A k \in DOMAIN calls : calls[k] \in CallRecord
    BY ConstantsAssumption DEF TypeOK
  \* A step that hands out no id and ends no call that has written.
  <2>g. ASSUME UNCHANGED <<audit, torn, lastId, lost>>,
               \A j \in DOMAIN calls' :
                  \/ calls'[j].written = 0 /\ calls'[j].stage # "written"
                  \/ j \in DOMAIN calls /\ calls'[j] = calls[j]
        PROVE  TornInv'
    BY <2>f, <2>g DEF OneLinePerCrash
  <2>b. ASSUME NEW k \in Callers, NEW kind, NEW c, NEW p, Begin(k, kind, c, p)
        PROVE  TornInv'
    BY <2>b, <2>g DEF Begin, Put, Call
  <2>1. ASSUME NEW k \in Callers, NEW c \in Continuations,
               \/ StartSuspension(k, c)
               \/ \E kind \in {"approve", "deny"} : StartDecision(k, c, kind)
               \/ StartResumption(k, c)
        PROVE  TornInv'
    BY <2>1, <2>b DEF StartSuspension, StartDecision, StartResumption
  <2>2. ASSUME NEW k \in Callers, Load(k) PROVE TornInv'
    <3>1. k \in DOMAIN calls /\ calls[k].written = 0
          /\ calls' = [calls EXCEPT ![k] = [@ EXCEPT !.stage = "loaded", !.loaded = store]]
          /\ UNCHANGED <<audit, torn, lastId, lost>>
      BY <2>2 DEF Load, Busy
    <3>2. calls'[k].written = 0 /\ calls'[k].stage # "written"
      BY <2>f, <3>1 DEF CallRecord
    <3> QED
      BY <2>g, <3>1, <3>2
  <2>3. ASSUME NEW k \in Callers, Write(k) PROVE TornInv'
    <3>1. /\ k \in DOMAIN calls /\ lastId' = lastId + 1
          /\ DOMAIN calls' = DOMAIN calls
          /\ \A j \in DOMAIN calls : j # k => calls'[j] = calls[j]
          /\ UNCHANGED <<audit, torn, lost>>
      BY <2>3 DEF Write, Busy
    <3>2. calls'[k].written = lastId + 1 /\ calls'[k].stage = "written"
      BY <2>3, <2>f DEF Write, Busy, CallRecord
    <3>3. \A j \in DOMAIN calls : j # k => calls[j].written # lastId + 1
      BY <2>f
    <3>4. lost' \subseteq 1..lastId' /\ lastId + 1 \notin lost \cup {0}
      BY <2>f, <3>1
    <3>5. ASSUME NEW i \in DOMAIN calls'
          PROVE  /\ calls'[i].written \in 0..lastId'
                 /\ calls'[i].stage # "written" => calls'[i].written = 0
                 /\ calls'[i].stage = "written" =>
                       /\ calls'[i].written \notin lost' \cup {0}
                       /\ \A j \in DOMAIN calls' : j # i => calls'[j].written # calls'[i].written
      <4>1. CASE i = k
        BY <2>f, <3>1, <3>2, <3>3, <3>4, <4>1
      <4>2. CASE i # k
        <5>1. i \in DOMAIN calls /\ calls'[i] = calls[i] /\ calls[i].written # lastId + 1
          BY <3>1, <3>3, <3>5, <4>2
        <5> QED
          BY <2>f, <3>1, <3>2, <5>1
      <4> QED
        BY <4>1, <4>2
    <3> QED
      BY <3>1, <3>4, <3>5 DEF OneLinePerCrash
  <2>4. ASSUME NEW k \in Callers, UpdateFailed(k) PROVE TornInv'
    BY <2>4, <2>g DEF UpdateFailed, Drop
  <2>5. ASSUME NEW k \in Callers, AppendAudit(k) PROVE TornInv'
    <3> DEFINE entry == [continuation |-> calls[k].continuation,
                         id |-> calls[k].written, after |-> torn]
    <3>1. /\ calls' = Drop(calls, k) /\ audit' = Append(audit, entry) /\ torn' = 0
          /\ UNCHANGED <<lastId, lost>> /\ k \in DOMAIN calls
      BY <2>5 DEF AppendAudit, Busy
    <3>2. entry \in [continuation : Continuations, id : Nat, after : Nat]
          /\ entry.after = torn
      BY <2>f, <3>1 DEF CallRecord, TypeOK
    <3> HIDE DEF entry
    <3>3. /\ Len(audit) \in Nat /\ Len(audit') = Len(audit) + 1
          /\ audit'[Len(audit) + 1] = entry
          /\ \A i \in 1..Len(audit) : audit'[i] = audit[i]
      BY <3>1, <3>2, AppendFacts DEF TypeOK
    <3>4. \A i \in 1..Len(audit') :
             \/ i \in 1..Len(audit) /\ audit'[i].after = audit[i].after
             \/ i = Len(audit) + 1 /\ audit'[i].after = torn
      BY <3>2, <3>3
    <3>5. \A i \in 1..Len(audit') : audit'[i].after \in lost' \cup {0}
      BY <3>1, <3>4
    <3>6. OneLinePerCrash'
      BY <3>4 DEF OneLinePerCrash
    <3>7. \A j \in DOMAIN calls' : j \in DOMAIN calls /\ calls'[j] = calls[j]
      BY <3>1 DEF Drop
    <3> QED
      BY <3>1, <3>5, <3>6, <3>7
  <2>6. ASSUME NEW k \in Callers, Crash(k) PROVE TornInv'
    <3>1. /\ k \in DOMAIN calls /\ UNCHANGED <<audit, lastId>>
          /\ \A j \in DOMAIN calls' : j # k /\ j \in DOMAIN calls /\ calls'[j] = calls[j]
      BY <2>6 DEF Crash, Drop
    <3>2. CASE calls[k].stage # "written"
      BY <2>6, <2>g, <3>1, <3>2 DEF Crash
    <3>3. CASE calls[k].stage = "written"
      <4>1. lost' = lost \cup {calls[k].written} /\ torn' \in {torn, calls[k].written}
        BY <2>6, <3>3 DEF Crash
      <4>2. calls[k].written \in 1..lastId /\ calls[k].written \notin lost
        BY <2>f, <3>1, <3>3
      <4>3. \A i \in 1..Len(audit) : audit'[i].after \in lost' \cup {0}
                                     /\ (torn' # 0 => audit'[i].after # torn')
        BY <3>1, <4>1, <4>2
      <4>4. OneLinePerCrash'
        BY <3>1 DEF OneLinePerCrash
      <4>5. \A j \in DOMAIN calls' : calls'[j].stage = "written" =>
                                       calls'[j].written \notin lost' \cup {0}
        BY <3>1, <3>3, <4>1
      <4>6. lost' \subseteq 1..lastId' /\ torn' \in lost' \cup {0}
        BY <3>1, <4>1, <4>2
      <4> QED
        BY <3>1, <4>3, <4>4, <4>5, <4>6
    <3> QED
      BY <3>2, <3>3
  <2>7. ASSUME NEW c \in Continuations, PrepareDelivery(c) PROVE TornInv'
    BY <2>7, <2>g DEF PrepareDelivery
  <2>8. ASSUME NEW g, SetGovernance(g) PROVE TornInv'
    BY <2>8, <2>g DEF SetGovernance
  <2>9. CASE UNCHANGED vars
    BY <2>9, <2>g DEF vars
  <2> QED
    BY <2>1, <2>2, <2>3, <2>4, <2>5, <2>6, <2>7, <2>8, <2>9 DEF Next
<1> QED
  BY <1>0, <1>1, <1>2, PTL DEF Spec

\* A transition in the store that no readable line of the audit tells of is about
\* to be appended, or its caller crashed, or its line was written onto the one a
\* crash left unfinished; and each crash takes at most one line with it.
THEOREM AuditGapsOnlyCrashes == Spec => []AuditGapsAreCrashes
<1>1. AuditInv /\ TornInv => AuditGapsAreCrashes
  <2> SUFFICES ASSUME AuditInv, TornInv PROVE AuditGapsAreCrashes
    OBVIOUS
  <2>1. \A i \in 1..Len(audit) : audit[i].after = 0 \/ audit[i].after \in lost
    BY DEF TornInv
  <2>2. GivenIds \subseteq AccountedIds
    BY <2>1 DEF GivenIds, LineIds, AccountedIds, AuditedIds, JoinedIds
  <2>3. TransitionsIn(store, AccountedIds)
    BY <2>2, TransitionsInMono DEF AuditInv, TypeOK
  <2> QED
    BY <2>3 DEF TornInv, AuditGapsAreCrashes
<1> QED
  BY <1>1, AuditInduction, TornInduction, PTL

--------------------------------------------------------------------------------
(* A single caller, whose calls do not overlap; it may still crash in any call, *)
(* and the operator may edit the governance at any time.  The induction rests   *)
(* on CallsAreCurrent: what the one call in progress has checked and loaded     *)
(* still holds of the store when it writes.                                     *)

OneCaller == \A j, k \in Callers : j = k

\* What a call has checked holds until it has written.
CallIsCurrent(call) ==
    LET now == store[call.continuation] IN
    /\ call.stage = "loaded" => call.loaded = store
    /\ call.stage # "written" =>
          /\ call.kind = "suspend" => call.provenance = {}
          /\ call.kind \in {"approve", "deny"} =>
                /\ now.state = Suspended
                /\ call.provenance = (now.provenance \ {"approve", "deny"}) \cup {call.kind}
          /\ call.kind = "resume" =>
                /\ now.state \in {Suspended, Approved}
                /\ call.provenance = now.provenance \cup {"continuation"}

CallsAreCurrent == \A k \in DOMAIN calls : CallIsCurrent(calls[k])

\* A lineage whose ids were handed out one after the other, up to the last.
IdsGrow(l) ==
    \A i \in 1..Len(l) :
        /\ l[i].id <= lastId
        /\ \A j \in 1..(i - 1) : l[j].id < l[i].id

\* No denial is part of the life of an instance that is not denied now.
DenialIsFinal(instance) ==
    LET l == instance.lineage IN
    instance.state # Denied => \A i \in SinceSuspension(l, Len(l)) : l[i].to # Denied

\* ProvenanceTellsDecision of one instance.
TellsDecision(instance) ==
    LET l == instance.lineage IN
    \A kind \in {"approve", "deny"} :
        kind \in instance.provenance <=>
            \E i \in SinceSuspension(l, Len(l)) :
                l[i].type = "approval_decision" /\ l[i].to = Outcome[kind]

\* DeliveryFollowsApproval of one delivery and the lineage it was prepared on,
\* without saying which of equal ids is meant.
Follows(p, l) ==
    \E n \in 1..Len(l) :
        /\ l[n].id = p.id
        /\ \E i \in SinceSuspension(l, n) : l[i].to \in {Approved, Resumed}
        /\ \A i \in SinceSuspension(l, n) : l[i].to # Denied

SerialInv ==
    /\ LineageInv
    /\ CallsAreCurrent
    /\ \A c \in Continuations :
          IdsGrow(store[c].lineage) /\ TellsDecision(store[c]) /\ DenialIsFinal(store[c])
    /\ \A p \in prepared : Follows(p, store[p.continuation].lineage)

--------------------------------------------------------------------------------
(* A lineage since its last suspension. *)

\* The states that a call can write, and the absence of one, are distinct.
LEMMA StatesDistinct ==
    /\ Suspended # Approved /\ Suspended # Denied /\ Suspended # Resumed
    /\ Approved # Denied /\ Approved # Resumed /\ Denied # Resumed
    /\ NoState \notin States
    /\ Outcome["suspend"] = Suspended /\ Outcome["approve"] = Approved
    /\ Outcome["deny"] = Denied /\ Outcome["resume"] = Resumed
    /\ Kinds = {"suspend", "approve", "deny", "resume"}
<1>1. /\ Suspended.status = "suspended" /\ Approved.status = "approved_pending_resume"
      /\ Denied.status = "terminated_denied" /\ Resumed.status = "resumed_pending_execution"
      /\ NoState.status = "none"
  BY DEF Suspended, Approved, Denied, Resumed, NoState, State
<1>2. /\ Suspended # Approved /\ Suspended # Denied /\ Suspended # Resumed
      /\ Approved # Denied /\ Approved # Resumed /\ Denied # Resumed
      /\ NoState \notin States
  BY <1>1 DEF States
<1>3. /\ Outcome["suspend"] = Suspended /\ Outcome["approve"] = Approved
      /\ Outcome["deny"] = Denied /\ Outcome["resume"] = Resumed
  BY DEF Outcome
<1>4. Kinds = {"suspend", "approve", "deny", "resume"}
  BY DEF Kinds, Outcome
<1> QED
  BY <1>2, <1>3, <1>4

\* A transition added to a lineage leaves what was since the last suspension
\* of every earlier transition as it was, and is added to it at the end,
\* unless it is itself a suspension.
LEMMA SinceAppend ==
    ASSUME NEW l \in Seq(Transition), NEW t \in Transition
    PROVE  /\ \A n \in 1..Len(l) : SinceSuspension(Append(l, t), n) = SinceSuspension(l, n)
           /\ SinceSuspension(Append(l, t), Len(l) + 1) =
                 IF t.to = Suspended THEN {Len(l) + 1}
                 ELSE SinceSuspension(l, Len(l)) \cup {Len(l) + 1}
<1> DEFINE m == Append(l, t)
<1>1. /\ Len(l) \in Nat /\ m[Len(l) + 1] = t
      /\ \A i \in 1..Len(l) : m[i] = l[i]
  BY AppendFacts
<1> HIDE DEF m
<1>2. \A n \in 1..Len(l) : SinceSuspension(m, n) = SinceSuspension(l, n)
  BY <1>1 DEF SinceSuspension
<1>3. \A i \in 1..(Len(l) + 1) :
         i \in SinceSuspension(m, Len(l) + 1) <=>
            \/ i = Len(l) + 1
            \/ t.to # Suspended /\ i \in SinceSuspension(l, Len(l))
  BY <1>1 DEF SinceSuspension
<1>4. SinceSuspension(m, Len(l) + 1) \subseteq 1..(Len(l) + 1)
  BY DEF SinceSuspension
<1>5. SinceSuspension(l, Len(l)) \subseteq 1..(Len(l) + 1)
  BY <1>1 DEF SinceSuspension
<1>6. SinceSuspension(m, Len(l) + 1) =
         IF t.to = Suspended THEN {Len(l) + 1}
         ELSE SinceSuspension(l, Len(l)) \cup {Len(l) + 1}
  <2>1. Len(l) + 1 \in 1..(Len(l) + 1)
    BY <1>1
  <2>2. CASE t.to = Suspended
    BY <1>3, <1>4, <2>1, <2>2
  <2>3. CASE t.to # Suspended
    BY <1>3, <1>4, <1>5, <2>1, <2>3
  <2> QED
    BY <2>2, <2>3
<1> QED
  BY <1>2, <1>6 DEF m

\* The life of a lineage that ends in a suspension is that suspension.
LEMMA SinceSuspendedNow ==
    ASSUME NEW l \in Seq(Transition), l # <<>>, l[Len(l)].to = Suspended
    PROVE  SinceSuspension(l, Len(l)) = {Len(l)}
<1>1. Len(l) \in Nat \ {0}
  OBVIOUS
<1> QED
  BY <1>1 DEF SinceSuspension

--------------------------------------------------------------------------------
(* The steps of a single caller. *)

\* A write of the call in progress changes its instance from what the call had
\* checked, and no other.
LEMMA WriteExtends ==
    ASSUME LineageInv, CallsAreCurrent, NEW k \in Callers, Write(k)
    PROVE  LET call == calls[k]
               c    == call.continuation
               t    == NewTransition(call, lastId + 1)
           IN  /\ k \in DOMAIN calls /\ call.stage = "loaded" /\ CallIsCurrent(call)
               /\ c \in Continuations /\ call.kind \in Kinds /\ t \in Transition
               /\ store[c].lineage \in Seq(Transition)
               /\ store' \in Files
               /\ store'[c] = [state |-> Outcome[call.kind],
                               provenance |-> call.provenance,
                               lineage |-> Append(store[c].lineage, t)]
               /\ \A d \in Continuations \ {c} : store'[d] = store[d]
<1> USE DEF LineageInv, TypeOK
<1>1. k \in DOMAIN calls /\ calls[k] \in CallRecord /\ calls[k].stage = "loaded"
  BY DEF Write, Busy
<1>2. lastId + 1 \in Nat \ {0}
  BY ConstantsAssumption
<1>3. calls[k].loaded = store /\ CallIsCurrent(calls[k])
  BY <1>1 DEF CallsAreCurrent, CallIsCurrent
<1>4. calls[k].continuation \in Continuations /\ calls[k].kind \in Kinds
  BY <1>1 DEF CallRecord
<1>5. store[calls[k].continuation].lineage \in Seq(Transition)
  BY <1>4 DEF Files, Instance
<1>6. NewTransition(calls[k], lastId + 1) \in Transition
  BY <1>1, <1>2, NewTransitionType
<1>7. NewInstance(calls[k], lastId + 1) \in Instance
  BY <1>1, <1>2, NewInstanceType
<1>8. store' = [store EXCEPT ![calls[k].continuation] = NewInstance(calls[k], lastId + 1)]
  BY <1>3 DEF Write
<1>9. NewInstance(calls[k], lastId + 1) =
         [state |-> Outcome[calls[k].kind], provenance |-> calls[k].provenance,
          lineage |-> Append(store[calls[k].continuation].lineage,
                             NewTransition(calls[k], lastId + 1))]
  BY <1>3 DEF NewInstance
<1>10. store' \in Files
  BY <1>4, <1>7, <1>8 DEF Files
<1>11. /\ store'[calls[k].continuation] = NewInstance(calls[k], lastId + 1)
       /\ \A d \in Continuations \ {calls[k].continuation} : store'[d] = store[d]
  BY <1>4, <1>8 DEF Files
<1> QED
  BY <1>1, <1>3, <1>4, <1>5, <1>6, <1>9, <1>10, <1>11

\* A step of a single caller leaves its call current: no one else writes.
LEMMA CallsStayCurrent ==
    ASSUME OneCaller, LineageInv, CallsAreCurrent, [Next]_vars
    PROVE  CallsAreCurrent'
<1> USE DEF CallsAreCurrent
<1>1. /\ DOMAIN calls \subseteq Callers
      /\ calls = [k \in DOMAIN calls |-> calls[k]]
      /\ \A k \in DOMAIN calls : calls[k] \in CallRecord
  BY DEF LineageInv, TypeOK
<1>b. ASSUME NEW k \in Callers, NEW kind \in Kinds, NEW c \in Continuations, NEW p,
             Begin(k, kind, c, p),
             kind = "suspend" => p = {},
             kind \in {"approve", "deny"} =>
                /\ store[c].state = Suspended
                /\ p = (store[c].provenance \ {"approve", "deny"}) \cup {kind},
             kind = "resume" =>
                /\ store[c].state \in {Suspended, Approved}
                /\ p = store[c].provenance \cup {"continuation"}
      PROVE  CallsAreCurrent'
  <2>1. \A j \in DOMAIN calls' : j = k
    BY <1>1, <1>b DEF Begin, Put, OneCaller
  <2>2. calls'[k] = Call("checked", kind, c, p, EmptyFile, 0) /\ store' = store
    BY <1>b DEF Begin, Put
  <2>3. /\ calls'[k].stage = "checked" /\ calls'[k].kind = kind
        /\ calls'[k].continuation = c /\ calls'[k].provenance = p
    BY <2>2 DEF Call
  <2>4. CallIsCurrent(calls[k])'
    BY <1>b, <2>2, <2>3 DEF CallIsCurrent
  <2> QED
    BY <2>1, <2>4
<1>2. ASSUME NEW k \in Callers, NEW c \in Continuations,
             \/ StartSuspension(k, c)
             \/ \E kind \in {"approve", "deny"} : StartDecision(k, c, kind)
             \/ StartResumption(k, c)
      PROVE  CallsAreCurrent'
  BY <1>2, <1>b, StatesDistinct DEF StartSuspension, StartDecision, StartResumption
<1>3. ASSUME NEW k \in Callers, Load(k)
      PROVE  CallsAreCurrent'
  <2>1. /\ k \in DOMAIN calls /\ store' = store /\ calls[k].stage = "checked"
        /\ calls' = [calls EXCEPT ![k] = [@ EXCEPT !.stage = "loaded", !.loaded = store]]
    BY <1>3 DEF Load, Busy
  <2>2. /\ calls'[k].stage = "loaded" /\ calls'[k].loaded = store
        /\ calls'[k].kind = calls[k].kind /\ calls'[k].continuation = calls[k].continuation
        /\ calls'[k].provenance = calls[k].provenance
    BY <1>1, <2>1 DEF CallRecord
  <2>3. CallIsCurrent(calls[k])'
    BY <2>1, <2>2 DEF CallIsCurrent
  <2>4. \A j \in DOMAIN calls' : j = k
    BY <1>1, <1>3, <2>1 DEF OneCaller
  <2> QED
    BY <2>3, <2>4
<1>4. ASSUME NEW k \in Callers, Write(k)
      PROVE  CallsAreCurrent'
  <2>1. /\ k \in DOMAIN calls
        /\ calls' = [calls EXCEPT ![k] = [@ EXCEPT !.stage = "written", !.written = lastId + 1]]
    BY <1>4 DEF Write, Busy
  <2>2. calls'[k].stage = "written"
    BY <1>1, <2>1 DEF CallRecord
  <2>3. \A j \in DOMAIN calls' : j = k
    BY <1>1, <1>4, <2>1 DEF OneCaller
  <2> QED
    BY <2>2, <2>3 DEF CallIsCurrent
<1>5. ASSUME NEW k \in Callers, UpdateFailed(k) \/ AppendAudit(k) \/ Crash(k)
      PROVE  CallsAreCurrent'
  <2>1. calls' = Drop(calls, k) /\ store' = store
    BY <1>5 DEF UpdateFailed, AppendAudit, Crash
  <2> QED
    BY <2>1 DEF Drop, CallIsCurrent
<1>6. ASSUME UNCHANGED <<store, calls>>
      PROVE  CallsAreCurrent'
  BY <1>6 DEF CallIsCurrent
<1> QED
  BY <1>2, <1>3, <1>4, <1>5, <1>6 DEF Next, PrepareDelivery, SetGovernance, vars

\* The life of an instance before and after a write: what the call that writes
\* adds to it.
LEMMA LifeOfWritten ==
    ASSUME NEW l \in Seq(Transition), NEW t \in Transition, NEW now \in Instance,
           now.lineage = l, now = NoInstance \/ SoundInstance(now)
    PROVE  LET m == Append(l, t) IN
           /\ Len(m) = Len(l) + 1 /\ m[Len(m)] = t /\ \A i \in 1..Len(l) : m[i] = l[i]
           /\ t.to = Suspended => SinceSuspension(m, Len(m)) = {Len(m)}
           /\ t.to # Suspended =>
                 SinceSuspension(m, Len(m)) = SinceSuspension(l, Len(l)) \cup {Len(m)}
           /\ now.state = Suspended => SinceSuspension(l, Len(l)) = {Len(l)} /\ l[Len(l)].to = Suspended
           /\ now.state # NoState => Len(l) \in 1..Len(l) /\ l[Len(l)].to = now.state
<1>1. /\ Len(Append(l, t)) = Len(l) + 1 /\ Append(l, t)[Len(l) + 1] = t
      /\ \A i \in 1..Len(l) : Append(l, t)[i] = l[i]
  BY AppendFacts
<1>2. now.state # NoState => l # <<>> /\ l[Len(l)].to = now.state
  BY DEF NoInstance, SoundInstance, LineageValid
<1>3. now.state # NoState => Len(l) \in 1..Len(l)
  BY <1>2
<1>4. now.state = Suspended => SinceSuspension(l, Len(l)) = {Len(l)} /\ l[Len(l)].to = Suspended
  BY <1>2, SinceSuspendedNow, StatesDistinct DEF States
<1>5. Len(l) \in Nat
  OBVIOUS
<1>6. SinceSuspension(Append(l, t), Len(l) + 1) =
         IF t.to = Suspended THEN {Len(l) + 1}
         ELSE SinceSuspension(l, Len(l)) \cup {Len(l) + 1}
  BY SinceAppend
<1> HIDE DEF SinceSuspension
<1> QED
  BY <1>1, <1>2, <1>3, <1>4, <1>6, Zenon

\* What a write makes of an instance tells its decision and is denied for good,
\* when the call that writes had checked the instance it changes.
LEMMA WrittenTellsDecision ==
    ASSUME NEW now \in Instance, now = NoInstance \/ SoundInstance(now),
           TellsDecision(now), DenialIsFinal(now),
           NEW kind \in Kinds, NEW t \in Transition, t.to = Outcome[kind],
           t.type = "approval_decision" <=> kind \in {"approve", "deny"},
           NEW new, new.lineage = Append(now.lineage, t), new.state = Outcome[kind],
           kind = "suspend" => new.provenance = {},
           kind \in {"approve", "deny"} =>
              /\ now.state = Suspended
              /\ new.provenance = (now.provenance \ {"approve", "deny"}) \cup {kind},
           kind = "resume" =>
              /\ now.state \in {Suspended, Approved}
              /\ new.provenance = now.provenance \cup {"continuation"}
    PROVE  TellsDecision(new) /\ DenialIsFinal(new)
<1> DEFINE l == now.lineage
           m == new.lineage
           S == SinceSuspension(l, Len(l))
<1>1. l \in Seq(Transition) /\ Len(l) \in Nat
  BY DEF Instance
<1>2. /\ Len(m) = Len(l) + 1 /\ m[Len(m)] = t /\ \A i \in 1..Len(l) : m[i] = l[i]
      /\ t.to = Suspended => SinceSuspension(m, Len(m)) = {Len(m)}
      /\ t.to # Suspended => SinceSuspension(m, Len(m)) = S \cup {Len(m)}
      /\ now.state = Suspended => S = {Len(l)} /\ l[Len(l)].to = Suspended
      /\ now.state # NoState => Len(l) \in 1..Len(l) /\ l[Len(l)].to = now.state
  <2> HIDE DEF l, m
  <2>1. l \in Seq(Transition) /\ now.lineage = l /\ m = Append(l, t)
    BY <1>1 DEF l, m
  <2> QED
    <3> DEFINE a == Append(l, t)
    <3>1. /\ Len(a) = Len(l) + 1 /\ a[Len(a)] = t /\ \A i \in 1..Len(l) : a[i] = l[i]
          /\ t.to = Suspended => SinceSuspension(a, Len(a)) = {Len(a)}
          /\ t.to # Suspended =>
                SinceSuspension(a, Len(a)) = SinceSuspension(l, Len(l)) \cup {Len(a)}
          /\ now.state = Suspended =>
                SinceSuspension(l, Len(l)) = {Len(l)} /\ l[Len(l)].to = Suspended
          /\ now.state # NoState => Len(l) \in 1..Len(l) /\ l[Len(l)].to = now.state
      BY <2>1, LifeOfWritten, Zenon
    <3>2. m = a
      BY <2>1
    <3> HIDE DEF a
    <3> QED
      BY <3>1, <3>2 DEF S
<1>3. \A i \in S : i \in 1..Len(l) /\ m[i] = l[i]
  BY <1>2 DEF SinceSuspension
<1>4. /\ TellsDecision(new) <=>
            \A d \in {"approve", "deny"} :
               d \in new.provenance <=>
                  \E i \in SinceSuspension(m, Len(m)) :
                     m[i].type = "approval_decision" /\ m[i].to = Outcome[d]
      /\ DenialIsFinal(new) <=>
            (Outcome[kind] # Denied =>
               \A i \in SinceSuspension(m, Len(m)) : m[i].to # Denied)
  BY DEF TellsDecision, DenialIsFinal
<1>5. /\ \A d \in {"approve", "deny"} :
            d \in now.provenance <=>
               \E i \in S : l[i].type = "approval_decision" /\ l[i].to = Outcome[d]
      /\ now.state # Denied => \A i \in S : l[i].to # Denied
  BY DEF TellsDecision, DenialIsFinal
<1> HIDE DEF l, m, S
<1> USE StatesDistinct
<1>6. CASE kind = "suspend"
  BY <1>2, <1>4, <1>6
<1>7. CASE kind \in {"approve", "deny"}
  <2>1. SinceSuspension(m, Len(m)) = {Len(l), Len(m)} /\ m[Len(l)].to = Suspended
    <3>1. Outcome[kind] # Suspended /\ now.state = Suspended /\ now.state # NoState
      BY <1>7 DEF States
    <3>2. SinceSuspension(m, Len(m)) = S \cup {Len(m)} /\ S = {Len(l)}
      BY <1>2, <3>1
    <3>3. Len(l) \in 1..Len(l) /\ l[Len(l)].to = Suspended /\ m[Len(l)] = l[Len(l)]
      BY <1>2, <3>1
    <3> QED
      BY <3>2, <3>3
  <2>2. \A i \in SinceSuspension(m, Len(m)) : m[i].to \in {Suspended, Outcome[kind]}
    BY <1>2, <2>1
  <2>3. \A d \in {"approve", "deny"} : d \in new.provenance <=> d = kind
    BY <1>7
  <2>4. \A d \in {"approve", "deny"} :
           d = kind <=>
              \E i \in SinceSuspension(m, Len(m)) :
                 m[i].type = "approval_decision" /\ m[i].to = Outcome[d]
    BY <1>2, <1>7, <2>1, <2>2
  <2>5. Outcome[kind] # Denied => \A i \in SinceSuspension(m, Len(m)) : m[i].to # Denied
    BY <2>2
  <2> QED
    BY <1>4, <2>3, <2>4, <2>5
<1>8. CASE kind = "resume"
  <2>1. SinceSuspension(m, Len(m)) = S \cup {Len(m)}
    BY <1>2, <1>8
  <2>2. \A d \in {"approve", "deny"} : d \in new.provenance <=> d \in now.provenance
    BY <1>8
  <2>3. \A d \in {"approve", "deny"} :
           (\E i \in SinceSuspension(m, Len(m)) :
               m[i].type = "approval_decision" /\ m[i].to = Outcome[d])
              <=> (\E i \in S : l[i].type = "approval_decision" /\ l[i].to = Outcome[d])
    BY <1>2, <1>3, <1>8, <2>1
  <2>4. \A i \in SinceSuspension(m, Len(m)) : m[i].to # Denied
    BY <1>2, <1>3, <1>5, <1>8, <2>1
  <2> QED
    BY <1>4, <1>5, <2>2, <2>3, <2>4
<1> QED
  BY <1>6, <1>7, <1>8

\* A delivery stays on top of its approval however the lineage goes on.
LEMMA FollowsStays ==
    ASSUME NEW l \in Seq(Transition), NEW t \in Transition, NEW p, Follows(p, l)
    PROVE  Follows(p, Append(l, t))
<1> DEFINE m == Append(l, t)
<1>1. /\ Len(l) \in Nat /\ Len(m) = Len(l) + 1 /\ \A i \in 1..Len(l) : m[i] = l[i]
      /\ \A n \in 1..Len(l) : SinceSuspension(m, n) = SinceSuspension(l, n)
  <2>1. Len(l) \in Nat /\ Len(m) = Len(l) + 1 /\ \A i \in 1..Len(l) : m[i] = l[i]
    OBVIOUS
  <2>2. \A n \in 1..Len(l) : SinceSuspension(Append(l, t), n) = SinceSuspension(l, n)
    BY SinceAppend
  <2> QED
    BY <2>1, <2>2
<1>2. PICK n \in 1..Len(l) :
         /\ l[n].id = p.id
         /\ \E i \in SinceSuspension(l, n) : l[i].to \in {Approved, Resumed}
         /\ \A i \in SinceSuspension(l, n) : l[i].to # Denied
  BY DEF Follows
<1>3. \A i \in SinceSuspension(l, n) : i \in 1..Len(l)
  BY <1>1 DEF SinceSuspension
<1> HIDE DEF m
<1>4. n \in 1..Len(m) /\ m[n] = l[n] /\ SinceSuspension(m, n) = SinceSuspension(l, n)
  BY <1>1
<1>5. \A i \in SinceSuspension(m, n) : m[i] = l[i]
  BY <1>1, <1>3, <1>4
<1>6. Follows(p, m)
  BY <1>2, <1>4, <1>5 DEF Follows
<1> QED
  BY <1>6 DEF m

--------------------------------------------------------------------------------
(* The induction. *)

\* A write of a single caller keeps what every instance promises.
LEMMA WriteKeepsPromises ==
    ASSUME SerialInv, NEW k \in Callers, Write(k)
    PROVE  /\ \A c \in Continuations :
                 /\ IdsGrow(store[c].lineage)'
                 /\ TellsDecision(store'[c]) /\ DenialIsFinal(store'[c])
           /\ \A p \in prepared :
                 p.continuation \in Continuations => Follows(p, store'[p.continuation].lineage)
<1>0. PICK call, w, t, l :
         /\ call = calls[k] /\ w = call.continuation
         /\ t = NewTransition(call, lastId + 1) /\ l = store[w].lineage
  OBVIOUS
<1>1. /\ call.stage = "loaded" /\ CallIsCurrent(call)
      /\ w \in Continuations /\ call.kind \in Kinds /\ t \in Transition
      /\ l \in Seq(Transition)
      /\ store'[w] = [state |-> Outcome[call.kind], provenance |-> call.provenance,
                      lineage |-> Append(l, t)]
      /\ \A d \in Continuations \ {w} : store'[d] = store[d]
  BY <1>0, WriteExtends DEF SerialInv
<1>2. /\ t.id = lastId + 1 /\ t.to = Outcome[call.kind]
      /\ t.type = "approval_decision" <=> call.kind \in {"approve", "deny"}
  BY <1>0, <1>1, StatesDistinct DEF NewTransition, TransitionType
<1>3. lastId \in Nat /\ lastId' = lastId + 1
  BY ConstantsAssumption DEF Write, SerialInv, LineageInv, TypeOK
<1>4. /\ store[w] \in Instance /\ (store[w] = NoInstance \/ SoundInstance(store[w]))
      /\ \A c \in Continuations : store[c].lineage \in Seq(Transition)
  BY <1>1 DEF SerialInv, LineageInv, TypeOK, Files, SoundFile, Instance
<1>5. /\ call.kind = "suspend" => call.provenance = {}
      /\ call.kind \in {"approve", "deny"} =>
            /\ store[w].state = Suspended
            /\ call.provenance = (store[w].provenance \ {"approve", "deny"}) \cup {call.kind}
      /\ call.kind = "resume" =>
            /\ store[w].state \in {Suspended, Approved}
            /\ call.provenance = store[w].provenance \cup {"continuation"}
  BY <1>0, <1>1 DEF CallIsCurrent
<1>6. \A c \in Continuations :
         IdsGrow(store[c].lineage) /\ TellsDecision(store[c]) /\ DenialIsFinal(store[c])
  BY DEF SerialInv
<1>7. \A p \in prepared : Follows(p, store[p.continuation].lineage)
  BY DEF SerialInv
<1>8. TellsDecision(store'[w]) /\ DenialIsFinal(store'[w])
  <2>1. PICK new, now : new = store'[w] /\ now = store[w]
    OBVIOUS
  <2>2. /\ new.lineage = Append(now.lineage, t) /\ new.state = Outcome[call.kind]
        /\ new.provenance = call.provenance
    BY <1>0, <1>1, <2>1
  <2>3. /\ now \in Instance /\ (now = NoInstance \/ SoundInstance(now))
        /\ TellsDecision(now) /\ DenialIsFinal(now)
    BY <1>1, <1>4, <1>6, <2>1
  <2>4. /\ call.kind = "suspend" => new.provenance = {}
        /\ call.kind \in {"approve", "deny"} =>
              /\ now.state = Suspended
              /\ new.provenance = (now.provenance \ {"approve", "deny"}) \cup {call.kind}
        /\ call.kind = "resume" =>
              /\ now.state \in {Suspended, Approved}
              /\ new.provenance = now.provenance \cup {"continuation"}
    BY <1>5, <2>1, <2>2
  <2>5. TellsDecision(new) /\ DenialIsFinal(new)
    BY <1>1, <1>2, <2>2, <2>3, <2>4, WrittenTellsDecision
  <2> QED
    BY <2>1, <2>5
<1>9. IdsGrow(store[w].lineage)'
  <2>1. store'[w].lineage = Append(l, t)
    BY <1>1
  <2>2. /\ Len(l) \in Nat /\ Len(Append(l, t)) = Len(l) + 1 /\ Append(l, t)[Len(l) + 1] = t
        /\ \A i \in 1..Len(l) : Append(l, t)[i] = l[i]
    BY <1>1, AppendFacts
  <2>3. \A i \in 1..Len(l) : l[i].id \in Nat /\ l[i].id <= lastId
                             /\ \A j \in 1..(i - 1) : l[j].id < l[i].id
    <3>1. \A i \in 1..Len(l) : l[i] \in Transition
      BY <1>1
    <3> QED
      BY <1>0, <1>1, <1>6, <3>1 DEF IdsGrow, Transition
  <2> DEFINE m == Append(l, t)
  <2> HIDE DEF m
  <2>4. ASSUME NEW i \in 1..Len(m)
        PROVE  m[i].id <= lastId + 1 /\ \A j \in 1..(i - 1) : m[j].id < m[i].id
    <3>1. CASE i \in 1..Len(l)
      <4>1. \A j \in 1..(i - 1) : j \in 1..Len(l)
        BY <2>2, <3>1
      <4> QED
        BY <1>3, <2>2, <2>3, <3>1, <4>1 DEF m
    <3>2. CASE i = Len(l) + 1
      <4>1. \A j \in 1..(i - 1) : m[j].id \in Nat /\ m[j].id <= lastId
        BY <2>2, <2>3, <3>2 DEF m
      <4>2. m[i].id = lastId + 1
        BY <1>2, <2>2, <3>2 DEF m
      <4> QED
        BY <1>3, <4>1, <4>2
    <3> QED
      BY <2>2, <3>1, <3>2 DEF m
  <2> QED
    BY <1>3, <2>1, <2>4 DEF IdsGrow, m
<1>10. ASSUME NEW c \in Continuations, c # w
       PROVE  IdsGrow(store[c].lineage)'
  <2>1. store'[c].lineage = store[c].lineage /\ store[c].lineage \in Seq(Transition)
    BY <1>1, <1>4, <1>10
  <2>2. \A i \in 1..Len(store[c].lineage) : store[c].lineage[i].id \in Nat
    <3>1. \A i \in 1..Len(store[c].lineage) : store[c].lineage[i] \in Transition
      BY <2>1
    <3> QED
      BY <3>1 DEF Transition
  <2> QED
    BY <1>3, <1>6, <2>1, <2>2 DEF IdsGrow
<1>11. ASSUME NEW p \in prepared, p.continuation \in Continuations
       PROVE  Follows(p, store'[p.continuation].lineage)
  <2>1. CASE p.continuation = w
    <3>1. Follows(p, Append(l, t))
      BY <1>0, <1>1, <1>7, <2>1, FollowsStays
    <3>2. store'[w].lineage = Append(l, t)
      BY <1>1
    <3> QED
      BY <2>1, <3>1, <3>2, Zenon
  <2>2. CASE p.continuation # w
    BY <1>1, <1>7, <1>11, <2>2
  <2> QED
    BY <2>1, <2>2
<1> QED
  BY <1>1, <1>6, <1>8, <1>9, <1>10, <1>11

\* A delivery is prepared on top of what the store says then.
LEMMA PreparedFollows ==
    ASSUME SerialInv, NEW c \in Continuations, PrepareDelivery(c)
    PROVE  \A p \in prepared' : Follows(p, store[p.continuation].lineage)
<1> DEFINE l == store[c].lineage
           p == [continuation |-> c, id |-> Latest(l)]
<1>1. store[c].state \in {Approved, Resumed} /\ prepared' = prepared \cup {p}
  BY DEF PrepareDelivery
<1>2. store[c] # NoInstance /\ store[c].state # Denied
  BY <1>1, StatesDistinct DEF NoInstance, States
<1>3. l \in Seq(Transition) /\ l # <<>> /\ l[Len(l)].to = store[c].state
  BY <1>2 DEF SerialInv, LineageInv, TypeOK, Files, Instance, SoundFile, SoundInstance,
     LineageValid
<1>4. Len(l) \in 1..Len(l) /\ Len(l) \in SinceSuspension(l, Len(l))
  BY <1>3 DEF SinceSuspension
<1>5. \A i \in SinceSuspension(l, Len(l)) : l[i].to # Denied
  BY <1>2 DEF SerialInv, DenialIsFinal
<1>6. l[Len(l)].id = p.id
  BY <1>3 DEF Latest
<1>7. Follows(p, l)
  BY <1>1, <1>3, <1>4, <1>5, <1>6 DEF Follows
<1> QED
  BY <1>1, <1>7 DEF SerialInv

\* The induction that the theorems of this module rest on.
LEMMA SerialInduction ==
    ASSUME OneCaller
    PROVE  Spec => []SerialInv
<1>1. Init /\ LineageInv => SerialInv
  BY StatesDistinct DEF Init, SerialInv, CallsAreCurrent, IdsGrow, TellsDecision, DenialIsFinal,
     EmptyFile, NoInstance, SinceSuspension
<1>2. SerialInv /\ LineageInv' /\ [Next]_vars => SerialInv'
  <2> SUFFICES ASSUME SerialInv, LineageInv', [Next]_vars
               PROVE  SerialInv'
    OBVIOUS
  <2>1. CallsAreCurrent'
    BY CallsStayCurrent DEF SerialInv
  <2>2. \A p \in prepared : p.continuation \in Continuations
    BY DEF SerialInv, LineageInv, TypeOK
  <2>3. ASSUME NEW k \in Callers, Write(k)
        PROVE  SerialInv'
    BY <2>1, <2>2, <2>3, WriteKeepsPromises DEF SerialInv, Write
  <2>4. ASSUME NEW c \in Continuations, PrepareDelivery(c)
        PROVE  SerialInv'
    BY <2>1, <2>4, PreparedFollows DEF SerialInv, PrepareDelivery, IdsGrow
  <2>5. ASSUME UNCHANGED <<store, lastId, prepared>>
        PROVE  SerialInv'
    BY <2>1, <2>5 DEF SerialInv, IdsGrow
  <2> QED
    BY <2>3, <2>4, <2>5 DEF Next, StartSuspension, StartDecision, StartResumption, Begin, Load,
       UpdateFailed, AppendAudit, Crash, SetGovernance, vars
<1> QED
  BY <1>1, <1>2, LineageInduction, PTL DEF Spec

\* The provenance of an instance names the decision of its lineage and no other
\* (ProvenanceTellsDecision): no two calls, no crash between them and no new
\* suspension of the same step leave a decision behind that the lineage lacks.
THEOREM ProvenanceAlwaysTells ==
    ASSUME OneCaller
    PROVE  Spec => []ProvenanceTellsDecision
<1>1. SerialInv => ProvenanceTellsDecision
  BY DEF SerialInv, TellsDecision, ProvenanceTellsDecision
<1> QED
  BY <1>1, SerialInduction, PTL

\* A delivery is prepared only on top of an approval or a resumption that no
\* denial has ended (DeliveryFollowsApproval), whatever happens later.
THEOREM DeliveriesFollowApprovals ==
    ASSUME OneCaller
    PROVE  Spec => []DeliveryFollowsApproval
<1>1. SerialInv => DeliveryFollowsApproval
  <2> SUFFICES ASSUME SerialInv, NEW p \in prepared
               PROVE  /\ HasTransition(p.continuation, p.id)
                      /\ LET l == store[p.continuation].lineage
                             n == CHOOSE i \in 1..Len(l) : l[i].id = p.id
                         IN  /\ \E i \in SinceSuspension(l, n) : l[i].to \in {Approved, Resumed}
                             /\ \A i \in SinceSuspension(l, n) : l[i].to # Denied
    BY DEF DeliveryFollowsApproval
  <2>1. PICK l : l = store[p.continuation].lineage
    OBVIOUS
  <2>2. /\ l \in Seq(Transition) /\ IdsGrow(l) /\ Follows(p, l)
    BY <2>1 DEF SerialInv, LineageInv, TypeOK, Files, Instance
  <2>3. PICK n \in 1..Len(l) :
           /\ l[n].id = p.id
           /\ \E i \in SinceSuspension(l, n) : l[i].to \in {Approved, Resumed}
           /\ \A i \in SinceSuspension(l, n) : l[i].to # Denied
    BY <2>2 DEF Follows
  <2>4. ASSUME NEW i \in 1..Len(l), l[i].id = p.id
        PROVE  i = n
    <3>1. l[i].id \in Nat /\ l[n].id \in Nat
      <4>1. l[i] \in Transition /\ l[n] \in Transition
        BY <2>2
      <4> QED
        BY <4>1 DEF Transition
    <3>2. i < n => l[i].id < l[n].id
      BY <2>2 DEF IdsGrow
    <3>3. n < i => l[n].id < l[i].id
      BY <2>2 DEF IdsGrow
    <3> QED
      BY <2>2, <2>3, <2>4, <3>1, <3>2, <3>3
  <2>5. (CHOOSE i \in 1..Len(l) : l[i].id = p.id) = n
    BY <2>3, <2>4
  <2> QED
    BY <2>1, <2>3, <2>5 DEF HasTransition
<1> QED
  BY <1>1, SerialInduction, PTL

\* The calls of a single caller implement the life of a continuation that
\* WorkflowLifecycle promises (LifecycleSpec): every write of a call is the
\* step of its kind, and every other step a stutter.
THEOREM ImplementsLifecycle ==
    ASSUME OneCaller
    PROVE  Spec => LifecycleSpec
<1> DEFINE phase == [c \in Continuations |-> PhaseOf(c)]
<1>1. Init => Lifecycle!Init
  <2> SUFFICES ASSUME Init, NEW c \in Continuations
               PROVE  PhaseOf(c) = "absent"
    BY DEF Lifecycle!Init
  <2>1. store[c].state = NoState
    BY DEF Init, EmptyFile, NoInstance
  <2> QED
    BY <2>1, StatesDistinct DEF PhaseOf, States
<1>2. SerialInv /\ [Next]_vars => [Lifecycle!Next]_phase
  <2> SUFFICES ASSUME SerialInv, [Next]_vars
               PROVE  Lifecycle!Next \/ phase' = phase
    OBVIOUS
  <2>1. ASSUME NEW k \in Callers, Write(k)
        PROVE  Lifecycle!Next
    <3>1. PICK call, w :
             /\ call = calls[k] /\ w = call.continuation
             /\ w \in Continuations /\ call.kind \in Kinds
             /\ call.stage = "loaded" /\ CallIsCurrent(call)
             /\ store'[w].state = Outcome[call.kind]
             /\ \A d \in Continuations \ {w} : store'[d] = store[d]
      <4>1. PICK call, w, new :
               /\ call = calls[k] /\ w = call.continuation
               /\ new = Append(store[w].lineage, NewTransition(call, lastId + 1))
        OBVIOUS
      <4>2. /\ w \in Continuations /\ call.kind \in Kinds
            /\ call.stage = "loaded" /\ CallIsCurrent(call)
            /\ store'[w] = [state |-> Outcome[call.kind], provenance |-> call.provenance,
                            lineage |-> new]
            /\ \A d \in Continuations \ {w} : store'[d] = store[d]
        BY <2>1, <4>1, WriteExtends DEF SerialInv
      <4> QED
        BY <4>1, <4>2
    <3>2. \A d \in Continuations \ {w} : PhaseOf(d)' = PhaseOf(d)
      BY <3>1 DEF PhaseOf
    <3>3. PhaseOf(w) \in {"absent", "pending", "approved", "denied", "resumed"}
      <4>1. store[w].state \in States \cup {NoState}
        BY <3>1 DEF SerialInv, LineageInv, TypeOK, Files, Instance
      <4> QED
        BY <4>1 DEF States, PhaseOf
    <3>4. \A d \in Continuations : phase[d] = PhaseOf(d) /\ phase'[d] = PhaseOf(d)'
      OBVIOUS
    <3>5. \A to : PhaseOf(w)' = to => phase' = [phase EXCEPT ![w] = to]
      BY <3>1, <3>2
    <3> HIDE DEF phase
    <3>6. CASE call.kind = "suspend"
      <4>1. PhaseOf(w)' = "pending"
        BY <3>1, <3>6, StatesDistinct DEF PhaseOf, States
      <4>2. Lifecycle!Suspend(w)
        BY <3>1, <3>3, <3>4, <3>5, <4>1
           DEF Lifecycle!Suspend, Lifecycle!Move, Lifecycle!Phases, phase
      <4> QED
        BY <3>1, <4>2 DEF Lifecycle!Next
    <3>7. CASE call.kind \in {"approve", "deny"}
      <4>1. store[w].state = Suspended
        BY <3>1, <3>7 DEF CallIsCurrent
      <4>2. PhaseOf(w) = "pending"
        BY <4>1, StatesDistinct DEF PhaseOf, States
      <4>3. PhaseOf(w)' = IF call.kind = "approve" THEN "approved" ELSE "denied"
        BY <3>1, <3>7, StatesDistinct DEF PhaseOf, States
      <4>4. Lifecycle!Approve(w) \/ Lifecycle!Deny(w)
        BY <3>1, <3>4, <3>5, <3>7, <4>2, <4>3
           DEF Lifecycle!Approve, Lifecycle!Deny, Lifecycle!Move, phase
      <4> QED
        BY <3>1, <4>4 DEF Lifecycle!Next
    <3>8. CASE call.kind = "resume"
      <4>1. store[w].state \in {Suspended, Approved}
        BY <3>1, <3>8 DEF CallIsCurrent
      <4>2. PhaseOf(w) \in {"pending", "approved"}
        BY <4>1, StatesDistinct DEF PhaseOf, States
      <4>3. PhaseOf(w)' = "resumed"
        BY <3>1, <3>8, StatesDistinct DEF PhaseOf, States
      <4>4. Lifecycle!Resume(w)
        BY <3>1, <3>4, <3>5, <4>2, <4>3 DEF Lifecycle!Resume, Lifecycle!Move, phase
      <4> QED
        BY <3>1, <4>4 DEF Lifecycle!Next
    <3> QED
      BY <3>1, <3>6, <3>7, <3>8, StatesDistinct
  <2>2. ASSUME UNCHANGED store
        PROVE  phase' = phase
    BY <2>2 DEF PhaseOf
  <2> QED
    BY <2>1, <2>2 DEF Next, StartSuspension, StartDecision, StartResumption, Begin, Load,
       UpdateFailed, AppendAudit, Crash, PrepareDelivery, SetGovernance, vars
<1> QED
  BY <1>1, <1>2, SerialInduction, PTL DEF Spec, LifecycleSpec, Lifecycle!Spec

================================================================================

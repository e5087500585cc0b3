----------------------------- MODULE BrokerProofs -----------------------------
(***************************************************************************)
(* The types of Broker; its pool, which keeps exact count of its promises, *)
(* never loses a wakeup and implements AdmissionPool; and who owns a       *)
(* worker: the record, the VM, the allocation and the tasks of a session   *)
(* agree with each other.  All for every set of sessions, reapers and      *)
(* edits, pool size, queue bound, fault set and number of crashes.         *)
(***************************************************************************)
EXTENDS Broker, TLAPS, SequenceTheorems, FiniteSetTheorems, WellFoundedInduction

(* RemoveFirst keeps the element type and takes away one entry, if there is *)
(* one to take (queue.remove, removePoolAllocation).                        *)
LEMMA RemoveFirstType ==
  ASSUME NEW S, NEW q \in Seq(S), NEW e
  PROVE  /\ RemoveFirst(q, e) \in Seq(S)
         /\ Contains(q, e) => /\ Len(RemoveFirst(q, e)) = Len(q) - 1
                               /\ \E m \in 1..Len(q) :
                                    q[m] = e /\ RemoveFirst(q, e) = RemoveAt(q, m)
         /\ ~Contains(q, e) => RemoveFirst(q, e) = q
<1>1. CASE ~Contains(q, e)
  BY <1>1 DEF Contains, RemoveFirst
<1>2. CASE Contains(q, e)
  <2> DEFINE I == {i \in 1..Len(q) : q[i] = e}
  <2>1. I # {} /\ I \in SUBSET Nat
    BY <1>2 DEF Contains
  <2> DEFINE Below == OpToRel(<, Nat)
  <2>a. \A i, j \in Nat : i < j => <<i, j>> \in Below
    BY Zenon DEF OpToRel
  <2>b. IsWellFoundedOn(Below, Nat)
    BY NatLessThanWellFounded
  <2> HIDE DEF Below
  <2>2. PICK x \in I : \A y \in I : <<y, x>> \notin Below
    BY <2>1, <2>b, WFMin
  <2>3. \A y \in I : x =< y
    <3> HIDE DEF I
    <3> SUFFICES ASSUME NEW y \in I, y < x PROVE FALSE
      BY <2>1, <2>2
    <3> QED BY <2>1, <2>2, <2>a
  <2>4. Min(I) \in I
    BY <2>2, <2>3 DEF Min
  <2> HIDE DEF I
  <2> DEFINE m == Min(I)
  <2>5. m \in 1..Len(q) /\ q[m] = e
    BY <2>4 DEF I
  <2>6. RemoveFirst(q, e) = RemoveAt(q, m)
    <3>1. SelectInSeq(q, LAMBDA v : v = e) = m
      BY <2>1 DEF SelectInSeq, I
    <3> QED BY <1>2, <3>1 DEF RemoveFirst, Contains
  <2> HIDE DEF m
  <2>7. /\ SubSeq(q, 1, m - 1) \in Seq(S) /\ Len(SubSeq(q, 1, m - 1)) = m - 1
        /\ SubSeq(q, m + 1, Len(q)) \in Seq(S)
        /\ Len(SubSeq(q, m + 1, Len(q))) = Len(q) - m
    BY <2>5
  <2>8. /\ RemoveAt(q, m) \in Seq(S)
        /\ Len(RemoveAt(q, m)) = (m - 1) + (Len(q) - m)
    BY <2>7, ConcatProperties DEF RemoveAt
  <2>9. (m - 1) + (Len(q) - m) = Len(q) - 1
    BY <2>5
  <2> QED
    BY <1>2, <2>5, <2>6, <2>8, <2>9
<1> QED BY <1>1, <1>2

-----------------------------------------------------------------------------
(* Records and tasks keep their type                                       *)

(* Every way the store writes a record yields a record (transition, touch). *)
LEMMA RecordType ==
  /\ NewRecord \in SessionRecord
  /\ \A r \in SessionRecord :
       /\ \A to \in SessionStates : /\ MoveTo(r, to) \in SessionRecord
                                    /\ WithResult(r, to) \in SessionRecord
       /\ Touch(r) \in SessionRecord
       /\ Destroyed(r) \in SessionRecord
       /\ Aged(r) \in SessionRecord
       /\ WorkerActive(r) \in SessionRecord
       /\ FailClosed(r) \in SessionRecord
       /\ \A w \in BOOLEAN, ws \in WorkerStates : Rejected(r, w, ws) \in SessionRecord
<1> USE DEF SessionRecord, SessionStates, WorkerStates
<1>1. NewRecord \in SessionRecord
  BY DEF NewRecord
<1>2. ASSUME NEW r \in SessionRecord, NEW to \in SessionStates
      PROVE  MoveTo(r, to) \in SessionRecord /\ WithResult(r, to) \in SessionRecord
  BY DEF MoveTo, WithResult
<1>3. ASSUME NEW r \in SessionRecord
      PROVE  /\ Touch(r) \in SessionRecord
             /\ Destroyed(r) \in SessionRecord
             /\ Aged(r) \in SessionRecord
  BY DEF Touch, Destroyed, Aged
<1>4. ASSUME NEW r \in SessionRecord
      PROVE  WorkerActive(r) \in SessionRecord /\ FailClosed(r) \in SessionRecord
  BY DEF WorkerActive, FailClosed, MoveTo
<1>5. ASSUME NEW r \in SessionRecord, NEW w \in BOOLEAN, NEW ws \in WorkerStates
      PROVE  Rejected(r, w, ws) \in SessionRecord
  BY DEF Rejected, MoveTo
<1> QED BY <1>1, <1>2, <1>3, <1>4, <1>5

(* A handler that begins, moves on or ends leaves a well-formed task.       *)
LEMMA TaskType ==
  /\ NoTask \in Task
  /\ \A k \in Task :
       /\ After(k) \in Task
       /\ \A p \in Pcs : p \notin OnSession \/ k.pc \in OnSession => At(k, p) \in Task
       /\ \A p \in Pcs \ OnSession : Promised(k, p) \in Task
       /\ k.pc \in OnSession => Exported(k) \in Task
       /\ \A p \in Pcs, c \in SUBSET Edit : k.pc \in OnSession => AtWith(k, p, c) \in Task
       /\ \A s \in Session, rest \in SUBSET Session : Visit(k, s, rest) \in Task
  /\ \A s \in Session, p \in Pcs, o \in ClientOp \cup {"reapOnDisconnect"} :
       /\ Begin(o, p, s) \in Task
       /\ \A r \in SessionRecord : BeginWith(o, p, s, r) \in Task
  /\ \A o \in SweepOp, S \in SUBSET Session : Sweeping(o, S) \in Task
<1>n. NoTask \in TaskRecord
  BY RecordType DEF NoTask, TaskRecord, Pcs
<1>1. NoTask \in Task
  BY <1>n DEF Task, NoTask, OnSession
<1>2. ASSUME NEW o \in SweepOp, NEW S \in SUBSET Session PROVE Sweeping(o, S) \in Task
  BY <1>n DEF Sweeping, NoTask, Task, TaskRecord, Pcs, OnSession
<1>3. ASSUME NEW k \in Task PROVE After(k) \in Task
  <2>1. k.todo \in SUBSET Session
    BY DEF Task, TaskRecord
  <2> QED BY <1>1, <1>2, <2>1 DEF After
<1>4. ASSUME NEW k \in Task, NEW p \in Pcs, p \notin OnSession \/ k.pc \in OnSession
      PROVE  At(k, p) \in Task
  BY <1>4 DEF At, Task, TaskRecord
<1>5. ASSUME NEW k \in Task, NEW p \in Pcs \ OnSession PROVE Promised(k, p) \in Task
  BY DEF Promised, Task, TaskRecord
<1>6. ASSUME NEW k \in Task, k.pc \in OnSession PROVE Exported(k) \in Task
  BY <1>6 DEF Exported, Task, TaskRecord, Pcs
<1>7. ASSUME NEW k \in Task, NEW p \in Pcs, NEW c \in SUBSET Edit, k.pc \in OnSession
      PROVE  AtWith(k, p, c) \in Task
  BY <1>7 DEF AtWith, Task, TaskRecord
<1>8. ASSUME NEW k \in Task, NEW s \in Session, NEW rest \in SUBSET Session
      PROVE  Visit(k, s, rest) \in Task
  BY DEF Visit, Task, TaskRecord, Pcs
<1>9. ASSUME NEW s \in Session, NEW p \in Pcs, NEW o \in ClientOp \cup {"reapOnDisconnect"}
      PROVE  Begin(o, p, s) \in Task
  BY <1>n DEF Begin, NoTask, Task, TaskRecord
<1>10. ASSUME NEW s \in Session, NEW p \in Pcs, NEW o \in ClientOp \cup {"reapOnDisconnect"},
              NEW r \in SessionRecord
       PROVE  BeginWith(o, p, s, r) \in Task
  BY <1>n DEF BeginWith, Begin, NoTask, Task, TaskRecord
<1> QED BY <1>1, <1>2, <1>3, <1>4, <1>5, <1>6, <1>7, <1>8, <1>9, <1>10

(* Finish and Goto keep the tasks well formed.                              *)
LEMMA StepType ==
  ASSUME task \in [Actor -> Task], NEW a \in Actor
  PROVE  /\ Finish(a) => task' \in [Actor -> Task]
         /\ \A p \in Pcs : /\ p \notin OnSession \/ task[a].pc \in OnSession
                           /\ Goto(a, p)
                           => task' \in [Actor -> Task]
BY TaskType DEF Finish, Goto

-----------------------------------------------------------------------------
(* The drain                                                               *)

(* What drainQueue admits and leaves behind is well formed.                 *)
LEMMA DrainType ==
  ASSUME NEW al \in Seq(Session), NEW q \in Seq(Session), NEW fl \in Nat,
         NEW rs \in [Session -> SessionRecord], NEW ts \in [Actor -> Task]
  PROVE  /\ DrainCount(al, q, fl) \in 0..Len(q)
         /\ SubSeq(q, DrainCount(al, q, fl) + 1, Len(q)) \in Seq(Session)
         /\ Drained(al, q, fl) \subseteq Session
         /\ \A D : DrainedRec(rs, D) \in [Session -> SessionRecord]
         /\ \A D : DrainedTask(ts, rs, D) \in [Actor -> Task]
<1>1. DrainCount(al, q, fl) \in 0..Len(q)
  BY ConstantsAssumption DEF DrainCount, FreeSlots
<1>2. SubSeq(q, DrainCount(al, q, fl) + 1, Len(q)) \in Seq(Session)
  BY <1>1
<1>3. Drained(al, q, fl) \subseteq Session
  BY <1>1 DEF Drained
<1>4. ASSUME NEW D PROVE DrainedRec(rs, D) \in [Session -> SessionRecord]
  <2>1. "CREATING_SANDBOX" \in SessionStates
    BY DEF SessionStates
  <2> QED BY <2>1, RecordType DEF DrainedRec
<1>5. ASSUME NEW D PROVE DrainedTask(ts, rs, D) \in [Actor -> Task]
  <2>1. {"creating", "settling"} \subseteq Pcs \ OnSession
    BY DEF Pcs, OnSession
  <2> QED BY <2>1, TaskType DEF DrainedTask
<1> QED BY <1>1, <1>2, <1>3, <1>4, <1>5

(* drainQueue keeps the queue, the in-flight count and the tasks well       *)
(* formed.                                                                  *)
LEMMA DrainQueueType ==
  ASSUME NEW al \in Seq(Session), NEW q \in Seq(Session), NEW fl \in Nat,
         NEW rs \in [Session -> SessionRecord], NEW ts \in [Actor -> Task],
         DrainQueue(al, q, fl, rs, ts)
  PROVE  /\ allocations' \in Seq(Session) /\ queue' \in Seq(Session) /\ inFlight' \in Nat
         /\ task' \in [Actor -> Task]
<1>1. DrainCount(al, q, fl) \in Nat
  BY DrainType
<1>2. SubSeq(q, DrainCount(al, q, fl) + 1, Len(q)) \in Seq(Session)
  BY DrainType
<1>3. DrainedTask(ts, rs, Drained(al, q, fl)) \in [Actor -> Task]
  BY DrainType
<1> QED BY <1>1, <1>2, <1>3 DEF DrainQueue

(* The end of a creation (the finally of ensureWorker) keeps the pool well  *)
(* formed.                                                                  *)
LEMMA EndCreationType ==
  ASSUME PoolType, NEW s \in Session, NEW al \in Seq(Session),
         NEW rs \in [Session -> SessionRecord], EndCreation(s, al, rs)
  PROVE  PoolType'
<1> DEFINE ts == [task EXCEPT ![s] = NoTask]
           fl == IF inFlight > 0 THEN inFlight - 1 ELSE 0
<1>0. NoTask \in Task
  BY TaskType
<1>1. ts \in [Actor -> Task] /\ fl \in Nat
  <2>1. ts \in [Actor -> Task]
    BY <1>0 DEF PoolType
  <2>2. fl \in Nat
    BY DEF PoolType
  <2> QED BY <2>1, <2>2
<1>2. CASE task[s].queued
  <2>1. DrainQueue(al, queue, fl, rs, ts) /\ rec' = DrainedRec(rs, Drained(al, queue, fl))
    BY <1>2 DEF EndCreation
  <2> HIDE DEF ts, fl
  <2> QED BY <1>1, <2>1, DrainQueueType, DrainType DEF PoolType
<1>3. CASE ~task[s].queued
  BY <1>1, <1>3 DEF EndCreation, PoolType
<1> QED BY <1>2, <1>3

-----------------------------------------------------------------------------
(* Release and export                                                      *)

(* A record that releaseWorker writes is a record.                          *)
LEMMA ReleasedType ==
  ASSUME NEW k \in Task, NEW r \in SessionRecord
  PROVE  Released(k, r) \in SessionRecord /\ Retained(k, r) \in SessionRecord
<1>1. /\ {"RETAINED", "RESULT_READY"} \subseteq SessionStates
      /\ {"NONE", "DESTROYED"} \subseteq WorkerStates
  BY DEF SessionStates, WorkerStates
<1>2. k.snap \in SessionRecord
  BY DEF Task, TaskRecord
<1>3. k.snap.worker \in BOOLEAN /\ k.snap.workerState \in WorkerStates
  BY <1>2 DEF SessionRecord
<1>4. Released(k, r) \in SessionRecord
  BY <1>1, RecordType DEF Released
<1>5. Retained(k, r) \in SessionRecord
  BY <1>1, <1>3, RecordType DEF Retained
<1> QED BY <1>4, <1>5

(* removePoolAllocation with its drain keeps the pool well formed.          *)
LEMMA FreeAllocationType ==
  ASSUME PoolType, NEW a \in Actor, NEW k \in Task, FreeAllocation(a, k)
  PROVE  PoolType'
<1> DEFINE al == RemoveFirst(allocations, k.sid)
           ts == [task EXCEPT ![a] = After(k)]
           rs == DrainedRec(rec, Drained(al, queue, inFlight))
<1>1. al \in Seq(Session)
  BY RemoveFirstType DEF PoolType
<1>2. ts \in [Actor -> Task]
  BY TaskType DEF PoolType
<1>3. DrainQueue(al, queue, inFlight, rec, ts) /\ rec' = [rs EXCEPT ![k.sid] = Released(k, @)]
  BY DEF FreeAllocation
<1> HIDE DEF al, ts
<1>4. rs \in [Session -> SessionRecord]
  BY <1>1, <1>2, DrainType DEF PoolType
<1>5. /\ allocations' \in Seq(Session) /\ queue' \in Seq(Session) /\ inFlight' \in Nat
      /\ task' \in [Actor -> Task]
  BY <1>1, <1>2, <1>3, DrainQueueType DEF PoolType
<1> HIDE DEF rs
<1>6. rec' \in [Session -> SessionRecord]
  BY <1>3, <1>4, ReleasedType
<1> QED BY <1>5, <1>6 DEF PoolType

(* Removing a worker keeps the set of workers well formed.                  *)
LEMMA DropVMType ==
  ASSUME WorkerType, NEW k, k.sid \in Session, DropVM(k)
  PROVE  WorkerType'
<1>1. tree[k.sid] \ ref[k.sid] \in SUBSET Edit
  BY DEF WorkerType
<1>2. lost' \in SUBSET (Edit \X {"seen", "raced"})
  BY <1>1 DEF WorkerType, DropVM
<1>3. /\ vm' \in [Session -> {"absent", "running", "stopped"}]
      /\ tree' \in [Session -> SUBSET Edit] /\ head' \in [Session -> SUBSET Edit]
      /\ made' \in SUBSET Edit
  BY DEF WorkerType, DropVM
<1> QED BY <1>2, <1>3 DEF WorkerType

(* Importing a bundle keeps the refs well formed.                           *)
LEMMA ImportBundleType ==
  ASSUME ResultType, NEW t \in Session, ImportBundle(t)
  PROVE  ResultType'
BY DEF ResultType, ImportBundle

-----------------------------------------------------------------------------
(* The type invariant                                                      *)

(* Every variable is well typed when the broker starts.                     *)
LEMMA TypeInit == Init => TypeOK
<1> SUFFICES ASSUME Init PROVE TypeOK
  OBVIOUS
<1>1. PoolType
  BY TaskType, RecordType DEF Init, PoolType
<1>2. WorkerType /\ ResultType /\ crashes \in Nat
  BY DEF Init, WorkerType, ResultType
<1> QED BY <1>1, <1>2 DEF TypeOK

(* What a step leaves alone keeps its type.                                 *)
LEMMA Frame ==
  /\ UNCHANGED workerVars /\ WorkerType => WorkerType'
  /\ UNCHANGED resultVars /\ ResultType => ResultType'
  /\ UNCHANGED <<rec, poolVars, task>> /\ PoolType => PoolType'
BY DEF workerVars, resultVars, poolVars, WorkerType, ResultType, PoolType

(* The names that the actions write are names of states, steps, operations. *)
LEMMA Names ==
  /\ {"CREATING_SANDBOX", "SANDBOX_ACTIVE", "RESULT_READY", "APPLY_PENDING", "APPLIED",
      "RETAINED"} \subseteq SessionStates
  /\ Pcs = OnSession \cup {"idle", "parked", "settling", "creating", "prepping",
                           "cleaning", "sweep"}
  /\ OnSession \cap {"idle", "parked", "settling", "creating", "prepping",
                     "cleaning", "sweep"} = {}
  /\ OnSession = {"exec", "commit", "bundle", "fetch", "stop", "remove", "retry", "unref",
                  "check", "apply", "status"}
  /\ ClientOp = {"ensureWorker", "exec", "prepareResult", "applyResult",
                 "keepResult", "discardResult", "destroyWorker"}
BY DEF SessionStates, Pcs, OnSession, ClientOp

(* What the release after keepResult writes is well formed.                 *)
LEMMA KeepReleaseType ==
  ASSUME PoolType, NEW s \in Session, NEW r \in SessionRecord, KeepRelease(s, r)
  PROVE  rec' \in [Session -> SessionRecord] /\ task' \in [Actor -> Task]
<1>1. Begin("keepResult", "stop", s) \in Task /\ NoTask \in Task
  BY Names, TaskType
<1>2. MoveTo(r, "RETAINED") \in SessionRecord
  BY Names, RecordType
<1> QED BY <1>1, <1>2 DEF KeepRelease, PoolType

(* A client's new request keeps the types.                                  *)
LEMMA TypeClientRequest ==
  ASSUME TypeOK, NEW s \in Session, ClientRequest(s)
  PROVE  TypeOK'
<1>t. PoolType /\ WorkerType /\ ResultType /\ crashes \in Nat
  BY DEF TypeOK
<1>1. CASE EnsureNoCreation(s)
  <2>1. PoolType'
    BY <1>1, <1>t, RecordType DEF EnsureNoCreation, PoolType, poolVars
  <2> QED BY <1>1, <1>t, <2>1, Frame DEF EnsureNoCreation, TypeOK
<1>2. CASE EnsureDirect(s)
  <2>a. Begin("ensureWorker", "creating", s) \in Task
    BY Names, TaskType
  <2>b. rec' \in [Session -> SessionRecord]
    <3>1. /\ MoveTo(rec[s], "CREATING_SANDBOX") \in SessionRecord
          /\ Touch(rec[s]) \in SessionRecord
      BY <1>t, Names, RecordType DEF PoolType
    <3> QED BY <1>2, <1>t, <3>1 DEF EnsureDirect, PoolType
  <2>c. task' \in [Actor -> Task]
    BY <1>2, <1>t, <2>a DEF EnsureDirect, PoolType
  <2>1. PoolType'
    BY <1>2, <1>t, <2>b, <2>c DEF EnsureDirect, PoolType, poolVars
  <2> QED BY <1>2, <1>t, <2>1, Frame DEF EnsureDirect, TypeOK
<1>3. CASE EnsurePark(s)
  <2>a. Begin("ensureWorker", "parked", s) \in Task
    BY Names, TaskType
  <2>b. rec' \in [Session -> SessionRecord]
    BY <1>3, <1>t, RecordType DEF EnsurePark, PoolType
  <2>c. task' \in [Actor -> Task] /\ queue' \in Seq(Session)
    <3>1. CASE Len(queue) < QueueMax
      <4>1. /\ queue' = Append(queue, s)
            /\ task' = [task EXCEPT ![s] = Begin("ensureWorker", "parked", s)]
        BY <1>3, <3>1 DEF EnsurePark
      <4>2. queue' \in Seq(Session)
        BY <1>t, <4>1 DEF PoolType
      <4>3. task' \in [Actor -> Task]
        BY <1>t, <2>a, <4>1 DEF PoolType
      <4> QED BY <4>2, <4>3
    <3>2. CASE ~(Len(queue) < QueueMax)
      BY <1>3, <1>t, <3>2 DEF EnsurePark, PoolType
    <3> QED BY <3>1, <3>2
  <2>1. PoolType'
    BY <1>3, <1>t, <2>b, <2>c DEF EnsurePark, PoolType
  <2> QED BY <1>3, <1>t, <2>1, Frame DEF EnsurePark, TypeOK
<1>4. CASE ExecStart(s) \/ PrepareStart(s) \/ KeepStartActive(s) \/ DiscardStart(s)
           \/ DestroyStart(s)
  <2>1. PoolType'
    BY <1>4, <1>t, Names, TaskType DEF ExecStart, PrepareStart, KeepStartActive,
       DiscardStart, DestroyStart, PoolType, poolVars
  <2> QED BY <1>4, <1>t, <2>1, Frame DEF ExecStart, PrepareStart, KeepStartActive,
       DiscardStart, DestroyStart, TypeOK
<1>5. CASE ApplyStart(s)
  <2>1. PoolType'
    BY <1>5, <1>t, Names, RecordType, TaskType DEF ApplyStart, PoolType, poolVars
  <2> QED BY <1>5, <1>t, <2>1, Frame DEF ApplyStart, TypeOK
<1>6. CASE KeepStart(s)
  <2>1. PoolType'
    BY <1>6, <1>t, KeepReleaseType DEF KeepStart, PoolType, poolVars
  <2> QED BY <1>6, <1>t, <2>1, Frame DEF KeepStart, TypeOK
<1> QED BY <1>1, <1>2, <1>3, <1>4, <1>5, <1>6 DEF ClientRequest

(* Every step of ensureWorker's creation keeps the types.                   *)
LEMMA TypeCreationStep ==
  ASSUME TypeOK, NEW s \in Session, CreationStep(s) \/ QueueTimeout(s) \/ CancelParked(s)
  PROVE  TypeOK'
<1>t. PoolType /\ WorkerType /\ ResultType /\ crashes \in Nat
  BY DEF TypeOK
<1>s. s \in Actor /\ task \in [Actor -> Task]
  BY <1>t DEF Actor, PoolType
<1>1. CASE QueueTimeout(s)
  <2>1. queue' \in Seq(Session)
    BY <1>1, <1>t, RemoveFirstType DEF QueueTimeout, PoolType
  <2>2. PoolType'
    BY <1>1, <1>t, <1>s, <2>1, StepType DEF QueueTimeout, PoolType
  <2> QED BY <1>1, <1>t, <2>2, Frame DEF QueueTimeout, TypeOK
<1>2. CASE CancelParked(s)
  <2> DEFINE q == RemoveFirst(queue, s)
             ts == [task EXCEPT ![s] = NoTask]
  <2>1. q \in Seq(Session)
    BY <1>t, RemoveFirstType DEF PoolType
  <2>2. ts \in [Actor -> Task]
    BY <1>s, TaskType
  <2>3. /\ DrainQueue(allocations, q, inFlight, rec, ts)
        /\ rec' = DrainedRec(rec, Drained(allocations, q, inFlight))
    BY <1>2 DEF CancelParked
  <2> HIDE DEF q, ts
  <2>4. PoolType'
    BY <1>t, <2>1, <2>2, <2>3, DrainQueueType, DrainType DEF PoolType
  <2> QED BY <1>2, <1>t, <2>4, Frame DEF CancelParked, TypeOK
<1>3. CASE CreationEnds(s)
  <2>1. PoolType'
    <3>1. allocations \in Seq(Session) /\ rec \in [Session -> SessionRecord]
      BY <1>t DEF PoolType
    <3> QED BY <1>3, <1>t, <3>1, EndCreationType DEF CreationEnds
  <2> QED BY <1>3, <1>t, <2>1, Frame DEF CreationEnds, TypeOK
<1>4. CASE CreateVM(s)
  <2>1. PoolType'
    BY <1>4, <1>t, <1>s, Names, StepType DEF CreateVM, PoolType, poolVars
  <2>2. WorkerType'
    BY <1>4, <1>t DEF CreateVM, WorkerType, ResultType
  <2>3. ResultType'
    BY <1>4, <1>t DEF CreateVM, ResultType
  <2> QED BY <1>4, <1>t, <2>1, <2>2, <2>3 DEF CreateVM, TypeOK
<1>5. CASE CreateFails(s)
  <2>1. PoolType'
    BY <1>5, <1>t, <1>s, Names, StepType DEF CreateFails, PoolType, poolVars
  <2>2. WorkerType'
    BY <1>5, <1>t DEF CreateFails, WorkerType
  <2> QED BY <1>5, <1>t, <2>1, <2>2, Frame DEF CreateFails, TypeOK
<1>6. CASE WorkerReady(s)
  <2> DEFINE rs == [rec EXCEPT ![s] = WorkerActive(@)]
             al == Append(allocations, s)
  <2>1. rs \in [Session -> SessionRecord]
    BY <1>t, RecordType DEF PoolType
  <2>2. al \in Seq(Session)
    BY <1>t DEF PoolType
  <2>3. EndCreation(s, al, rs)
    BY <1>6 DEF WorkerReady
  <2> HIDE DEF rs, al
  <2>4. PoolType'
    BY <1>t, <2>1, <2>2, <2>3, EndCreationType
  <2> QED BY <1>6, <1>t, <2>4, Frame DEF WorkerReady, TypeOK
<1>7. CASE PrepFails(s)
  <2>1. PoolType'
    BY <1>7, <1>t, <1>s, Names, StepType DEF PrepFails, PoolType, poolVars
  <2> QED BY <1>7, <1>t, <2>1, Frame DEF PrepFails, TypeOK
<1>8. CASE CreationFailed(s)
  <2>1. task' \in [Actor -> Task]
    BY <1>8, <1>s, Names, StepType DEF CreationFailed
  <2>2. PoolType'
    BY <1>8, <1>t, <2>1, RecordType DEF CreationFailed, PoolType, poolVars
  <2>3. WorkerType'
    BY <1>8, <1>t DEF CreationFailed, WorkerType
  <2> QED BY <1>8, <1>t, <2>2, <2>3, Frame DEF CreationFailed, TypeOK
<1> QED BY <1>1, <1>2, <1>3, <1>4, <1>5, <1>6, <1>7, <1>8 DEF CreationStep

(* Every step of the other operations of a session keeps the types.         *)
LEMMA TypeClientStep ==
  ASSUME TypeOK, NEW s \in Session, ClientStep(s) \/ Age(s)
  PROVE  TypeOK'
<1>t. PoolType /\ WorkerType /\ ResultType /\ crashes \in Nat
  BY DEF TypeOK
<1>s. s \in Actor /\ task \in [Actor -> Task] /\ task[s] \in Task
  BY <1>t DEF Actor, PoolType
<1>1. CASE ExecDone(s)
  <2>1. PoolType'
    BY <1>1, <1>t, <1>s, RecordType, StepType DEF ExecDone, PoolType, poolVars
  <2>2. WorkerType'
    BY <1>1, <1>t DEF ExecDone, WorkerType
  <2> QED BY <1>1, <1>t, <2>1, <2>2, Frame DEF ExecDone, TypeOK
<1>2. CASE ExecFails(s) \/ DiscardFails(s) \/ ApplyThrows(s)
  <2>1. PoolType'
    BY <1>2, <1>t, <1>s, StepType DEF ExecFails, DiscardFails, ApplyThrows, PoolType, poolVars
  <2> QED BY <1>2, <1>t, <2>1, Frame DEF ExecFails, DiscardFails, ApplyThrows, TypeOK
<1>3. CASE PrepareDone(s)
  <2>1. rec' \in [Session -> SessionRecord]
    BY <1>3, <1>t, Names, RecordType DEF PrepareDone, PoolType
  <2>2. PoolType'
    BY <1>3, <1>t, <1>s, <2>1, StepType DEF PrepareDone, PoolType, poolVars
  <2>3. ResultType'
    BY <1>3, <1>t, ImportBundleType DEF PrepareDone
  <2> QED BY <1>3, <1>t, <2>2, <2>3, Frame DEF PrepareDone, TypeOK
<1>4. CASE KeepExported(s)
  <2>1. WithResult(rec[s], "RESULT_READY") \in SessionRecord
    BY <1>t, Names, RecordType DEF PoolType
  <2>2. rec' \in [Session -> SessionRecord] /\ task' \in [Actor -> Task]
    <3>1. CASE Moves(rec[s], "SANDBOX_ACTIVE", "RESULT_READY")
      BY <1>4, <1>t, <2>1, <3>1, KeepReleaseType DEF KeepExported
    <3>2. CASE ~Moves(rec[s], "SANDBOX_ACTIVE", "RESULT_READY")
      BY <1>4, <1>t, <1>s, <3>2, StepType DEF KeepExported, PoolType
    <3> QED BY <3>1, <3>2
  <2>3. PoolType'
    BY <1>4, <1>t, <2>2 DEF KeepExported, PoolType, poolVars
  <2>4. ResultType'
    BY <1>4, <1>t, ImportBundleType DEF KeepExported
  <2> QED BY <1>4, <1>t, <2>3, <2>4, Frame DEF KeepExported, TypeOK
<1>5. CASE DiscardUnref(s)
  <2>1. PoolType'
    <3>1. CASE Live(task[s].snap)
      BY <1>5, <1>t, <1>s, <3>1, Names, StepType DEF DiscardUnref, PoolType, poolVars
    <3>2. CASE ~Live(task[s].snap)
      BY <1>5, <1>t, <1>s, <3>2, FreeAllocationType DEF DiscardUnref
    <3> QED BY <3>1, <3>2
  <2>2. ResultType'
    BY <1>5, <1>t DEF DiscardUnref, ResultType
  <2> QED BY <1>5, <1>t, <2>1, <2>2, Frame DEF DiscardUnref, TypeOK
<1>6. CASE ApplyPatch(s)
  <2>1. AtWith(task[s], "apply", ref[s]) \in Task
    BY <1>6, <1>t, <1>s, Names, TaskType DEF ApplyPatch, ResultType
  <2>2. PoolType'
    BY <1>6, <1>t, <2>1 DEF ApplyPatch, PoolType, poolVars
  <2> QED BY <1>6, <1>t, <2>2, Frame DEF ApplyPatch, TypeOK
<1>7. CASE ApplyRefused(s)
  <2>1. PoolType'
    BY <1>7, <1>t, <1>s, Names, RecordType, StepType DEF ApplyRefused, PoolType, poolVars
  <2> QED BY <1>7, <1>t, <2>1, Frame DEF ApplyRefused, TypeOK
<1>8. CASE ApplyDone(s)
  <2> DEFINE r == WithResult(rec[s], "APPLIED")
  <2>1. r \in SessionRecord
    BY <1>t, Names, RecordType DEF PoolType
  <2>2. ASSUME Live(r) PROVE PoolType'
    <3>1. rec' \in [Session -> SessionRecord]
      BY <1>8, <1>t, <2>1, <2>2 DEF ApplyDone, PoolType
    <3>2. task' \in [Actor -> Task]
      BY <1>8, <1>s, <2>2, Names, StepType DEF ApplyDone
    <3> QED BY <1>8, <1>t, <2>2, <3>1, <3>2 DEF ApplyDone, PoolType, poolVars
  <2>3. ASSUME ~Live(r) PROVE PoolType'
    <3> DEFINE rs == [rec EXCEPT ![s] = Destroyed(r)]
               al == RemoveFirst(allocations, s)
               ts == [task EXCEPT ![s] = NoTask]
    <3>1. rs \in [Session -> SessionRecord]
      BY <1>t, <2>1, RecordType DEF PoolType
    <3>2. al \in Seq(Session)
      BY <1>t, RemoveFirstType DEF PoolType
    <3>3. ts \in [Actor -> Task]
      BY <1>s, TaskType
    <3>4. /\ DrainQueue(al, queue, inFlight, rs, ts)
          /\ rec' = DrainedRec(rs, Drained(al, queue, inFlight))
      BY <1>8, <2>3 DEF ApplyDone
    <3> HIDE DEF rs, al, ts
    <3>5. PoolType'
      BY <1>t, <3>1, <3>2, <3>3, <3>4, DrainQueueType, DrainType DEF PoolType
    <3> QED BY <3>5
  <2>4. host' \in [Session -> SUBSET Edit]
    <3>1. task[s].cut \in SUBSET Edit
      BY <1>s DEF Task, TaskRecord
    <3> QED BY <1>8, <1>t, <3>1 DEF ApplyDone, ResultType
  <2>5. ResultType'
    BY <1>8, <1>t, <2>4 DEF ApplyDone, ResultType
  <2>6. PoolType'
    BY <2>2, <2>3
  <2> QED BY <1>8, <1>t, <2>5, <2>6, Frame DEF ApplyDone, TypeOK
<1>9. CASE Age(s)
  <2>1. PoolType'
    <3>1. Aged(rec[s]) \in SessionRecord
      BY <1>t, RecordType DEF PoolType
    <3> QED BY <1>9, <1>t, <3>1 DEF Age, PoolType, poolVars
  <2> QED BY <1>9, <1>t, <2>1, Frame DEF Age, TypeOK
<1> QED BY <1>1, <1>2, <1>3, <1>4, <1>5, <1>6, <1>7, <1>8, <1>9 DEF ClientStep

(* The steps that an operation shares with the reaper keep the types.       *)
LEMMA TypeSharedStep ==
  ASSUME TypeOK, NEW a \in Actor, SharedStep(a)
  PROVE  TypeOK'
<1>t. PoolType /\ WorkerType /\ ResultType /\ crashes \in Nat
  BY DEF TypeOK
<1>a. task \in [Actor -> Task] /\ task[a] \in Task
  BY <1>t DEF PoolType
<1>b. task[a].pc \in OnSession => task[a].sid \in Session
  BY <1>a DEF Task
<1>1. CASE CommitTree(a)
  <2>1. PoolType'
    BY <1>1, <1>t, <1>a, Names, StepType DEF CommitTree, PoolType, poolVars
  <2>2. WorkerType'
    BY <1>1, <1>t DEF CommitTree, WorkerType
  <2> QED BY <1>1, <1>t, <2>1, <2>2, Frame DEF CommitTree, TypeOK
<1>2. CASE ExportBundle(a)
  <2>1. PoolType'
    BY <1>2, <1>t, <1>a, Names, StepType DEF ExportBundle, PoolType, poolVars
  <2>2. ResultType'
    <3>1. {head[task[a].sid]} \in SUBSET SUBSET Edit
      BY <1>2, <1>t, <1>b, Names DEF ExportBundle, WorkerType
    <3> QED BY <1>2, <1>t, <3>1 DEF ExportBundle, ResultType
  <2> QED BY <1>2, <1>t, <2>1, <2>2, Frame DEF ExportBundle, TypeOK
<1>3. CASE ExportFails(a)
  <2>1. PoolType'
    <3>1. task' \in [Actor -> Task]
      BY <1>3, <1>a, StepType DEF ExportFails
    <3> QED BY <1>3, <1>t, <3>1 DEF ExportFails, PoolType, poolVars
  <2> QED BY <1>3, <1>t, <2>1, Frame DEF ExportFails, TypeOK
<1>4. CASE StopVM(a)
  <2>1. PoolType'
    BY <1>4, <1>t, <1>a, Names, StepType DEF StopVM, PoolType, poolVars
  <2>2. WorkerType'
    <3>1. vm' \in [Session -> {"absent", "running", "stopped"}]
      BY <1>4, <1>t DEF StopVM, WorkerType
    <3> QED BY <1>4, <1>t, <3>1 DEF StopVM, WorkerType
  <2> QED BY <1>4, <1>t, <2>1, <2>2, Frame DEF StopVM, TypeOK
<1>5. CASE RemoveVM(a)
  <2>1. PoolType'
    BY <1>5, <1>t, <1>a, FreeAllocationType DEF RemoveVM
  <2>2. WorkerType'
    BY <1>5, <1>t, <1>b, Names, DropVMType DEF RemoveVM
  <2> QED BY <1>5, <1>t, <2>1, <2>2, Frame DEF RemoveVM, TypeOK
<1>6. CASE RemoveFails(a)
  <2>1. PoolType'
    <3>1. CASE task[a].pc = "remove"
      BY <1>6, <1>t, <1>a, <3>1, Names, StepType DEF RemoveFails, PoolType, poolVars
    <3>2. CASE task[a].pc # "remove"
      <4>1. rec' \in [Session -> SessionRecord]
        BY <1>6, <1>t, <1>a, <3>2, ReleasedType DEF RemoveFails, PoolType
      <4> QED BY <1>6, <1>t, <1>a, <3>2, <4>1, StepType DEF RemoveFails, PoolType, poolVars
    <3> QED BY <3>1, <3>2
  <2>2. WorkerType'
    <3>1. CASE UNCHANGED workerVars
      BY <1>t, <3>1, Frame
    <3>2. CASE DropVM(task[a])
      BY <1>6, <1>t, <1>b, <3>2, Names, DropVMType DEF RemoveFails
    <3> QED BY <1>6, <3>1, <3>2 DEF RemoveFails
  <2> QED BY <1>6, <1>t, <2>1, <2>2, Frame DEF RemoveFails, TypeOK
<1> QED BY <1>1, <1>2, <1>3, <1>4, <1>5, <1>6 DEF SharedStep

(* A tick that starts or goes on takes a session of its list, or ends.      *)
LEMMA ResumeType ==
  ASSUME NEW k \in Task
  PROVE  Resume(k) \subseteq Task
<1>1. ASSUME NEW j \in Task PROVE Takes(j) \subseteq Task
  <2>1. j.todo \in SUBSET Session
    BY DEF Task, TaskRecord
  <2>2. ASSUME NEW s \in j.todo, NEW K PROVE Visit(j, s, j.todo \ (K \cup {s})) \in Task
    BY <2>1, TaskType
  <2> SUFFICES ASSUME NEW x \in Takes(j) PROVE x \in Task
    OBVIOUS
  <2>3. PICK s \in {y \in j.todo : ~Busy(y)}, K \in SUBSET {y \in j.todo : Busy(y)} :
          x = Visit(j, s, j.todo \ (K \cup {s}))
    BY DEF Takes
  <2> QED BY <2>2, <2>3
<1>2. Phase("sweepIdle") \in Task
  BY TaskType DEF Phase, Listed, SweepOp
<1>3. NoTask \in Task
  BY TaskType
<1> QED BY <1>1, <1>2, <1>3 DEF Resume

(* A step of the reaper keeps the types.                                    *)
LEMMA TypeReaperStep ==
  ASSUME TypeOK, NEW r \in Reaper,
         SweepStart(r) \/ ReaperStep(r) \/ \E s \in Session : DisconnectReap(r, s)
  PROVE  TypeOK'
<1>t. PoolType /\ WorkerType /\ ResultType /\ crashes \in Nat
  BY DEF TypeOK
<1>r. r \in Actor /\ task \in [Actor -> Task] /\ task[r] \in Task
  BY <1>t DEF Actor, PoolType
<1>b. task[r].pc \in OnSession => task[r].sid \in Session
  BY <1>r DEF Task
<1>1. CASE SweepStart(r)
  <2>1. Phase("sweepUnfinished") \in Task
    BY TaskType DEF Phase, Listed, SweepOp
  <2>2. PoolType'
    BY <1>1, <1>t, <2>1, ResumeType DEF SweepStart, PoolType, poolVars
  <2> QED BY <1>1, <1>t, <2>2, Frame DEF SweepStart, TypeOK
<1>2. CASE SweepResume(r)
  <2>1. PoolType'
    BY <1>2, <1>t, <1>r, ResumeType DEF SweepResume, PoolType, poolVars
  <2> QED BY <1>2, <1>t, <2>1, Frame DEF SweepResume, TypeOK
<1>3. ASSUME NEW s \in Session, DisconnectReap(r, s) PROVE TypeOK'
  <2>1. Begin("reapOnDisconnect", "status", s) \in Task
    BY Names, TaskType
  <2>2. PoolType'
    BY <1>3, <1>t, <2>1 DEF DisconnectReap, PoolType, poolVars
  <2> QED BY <1>3, <1>t, <2>2, Frame DEF DisconnectReap, TypeOK
<1>4. CASE StatusClean(r) \/ StatusDirty(r)
  <2>1. tree[task[r].sid] \in SUBSET Edit /\ task[r].pc \in OnSession
    BY <1>4, <1>t, <1>b, Names DEF StatusClean, StatusDirty, WorkerType
  <2>2. /\ AtWith(task[r], "stop", {}) \in Task
        /\ AtWith(task[r], "commit", tree[task[r].sid]) \in Task
    BY <1>r, <2>1, Names, TaskType
  <2>3. task' \in [Actor -> Task]
    BY <1>4, <1>r, <2>2, StepType DEF StatusClean, StatusDirty
  <2>4. PoolType'
    BY <1>4, <1>t, <2>3 DEF StatusClean, StatusDirty, PoolType, poolVars
  <2> QED BY <1>4, <1>t, <2>4, Frame DEF StatusClean, StatusDirty, TypeOK
<1>5. CASE ReapExported(r)
  <2>1. task[r].pc \in OnSession
    BY <1>5, Names DEF ReapExported
  <2>2. Exported(task[r]) \in Task
    BY <1>r, <2>1, TaskType
  <2>3. PoolType'
    BY <1>5, <1>t, <2>2 DEF ReapExported, PoolType, poolVars
  <2>4. ResultType'
    BY <1>5, <1>t, <1>b, <2>1, ImportBundleType DEF ReapExported
  <2> QED BY <1>5, <1>t, <2>3, <2>4, Frame DEF ReapExported, TypeOK
<1> QED BY <1>1, <1>2, <1>3, <1>4, <1>5 DEF ReaperStep

(* A crash and restart of the broker keeps the types.                       *)
LEMMA TypeCrash ==
  ASSUME TypeOK, Crash
  PROVE  TypeOK'
<1>t. PoolType /\ WorkerType /\ ResultType /\ crashes \in Nat
  BY DEF TypeOK
<1>1. PoolType'
  BY <1>t, TaskType DEF Crash, PoolType
<1>2. vm' \in [Session -> {"absent", "running", "stopped"}]
  BY <1>t DEF Crash, WorkerType
<1>3. tree' \in [Session -> SUBSET Edit] /\ head' \in [Session -> SUBSET Edit]
  BY <1>t DEF Crash, WorkerType
<1>4. ref' \in [Session -> SUBSET Edit]
  BY <1>t DEF Crash, ResultType
<1>5. host' \in [Session -> SUBSET Edit]
  <2>1. ASSUME NEW s \in Session PROVE task[s].cut \in SUBSET Edit
    BY <1>t DEF PoolType, Task, TaskRecord, Actor
  <2> QED BY <1>t, <2>1 DEF Crash, ResultType
<1> QED BY <1>t, <1>1, <1>2, <1>3, <1>4, <1>5 DEF Crash, TypeOK, WorkerType, ResultType

(* The type invariant is inductive.                                         *)
LEMMA TypeStep == TypeOK /\ [Next]_vars => TypeOK'
<1> SUFFICES ASSUME TypeOK, [Next]_vars PROVE TypeOK'
  OBVIOUS
<1>1. CASE UNCHANGED vars
  BY <1>1 DEF vars, workerVars, resultVars, poolVars, TypeOK, PoolType, WorkerType, ResultType
<1>2. CASE Next
  BY <1>2, TypeClientRequest, TypeCreationStep, TypeClientStep, TypeSharedStep,
     TypeReaperStep, TypeCrash DEF Next
<1> QED BY <1>1, <1>2

(* Every variable of the broker keeps its type: in particular inFlight      *)
(* never goes below zero, and every task that is about to touch a worker or *)
(* a result names a session, whatever the clients, the reaper, the faults   *)
(* and the crashes do.                                                      *)
THEOREM TypeCorrect == Spec => []TypeOK
BY TypeInit, TypeStep, PTL DEF Spec

-----------------------------------------------------------------------------
(* Promises: the in-flight count is exact, and the queue holds the parked  *)
(* requests.                                                               *)

(* Where a creation that drainQueue has started can be.                     *)
CreationPcs == {"settling", "creating", "prepping", "cleaning"}

(* PromisesExact, of a given queue, in-flight count and tasks, with what    *)
(* makes it inductive: only a creation carries a promise.                   *)
Exact(q, fl, ts) ==
  /\ IsFiniteSet(Awaited(ts)) /\ fl = Cardinality(Awaited(ts))
  /\ IsInjective(q)
  /\ ToSet(q) = {s \in Session : ts[s].pc = "parked"}
  /\ \A a \in Actor : ts[a].queued => ts[a].pc \in CreationPcs

PromiseInv == Exact(queue, inFlight, task)

(* A step that changes one task, and neither its promise nor its waiting.   *)
Same(k, j) ==
  /\ j.queued = k.queued
  /\ j.queued => j.pc \in CreationPcs
  /\ k.pc # "parked" /\ j.pc # "parked"

-----------------------------------------------------------------------------
(* The queue                                                               *)

(* A queue without duplicates, and one entry taken out of it.               *)
LEMMA RemoveFirstExact ==
  ASSUME NEW S, NEW q \in Seq(S), IsInjective(q), NEW e
  PROVE  /\ IsInjective(RemoveFirst(q, e))
         /\ ToSet(RemoveFirst(q, e)) = ToSet(q) \ {e}
<1>d. DOMAIN q = 1..Len(q)
  OBVIOUS
<1>1. CASE ~Contains(q, e)
  <2>1. RemoveFirst(q, e) = q
    BY <1>1, RemoveFirstType
  <2>2. e \notin ToSet(q)
    BY <1>1, <1>d DEF Contains, ToSet
  <2> QED BY <2>1, <2>2
<1>2. CASE Contains(q, e)
  <2> DEFINE r == RemoveFirst(q, e)
  <2>1. PICK m \in 1..Len(q) : q[m] = e /\ r = RemoveAt(q, m)
    BY <1>2, RemoveFirstType
  <2>2. r \in Seq(S) /\ Len(r) = Len(q) - 1
    BY <1>2, RemoveFirstType
  <2> DEFINE u == SubSeq(q, 1, m - 1)
             v == SubSeq(q, m + 1, Len(q))
  <2>3. /\ u \in Seq(S) /\ Len(u) = m - 1 /\ \A i \in 1..(m - 1) : u[i] = q[i]
        /\ v \in Seq(S) /\ Len(v) = Len(q) - m /\ \A i \in 1..(Len(q) - m) : v[i] = q[m + i]
    BY <2>1
  <2>4. r = u \o v
    BY <2>1 DEF RemoveAt
  <2> HIDE DEF u, v, r
  <2>5. \A i \in 1..Len(r) : r[i] = IF i < m THEN q[i] ELSE q[i + 1]
    <3> SUFFICES ASSUME NEW i \in 1..Len(r)
                 PROVE  r[i] = IF i < m THEN q[i] ELSE q[i + 1]
      OBVIOUS
    <3>1. CASE i < m
      <4>1. i \in 1..Len(u)
        BY <2>3, <3>1
      <4>2. (u \o v)[i] = u[i]
        BY <2>3, <4>1
      <4> QED BY <2>3, <2>4, <3>1, <4>1, <4>2
    <3>2. CASE ~(i < m)
      <4>1. i - (m - 1) \in 1..(Len(q) - m) /\ m + (i - (m - 1)) = i + 1
        BY <2>1, <2>2, <3>2
      <4>2. (u \o v)[i] = v[i - (m - 1)]
        <5>1. i \in 1..(Len(u) + Len(v)) /\ ~(i <= Len(u))
          BY <2>1, <2>2, <2>3, <3>2
        <5> QED BY <2>3, <5>1, ConcatProperties
      <4> QED BY <2>3, <2>4, <3>2, <4>1, <4>2
    <3> QED BY <3>1, <3>2
  <2>d. DOMAIN r = 1..Len(r)
    BY <2>2
  <2>6. IsInjective(r)
    <3> SUFFICES ASSUME NEW i \in 1..Len(r), NEW j \in 1..Len(r), r[i] = r[j] PROVE i = j
      BY <2>d DEF IsInjective
    <3>1. \A x, y \in 1..Len(q) : q[x] = q[y] => x = y
      BY <1>d DEF IsInjective
    <3> DEFINE x == IF i < m THEN i ELSE i + 1
               y == IF j < m THEN j ELSE j + 1
    <3>2. x \in 1..Len(q) /\ r[i] = q[x]
      BY <2>1, <2>2, <2>5
    <3>3. y \in 1..Len(q) /\ r[j] = q[y]
      BY <2>1, <2>2, <2>5
    <3>4. x = y => i = j
      BY <2>1, <2>2
    <3> HIDE DEF x, y
    <3> QED BY <3>1, <3>2, <3>3, <3>4
  <2>7. ToSet(r) \subseteq ToSet(q) \ {e}
    <3> SUFFICES ASSUME NEW i \in 1..Len(r) PROVE r[i] \in ToSet(q) /\ r[i] # e
      BY <2>d DEF ToSet
    <3> DEFINE x == IF i < m THEN i ELSE i + 1
    <3>1. x \in 1..Len(q) /\ x # m /\ r[i] = q[x]
      BY <2>1, <2>2, <2>5
    <3> HIDE DEF x
    <3> QED BY <1>d, <2>1, <3>1 DEF ToSet, IsInjective
  <2>8. ToSet(q) \ {e} \subseteq ToSet(r)
    <3> SUFFICES ASSUME NEW x \in 1..Len(q), q[x] # e PROVE q[x] \in ToSet(r)
      BY <1>d DEF ToSet
    <3> DEFINE i == IF x < m THEN x ELSE x - 1
    <3>1. i \in 1..Len(r) /\ r[i] = q[x]
      BY <2>1, <2>2, <2>5
    <3> HIDE DEF i
    <3> QED BY <2>d, <3>1 DEF ToSet
  <2> QED BY <2>6, <2>7, <2>8 DEF r
<1> QED BY <1>1, <1>2

(* The first n entries of a queue without duplicates are n sessions, and    *)
(* the others stay.                                                         *)
LEMMA PrefixExact ==
  ASSUME NEW S, NEW q \in Seq(S), IsInjective(q), NEW n \in 0..Len(q)
  PROVE  /\ IsFiniteSet({q[i] : i \in 1..n}) /\ Cardinality({q[i] : i \in 1..n}) = n
         /\ {q[i] : i \in 1..n} \subseteq ToSet(q)
         /\ IsInjective(SubSeq(q, n + 1, Len(q)))
         /\ ToSet(SubSeq(q, n + 1, Len(q))) = ToSet(q) \ {q[i] : i \in 1..n}
<1> DEFINE D == {q[i] : i \in 1..n}
           r == SubSeq(q, n + 1, Len(q))
<1>d. DOMAIN q = 1..Len(q) /\ \A x, y \in 1..Len(q) : q[x] = q[y] => x = y
  BY DEF IsInjective
<1>1. IsFiniteSet(D) /\ Cardinality(D) = n
  <2> DEFINE f == [i \in 1..n |-> q[i]]
  <2>1. f \in Injection(1..n, D)
    BY <1>d DEF Injection, IsInjective
  <2>2. f \in Surjection(1..n, D)
    BY DEF Surjection
  <2>3. IsFiniteSet(1..n) /\ Cardinality(1..n) = n
    BY FS_Interval
  <2> HIDE DEF f, D
  <2> QED BY <2>1, <2>2, <2>3, FS_Surjection
<1>2. D \subseteq ToSet(q)
  BY <1>d DEF ToSet
<1>3. r \in Seq(S) /\ Len(r) = Len(q) - n /\ \A i \in 1..(Len(q) - n) : r[i] = q[n + i]
  BY SubSeqProperties
<1>e. DOMAIN r = 1..(Len(q) - n)
  BY <1>3
<1> HIDE DEF r
<1>4. IsInjective(r)
  <2> SUFFICES ASSUME NEW i \in 1..(Len(q) - n), NEW j \in 1..(Len(q) - n), r[i] = r[j]
               PROVE  i = j
    BY <1>e DEF IsInjective
  <2> QED BY <1>d, <1>3
<1>5. ToSet(r) \subseteq ToSet(q) \ D
  <2> SUFFICES ASSUME NEW i \in 1..(Len(q) - n) PROVE r[i] \in ToSet(q) /\ r[i] \notin D
    BY <1>e DEF ToSet
  <2>1. n + i \in 1..Len(q) /\ r[i] = q[n + i] /\ n + i \notin 1..n
    BY <1>3
  <2>2. r[i] \in ToSet(q)
    BY <1>d, <2>1 DEF ToSet
  <2>3. ASSUME NEW j \in 1..n, r[i] = q[j] PROVE FALSE
    <3>1. j \in 1..Len(q) /\ n + i # j
      BY <2>1
    <3> QED BY <1>d, <2>1, <2>3, <3>1
  <2> QED BY <2>2, <2>3
<1>6. ToSet(q) \ D \subseteq ToSet(r)
  <2> SUFFICES ASSUME NEW x \in 1..Len(q), q[x] \notin D PROVE q[x] \in ToSet(r)
    BY <1>d DEF ToSet
  <2>1. ~(x \in 1..n)
    OBVIOUS
  <2>2. x - n \in 1..(Len(q) - n) /\ n + (x - n) = x
    BY <2>1
  <2>3. r[x - n] = q[x]
    BY <1>3, <2>2
  <2> QED BY <1>e, <2>2, <2>3 DEF ToSet
<1> HIDE DEF D
<1>7. /\ IsFiniteSet(D) /\ Cardinality(D) = n /\ D \subseteq ToSet(q)
      /\ IsInjective(r) /\ ToSet(r) = ToSet(q) \ D
  BY <1>1, <1>2, <1>4, <1>5, <1>6
<1> QED BY <1>7 DEF D, r

-----------------------------------------------------------------------------
(* The drain                                                               *)

(* drainQueue keeps the count exact: it takes sessions out of the queue and *)
(* promises each of them one slot.                                          *)
LEMMA DrainExact ==
  ASSUME NEW al \in Seq(Session), NEW q \in Seq(Session), NEW fl \in Nat, NEW rs,
         NEW ts \in [Actor -> Task], Exact(q, fl, ts), DrainQueue(al, q, fl, rs, ts)
  PROVE  /\ PromiseInv'
         /\ Awaited(task)' = Awaited(ts) \cup Drained(al, q, fl)
<1> DEFINE n == DrainCount(al, q, fl)
           D == Drained(al, q, fl)
<1>1. n \in 0..Len(q)
  BY ConstantsAssumption DEF DrainCount, FreeSlots
<1>2. /\ queue' = SubSeq(q, n + 1, Len(q)) /\ inFlight' = fl + n
      /\ task' = DrainedTask(ts, rs, D)
  BY DEF DrainQueue
<1>d. D = {q[i] : i \in 1..n}
  BY DEF Drained
<1> HIDE DEF n, D
<1>e. IsInjective(q) /\ ToSet(q) = {s \in Session : ts[s].pc = "parked"}
  BY DEF Exact
<1>3. /\ IsFiniteSet(D) /\ Cardinality(D) = n /\ D \subseteq ToSet(q)
      /\ IsInjective(queue') /\ ToSet(queue') = ToSet(q) \ D
  <2>1. /\ IsFiniteSet({q[i] : i \in 1..n}) /\ Cardinality({q[i] : i \in 1..n}) = n
        /\ {q[i] : i \in 1..n} \subseteq ToSet(q)
        /\ IsInjective(SubSeq(q, n + 1, Len(q)))
        /\ ToSet(SubSeq(q, n + 1, Len(q))) = ToSet(q) \ {q[i] : i \in 1..n}
    BY <1>1, <1>e, PrefixExact
  <2> QED BY <1>2, <1>d, <2>1
<1>4. D \subseteq Session /\ Session \subseteq Actor
  BY <1>3, <1>e DEF Actor
<1>5. ASSUME NEW a \in Actor
      PROVE  /\ a \notin D => task'[a] = ts[a]
             /\ a \in D => task'[a].queued = TRUE /\ task'[a].pc \in {"creating", "settling"}
  <2>1. task'[a] = IF a \in D
                   THEN Promised(ts[a], IF Creatable(rs[a]) THEN "creating" ELSE "settling")
                   ELSE ts[a]
    BY <1>2 DEF DrainedTask
  <2>2. ts[a] \in TaskRecord
    BY DEF Task
  <2> QED BY <2>1, <2>2 DEF Promised, TaskRecord
<1>6. Awaited(task)' = Awaited(ts) \cup D
  BY <1>4, <1>5 DEF Awaited
<1>7. D \cap Awaited(ts) = {}
  <2> SUFFICES ASSUME NEW s \in D, ts[s].queued PROVE FALSE
    BY DEF Awaited
  <2>1. s \in Actor /\ ts[s].pc = "parked"
    BY <1>3, <1>4, <1>e
  <2> QED BY <2>1 DEF Exact, CreationPcs
<1>8. IsFiniteSet(Awaited(ts) \cup D) /\ Cardinality(Awaited(ts) \cup D) = fl + n
  <2>1. IsFiniteSet(Awaited(ts)) /\ Cardinality(Awaited(ts)) = fl
    BY DEF Exact
  <2>2. /\ IsFiniteSet(Awaited(ts) \cup D)
        /\ Cardinality(Awaited(ts) \cup D)
             = Cardinality(Awaited(ts)) + Cardinality(D) - Cardinality(Awaited(ts) \cap D)
    BY <1>3, <2>1, FS_Union
  <2>3. Cardinality(Awaited(ts) \cap D) = 0
    BY <1>7, FS_EmptySet
  <2>4. n \in Nat
    BY <1>1
  <2> QED BY <1>3, <2>1, <2>2, <2>3, <2>4
<1>9. ToSet(queue') = {s \in Session : task'[s].pc = "parked"}
  <2> SUFFICES ASSUME NEW s \in Session PROVE s \in ToSet(queue') <=> task'[s].pc = "parked"
    BY <1>3, <1>e
  <2> QED BY <1>3, <1>4, <1>5, <1>e
<1>10. \A a \in Actor : task'[a].queued => task'[a].pc \in CreationPcs
  <2> SUFFICES ASSUME NEW a \in Actor, task'[a].queued PROVE task'[a].pc \in CreationPcs
    OBVIOUS
  <2>1. CASE a \in D
    BY <1>5, <2>1 DEF CreationPcs
  <2>2. CASE a \notin D
    BY <1>5, <2>2 DEF Exact
  <2> QED BY <2>1, <2>2
<1>11. PromiseInv'
  BY <1>2, <1>3, <1>6, <1>8, <1>9, <1>10 DEF PromiseInv, Exact
<1> QED BY <1>6, <1>11 DEF D

-----------------------------------------------------------------------------
(* Steps that promise nothing and park nobody                              *)

(* A task goes on, begins or ends, without a promise or a place in the      *)
(* queue; a creation keeps its promise while it goes on.                    *)
LEMMA TaskSame ==
  ASSUME NEW k \in Task, k.pc # "parked"
  PROVE  /\ ~k.queued => /\ Same(k, NoTask) /\ Same(k, After(k)) /\ Same(k, Exported(k))
                         /\ \A p \in Pcs \ {"parked"} :
                              /\ Same(k, At(k, p))
                              /\ \A c : Same(k, AtWith(k, p, c))
                              /\ \A o, s : Same(k, Begin(o, p, s))
                              /\ \A o, s, r : Same(k, BeginWith(o, p, s, r))
                         /\ \A s, rest : Same(k, Visit(k, s, rest))
         /\ \A p \in CreationPcs : Same(k, At(k, p))
<1>k. k \in TaskRecord
  BY DEF Task
<1>1. ASSUME NEW p \in CreationPcs PROVE Same(k, At(k, p))
  BY <1>k DEF Same, At, CreationPcs, TaskRecord
<1>2. ASSUME ~k.queued
      PROVE  Same(k, NoTask) /\ Same(k, After(k)) /\ Same(k, Exported(k))
  BY <1>k, <1>2 DEF Same, NoTask, After, Sweeping, Exported, TaskRecord
<1>3. ASSUME ~k.queued, NEW p \in Pcs \ {"parked"}, NEW c, NEW o, NEW s, NEW r
      PROVE  /\ Same(k, At(k, p)) /\ Same(k, AtWith(k, p, c))
             /\ Same(k, Begin(o, p, s)) /\ Same(k, BeginWith(o, p, s, r))
  BY <1>k, <1>3 DEF Same, At, AtWith, Begin, BeginWith, NoTask, TaskRecord
<1>4. ASSUME ~k.queued, NEW s, NEW rest PROVE Same(k, Visit(k, s, rest))
  BY <1>k, <1>4 DEF Same, Visit, TaskRecord
<1> QED BY <1>1, <1>2, <1>3, <1>4

(* Such a step keeps the count exact.                                       *)
LEMMA SameExact ==
  ASSUME PoolType, PromiseInv, NEW a \in Actor, NEW k, Same(task[a], k)
  PROVE  LET ts == [task EXCEPT ![a] = k]
         IN  Exact(queue, inFlight, ts) /\ Awaited(ts) = Awaited(task)
<1> DEFINE ts == [task EXCEPT ![a] = k]
<1>1. \A b \in Actor : ts[b] = IF b = a THEN k ELSE task[b]
  BY DEF PoolType
<1>2. Session \subseteq Actor
  BY DEF Actor
<1> HIDE DEF ts
<1>3. Awaited(ts) = Awaited(task)
  BY <1>1, <1>2 DEF Awaited, Same
<1>4. {s \in Session : ts[s].pc = "parked"} = {s \in Session : task[s].pc = "parked"}
  BY <1>1, <1>2 DEF Same
<1>5. \A b \in Actor : ts[b].queued => ts[b].pc \in CreationPcs
  BY <1>1 DEF Same, PromiseInv, Exact
<1>6. Exact(queue, inFlight, ts)
  BY <1>3, <1>4, <1>5 DEF PromiseInv, Exact
<1> QED BY <1>3, <1>6 DEF ts

(* One task changes, and neither a promise nor the queue.                   *)
MovesOne(a) == \E k : Same(task[a], k) /\ task' = [task EXCEPT ![a] = k]

(* What such a step means for the promises.                                 *)
PromisesKept == PromiseInv' /\ Awaited(task)' = Awaited(task)

(* A step that changes one such task at most keeps the promises.            *)
LEMMA SameStep ==
  ASSUME PoolType, PromiseInv, UNCHANGED poolVars,
         UNCHANGED task \/ \E a \in Actor : MovesOne(a)
  PROVE  PromisesKept
<1>1. CASE UNCHANGED task
  BY <1>1 DEF PromisesKept, PromiseInv, Exact, Awaited, poolVars
<1>2. ASSUME NEW a \in Actor, MovesOne(a) PROVE PromisesKept
  <2>1. PICK k : Same(task[a], k) /\ task' = [task EXCEPT ![a] = k]
    BY <1>2 DEF MovesOne
  <2> DEFINE ts == [task EXCEPT ![a] = k]
  <2>2. Exact(queue, inFlight, ts) /\ Awaited(ts) = Awaited(task) /\ task' = ts
    BY <2>1, SameExact
  <2> HIDE DEF ts
  <2>3. queue' = queue /\ inFlight' = inFlight
    BY DEF poolVars
  <2>4. PromiseInv' /\ Awaited(task)' = Awaited(task)
    BY <2>2, <2>3 DEF PromiseInv, Exact, Awaited
  <2> QED BY <2>4 DEF PromisesKept
<1> QED BY <1>1, <1>2

-----------------------------------------------------------------------------
(* Steps that park, leave the queue, or end a creation                     *)

(* parkAndWait: a session that does nothing is appended to the queue.       *)
LEMMA ParkExact ==
  ASSUME PoolType, PromiseInv, NEW s \in Session, task[s] = NoTask, NEW o
  PROVE  LET ts == [task EXCEPT ![s] = Begin(o, "parked", s)]
         IN  Exact(Append(queue, s), inFlight, ts) /\ Awaited(ts) = Awaited(task)
<1> DEFINE k == Begin(o, "parked", s)
           ts == [task EXCEPT ![s] = k]
           r == Append(queue, s)
<1>k. /\ k.pc = "parked" /\ k.queued = FALSE
      /\ task[s].pc # "parked" /\ task[s].queued = FALSE
  BY DEF Begin, NoTask
<1> HIDE DEF k
<1>1. \A b \in Actor : ts[b] = IF b = s THEN k ELSE task[b]
  BY DEF PoolType, Actor
<1>2. Session \subseteq Actor
  BY DEF Actor
<1> HIDE DEF ts
<1>3. Awaited(ts) = Awaited(task)
  BY <1>1, <1>2, <1>k DEF Awaited
<1>q. queue \in Seq(Session) /\ ToSet(queue) = {x \in Session : task[x].pc = "parked"}
  BY DEF PoolType, PromiseInv, Exact
<1>4. /\ DOMAIN queue = 1..Len(queue) /\ DOMAIN r = 1..(Len(queue) + 1)
      /\ r[Len(queue) + 1] = s /\ \A i \in 1..Len(queue) : r[i] = queue[i]
  BY <1>q
<1>n. Len(queue) \in Nat
  BY <1>q
<1> HIDE DEF r
<1>5. ToSet(r) = ToSet(queue) \cup {s}
  <2>1. \A i \in 1..(Len(queue) + 1) : i \in 1..Len(queue) \/ i = Len(queue) + 1
    BY <1>n
  <2>2. 1..Len(queue) \subseteq 1..(Len(queue) + 1) /\ Len(queue) + 1 \in 1..(Len(queue) + 1)
    BY <1>n
  <2> QED BY <1>4, <2>1, <2>2 DEF ToSet
<1>6. ToSet(r) = {x \in Session : ts[x].pc = "parked"}
  BY <1>1, <1>2, <1>5, <1>k, <1>q
<1>7. IsInjective(r)
  <2>1. \A i \in 1..Len(queue) : queue[i] # s
    BY <1>k, <1>q, <1>4 DEF ToSet
  <2>2. \A i, j \in 1..Len(queue) : queue[i] = queue[j] => i = j
    BY <1>4 DEF PromiseInv, Exact, IsInjective
  <2> SUFFICES ASSUME NEW i \in 1..(Len(queue) + 1), NEW j \in 1..(Len(queue) + 1), r[i] = r[j]
               PROVE  i = j
    BY <1>4 DEF IsInjective
  <2>3. CASE i \in 1..Len(queue) /\ j \in 1..Len(queue)
    BY <1>4, <2>2, <2>3
  <2>4. CASE i = Len(queue) + 1 /\ j \in 1..Len(queue)
    BY <1>4, <2>1, <2>4
  <2>5. CASE i \in 1..Len(queue) /\ j = Len(queue) + 1
    BY <1>4, <2>1, <2>5
  <2> QED BY <1>n, <2>3, <2>4, <2>5
<1>8. \A b \in Actor : ts[b].queued => ts[b].pc \in CreationPcs
  BY <1>1, <1>k DEF PromiseInv, Exact
<1>9. Exact(r, inFlight, ts)
  BY <1>3, <1>6, <1>7, <1>8 DEF PromiseInv, Exact
<1> QED BY <1>3, <1>9 DEF ts, r, k

(* The queue timer and a disconnect: a parked request leaves.               *)
LEMMA LeaveExact ==
  ASSUME PoolType, PromiseInv, NEW s \in Session, task[s].pc = "parked",
         NEW j, j.queued = FALSE, j.pc # "parked"
  PROVE  LET ts == [task EXCEPT ![s] = j]
         IN  Exact(RemoveFirst(queue, s), inFlight, ts) /\ Awaited(ts) = Awaited(task)
<1> DEFINE ts == [task EXCEPT ![s] = j]
<1>1. \A b \in Actor : ts[b] = IF b = s THEN j ELSE task[b]
  BY DEF PoolType, Actor
<1>2. Session \subseteq Actor
  BY DEF Actor
<1> HIDE DEF ts
<1>k. ~task[s].queued
  BY <1>2 DEF PromiseInv, Exact, CreationPcs
<1>3. Awaited(ts) = Awaited(task)
  BY <1>1, <1>2, <1>k DEF Awaited
<1>q. /\ queue \in Seq(Session) /\ IsInjective(queue)
      /\ ToSet(queue) = {x \in Session : task[x].pc = "parked"}
  BY DEF PoolType, PromiseInv, Exact
<1>4. /\ IsInjective(RemoveFirst(queue, s))
      /\ ToSet(RemoveFirst(queue, s)) = ToSet(queue) \ {s}
  BY <1>q, RemoveFirstExact
<1>5. ToSet(RemoveFirst(queue, s)) = {x \in Session : ts[x].pc = "parked"}
  BY <1>1, <1>2, <1>4, <1>q
<1>6. \A b \in Actor : ts[b].queued => ts[b].pc \in CreationPcs
  BY <1>1 DEF PromiseInv, Exact
<1>7. Exact(RemoveFirst(queue, s), inFlight, ts)
  BY <1>3, <1>4, <1>5, <1>6 DEF PromiseInv, Exact
<1> QED BY <1>3, <1>7 DEF ts

(* The finally block of runQueuedCreation gives one promise back.           *)
LEMMA EndExact ==
  ASSUME PoolType, PromiseInv, NEW s \in Session, task[s].queued
  PROVE  LET ts == [task EXCEPT ![s] = NoTask]
         IN  /\ inFlight > 0
             /\ Exact(queue, inFlight - 1, ts)
             /\ s \in Awaited(task) /\ Awaited(ts) = Awaited(task) \ {s}
<1> DEFINE ts == [task EXCEPT ![s] = NoTask]
<1>0. NoTask.queued = FALSE /\ NoTask.pc # "parked"
  BY DEF NoTask
<1>1. \A b \in Actor : ts[b] = IF b = s THEN NoTask ELSE task[b]
  BY DEF PoolType, Actor
<1>2. Session \subseteq Actor
  BY DEF Actor
<1> HIDE DEF ts
<1>3. s \in Awaited(task) /\ Awaited(ts) = Awaited(task) \ {s}
  BY <1>0, <1>1, <1>2 DEF Awaited
<1>4. IsFiniteSet(Awaited(task)) /\ inFlight = Cardinality(Awaited(task)) /\ inFlight \in Nat
  BY DEF PoolType, PromiseInv, Exact
<1>5. IsFiniteSet(Awaited(ts)) /\ Cardinality(Awaited(ts)) = inFlight - 1
  BY <1>3, <1>4, FS_RemoveElement
<1>6. inFlight > 0
  <2>1. inFlight # 0
    BY <1>3, <1>4, FS_EmptySet
  <2> QED BY <1>4, <2>1
<1>7. task[s].pc # "parked"
  BY <1>2 DEF PromiseInv, Exact, CreationPcs
<1>8. ToSet(queue) = {x \in Session : ts[x].pc = "parked"}
  BY <1>0, <1>1, <1>2, <1>7 DEF PromiseInv, Exact
<1>9. \A b \in Actor : ts[b].queued => ts[b].pc \in CreationPcs
  BY <1>0, <1>1 DEF PromiseInv, Exact
<1>10. Exact(queue, inFlight - 1, ts)
  BY <1>5, <1>8, <1>9 DEF PromiseInv, Exact
<1> QED BY <1>3, <1>6, <1>10 DEF ts

-----------------------------------------------------------------------------
(* The actions that promise nothing and park nobody                        *)

(* Where no creation is under way and nobody is parked, a task may go       *)
(* wherever the actions send it.                                            *)
LEMMA Moving ==
  ASSUME PoolType, PromiseInv, NEW a \in Actor, task[a].pc \notin CreationPcs \cup {"parked"}
  PROVE  /\ ~task[a].queued /\ task[a] \in Task
         /\ Finish(a) => MovesOne(a)
         /\ task' = [task EXCEPT ![a] = NoTask] => MovesOne(a)
         /\ task' = [task EXCEPT ![a] = Exported(@)] => MovesOne(a)
         /\ \A p \in Pcs \ {"parked"} :
              /\ Goto(a, p) => MovesOne(a)
              /\ \A c : task' = [task EXCEPT ![a] = AtWith(@, p, c)] => MovesOne(a)
              /\ \A o, s : task' = [task EXCEPT ![a] = Begin(o, p, s)] => MovesOne(a)
              /\ \A o, s, r : task' = [task EXCEPT ![a] = BeginWith(o, p, s, r)] => MovesOne(a)
<1>1. ~task[a].queued /\ task[a] \in Task /\ task[a].pc # "parked"
  BY DEF PoolType, PromiseInv, Exact
<1>2. Finish(a) => MovesOne(a)
  BY <1>1, TaskSame DEF Finish, MovesOne
<1>3. /\ task' = [task EXCEPT ![a] = NoTask] => MovesOne(a)
      /\ task' = [task EXCEPT ![a] = Exported(@)] => MovesOne(a)
  BY <1>1, TaskSame DEF MovesOne
<1>4. ASSUME NEW p \in Pcs \ {"parked"}
      PROVE  /\ Goto(a, p) => MovesOne(a)
             /\ \A c : task' = [task EXCEPT ![a] = AtWith(@, p, c)] => MovesOne(a)
  BY <1>1, TaskSame DEF Goto, MovesOne
<1>5. ASSUME NEW p \in Pcs \ {"parked"}
      PROVE  /\ \A o, s : task' = [task EXCEPT ![a] = Begin(o, p, s)] => MovesOne(a)
             /\ \A o, s, r : task' = [task EXCEPT ![a] = BeginWith(o, p, s, r)] => MovesOne(a)
  BY <1>1, TaskSame DEF MovesOne
<1> QED BY <1>1, <1>2, <1>3, <1>4, <1>5

(* The program points outside of a creation, by name.                       *)
LEMMA Elsewhere ==
  /\ OnSession \cap (CreationPcs \cup {"parked"}) = {}
  /\ NoTask.pc \notin CreationPcs \cup {"parked"} /\ "sweep" \notin CreationPcs \cup {"parked"}
  /\ CreationPcs \cup OnSession \subseteq Pcs \ {"parked"}
BY DEF OnSession, CreationPcs, NoTask, Pcs

(* A request that does not park.                                            *)
LEMMA QuietRequest ==
  ASSUME PoolType, PromiseInv, NEW s \in Session, ClientRequest(s), ~EnsurePark(s)
  PROVE  PromisesKept /\ UNCHANGED poolVars
<1>s. s \in Actor
  BY DEF Actor
<1>1. UNCHANGED poolVars
  BY DEF ClientRequest, EnsureNoCreation, EnsureDirect, ExecStart, PrepareStart, ApplyStart,
     KeepStartActive, KeepStart, DiscardStart, DestroyStart
<1>2. CASE EnsureNoCreation(s)
  BY <1>1, <1>2, SameStep DEF EnsureNoCreation
<1>3. ASSUME task[s] = NoTask,
             \/ EnsureDirect(s) \/ ExecStart(s) \/ PrepareStart(s) \/ ApplyStart(s)
             \/ KeepStartActive(s) \/ KeepStart(s) \/ DiscardStart(s) \/ DestroyStart(s)
      PROVE  UNCHANGED task \/ MovesOne(s)
  <2>1. task[s].pc \notin CreationPcs \cup {"parked"}
    BY <1>3, Elsewhere
  <2>2. {"creating", "exec", "commit", "check", "stop", "unref"} \subseteq Pcs \ {"parked"}
    BY DEF Pcs
  <2>3. /\ task' = [task EXCEPT ![s] = NoTask] => MovesOne(s)
        /\ \A p \in Pcs \ {"parked"} :
             /\ \A o, t : task' = [task EXCEPT ![s] = Begin(o, p, t)] => MovesOne(s)
             /\ \A o, t, r : task' = [task EXCEPT ![s] = BeginWith(o, p, t, r)] => MovesOne(s)
    BY <1>s, <2>1, Moving
  <2> QED BY <1>3, <2>2, <2>3 DEF EnsureDirect, ExecStart, PrepareStart, ApplyStart,
       KeepStartActive, KeepStart, KeepRelease, DiscardStart, DestroyStart
<1>4. EnsureNoCreation(s) \/ task[s] = NoTask
  BY DEF ClientRequest, EnsureDirect, NeedsWorker, ExecStart, PrepareStart, ApplyStart,
     KeepStartActive, KeepStart, DiscardStart, DestroyStart, CanStart, Locked
<1> QED BY <1>s, <1>1, <1>2, <1>3, <1>4, SameStep DEF ClientRequest

(* A creation that goes on.                                                 *)
LEMMA QuietCreation ==
  ASSUME PoolType, PromiseInv, NEW s \in Session,
         CreateVM(s) \/ CreateFails(s) \/ PrepFails(s) \/ CreationFailed(s)
  PROVE  PromisesKept /\ UNCHANGED poolVars
<1>s. s \in Actor
  BY DEF Actor
<1>1. UNCHANGED poolVars
  BY DEF CreateVM, CreateFails, PrepFails, CreationFailed
<1>2. task[s] \in Task /\ task[s].pc # "parked"
  BY <1>s DEF PoolType, CreateVM, CreateFails, PrepFails, CreationFailed
<1>3. \E p \in CreationPcs : Goto(s, p)
  BY DEF CreationPcs, CreateVM, CreateFails, PrepFails, CreationFailed
<1>4. MovesOne(s)
  BY <1>2, <1>3, TaskSame DEF Goto, MovesOne
<1> QED BY <1>s, <1>1, <1>4, SameStep

(* A step of an operation that frees no slot.                               *)
LEMMA QuietClient ==
  ASSUME PoolType, PromiseInv, NEW s \in Session, ClientStep(s) \/ Age(s), UNCHANGED poolVars
  PROVE  PromisesKept \/ FreeAllocation(s, task[s]) \/ ApplyDone(s)
<1>s. s \in Actor
  BY DEF Actor
<1>1. CASE Age(s)
  BY <1>1, SameStep DEF Age
<1>2. ASSUME ClientStep(s), ~ApplyDone(s), ~FreeAllocation(s, task[s]) PROVE MovesOne(s)
  <2>1. task[s].pc \in OnSession
    BY <1>2 DEF ClientStep, ExecDone, ExecFails, PrepareDone, KeepExported, DiscardUnref,
       DiscardFails, ApplyPatch, ApplyRefused, ApplyThrows, OnSession
  <2>2. {"stop", "apply"} \subseteq Pcs \ {"parked"}
    BY DEF Pcs
  <2>3. /\ Finish(s) => MovesOne(s)
        /\ task' = [task EXCEPT ![s] = NoTask] => MovesOne(s)
        /\ \A p \in Pcs \ {"parked"} :
             /\ Goto(s, p) => MovesOne(s)
             /\ \A c : task' = [task EXCEPT ![s] = AtWith(@, p, c)] => MovesOne(s)
             /\ \A o, t : task' = [task EXCEPT ![s] = Begin(o, p, t)] => MovesOne(s)
    BY <1>s, <2>1, Elsewhere, Moving
  <2> QED BY <1>2, <2>2, <2>3 DEF ClientStep, ExecDone, ExecFails, PrepareDone, KeepExported,
       KeepRelease, DiscardUnref, DiscardFails, ApplyPatch, ApplyRefused, ApplyThrows
<1> QED BY <1>s, <1>1, <1>2, SameStep

(* A step of runPrepare or releaseWorker that frees no slot.                *)
LEMMA QuietShared ==
  ASSUME PoolType, PromiseInv, NEW a \in Actor, SharedStep(a), ~RemoveVM(a)
  PROVE  PromisesKept /\ UNCHANGED poolVars
<1>1. UNCHANGED poolVars
  BY DEF SharedStep, CommitTree, ExportBundle, ExportFails, StopVM, RemoveFails
<1>2. task[a].pc \in OnSession
  BY DEF SharedStep, CommitTree, ExportBundle, ExportFails, StopVM, RemoveFails, OnSession
<1>3. {"bundle", "fetch", "remove", "retry"} \subseteq Pcs \ {"parked"}
  BY DEF Pcs
<1>4. Finish(a) => MovesOne(a)
  BY <1>2, Elsewhere, Moving
<1>5. \A p \in Pcs \ {"parked"} : Goto(a, p) => MovesOne(a)
  BY <1>2, Elsewhere, Moving
<1>6. MovesOne(a)
  BY <1>3, <1>4, <1>5 DEF SharedStep, CommitTree, ExportBundle, ExportFails, StopVM, RemoveFails
<1> QED BY <1>1, <1>6, SameStep

(* A sweep that goes on carries no promise and is not parked.               *)
LEMMA ResumeSame ==
  ASSUME NEW j \in Task, ~j.queued, j.pc # "parked",
         NEW k \in Task, ~k.queued, k.pc # "parked", NEW x \in Resume(k)
  PROVE  Same(j, x)
<1>1. ASSUME NEW i \in Task, ~i.queued, i.pc # "parked", NEW y \in Takes(i)
      PROVE  y.queued = FALSE /\ y.pc # "parked"
  <2>1. PICK s \in {z \in i.todo : ~Busy(z)}, K \in SUBSET {z \in i.todo : Busy(z)} :
          y = Visit(i, s, i.todo \ (K \cup {s}))
    BY DEF Takes
  <2>2. i \in TaskRecord
    BY DEF Task
  <2> QED BY <1>1, <2>1, <2>2 DEF Visit, TaskRecord
<1>2. /\ Phase("sweepIdle") \in Task /\ Phase("sweepIdle").queued = FALSE
      /\ Phase("sweepIdle").pc # "parked"
  <2>1. Phase("sweepIdle") \in Task
    BY TaskType DEF Phase, Listed, SweepOp
  <2> QED BY <2>1 DEF Phase, Sweeping, NoTask
<1>3. NoTask.queued = FALSE /\ NoTask.pc # "parked"
  BY DEF NoTask
<1>4. x.queued = FALSE /\ x.pc # "parked"
  BY <1>1, <1>2, <1>3 DEF Resume
<1>5. j.queued = FALSE
  BY DEF Task, TaskRecord
<1> QED BY <1>4, <1>5 DEF Same

(* A step of the reaper that frees no slot.                                 *)
LEMMA QuietReaper ==
  ASSUME PoolType, PromiseInv, NEW r \in Reaper,
         SweepStart(r) \/ ReaperStep(r) \/ \E s \in Session : DisconnectReap(r, s)
  PROVE  PromisesKept /\ UNCHANGED poolVars
<1>r. r \in Actor
  BY DEF Actor
<1>1. UNCHANGED poolVars
  BY DEF SweepStart, ReaperStep, SweepResume, StatusClean, StatusDirty, ReapExported,
     DisconnectReap
<1>2. task[r].pc \notin CreationPcs \cup {"parked"}
  BY Elsewhere DEF SweepStart, ReaperStep, SweepResume, StatusClean, StatusDirty,
     ReapExported, DisconnectReap, OnSession
<1>3. ~task[r].queued /\ task[r] \in Task /\ task[r].pc # "parked"
  BY <1>r, <1>2, Moving
<1>4. CASE SweepStart(r)
  <2>1. /\ Phase("sweepUnfinished") \in Task /\ Phase("sweepUnfinished").queued = FALSE
        /\ Phase("sweepUnfinished").pc # "parked"
    <3>1. Phase("sweepUnfinished") \in Task
      BY TaskType DEF Phase, Listed, SweepOp
    <3> QED BY <3>1 DEF Phase, Sweeping, NoTask
  <2>2. MovesOne(r)
    BY <1>3, <1>4, <2>1, ResumeSame DEF SweepStart, MovesOne
  <2> QED BY <1>r, <1>1, <2>2, SameStep
<1>5. CASE SweepResume(r)
  <2>1. MovesOne(r)
    BY <1>3, <1>5, ResumeSame DEF SweepResume, MovesOne
  <2> QED BY <1>r, <1>1, <2>1, SameStep
<1>6. CASE StatusClean(r) \/ StatusDirty(r) \/ ReapExported(r)
           \/ \E s \in Session : DisconnectReap(r, s)
  <2>1. {"stop", "commit", "status"} \subseteq Pcs \ {"parked"}
    BY DEF Pcs
  <2>2. /\ Finish(r) => MovesOne(r)
        /\ task' = [task EXCEPT ![r] = Exported(@)] => MovesOne(r)
        /\ \A p \in Pcs \ {"parked"} :
             /\ \A c : task' = [task EXCEPT ![r] = AtWith(@, p, c)] => MovesOne(r)
             /\ \A o, s : task' = [task EXCEPT ![r] = Begin(o, p, s)] => MovesOne(r)
    BY <1>r, <1>2, Moving
  <2>3. MovesOne(r)
    BY <1>6, <2>1, <2>2 DEF StatusClean, StatusDirty, ReapExported, DisconnectReap
  <2> QED BY <1>r, <1>1, <2>3, SameStep
<1> QED BY <1>4, <1>5, <1>6 DEF ReaperStep

-----------------------------------------------------------------------------
(* The pool                                                                *)

(* The inductive invariant, beside TypeOK.                                  *)
PoolInv == NoLostWakeup /\ PromiseInv

(* What a step of the broker is to the pool.                                *)
PoolStep == PoolInv' /\ [Pool!Next]_(Pool!poolVars)

(* A drain is an admission of AdmissionPool, and after it either the queue  *)
(* is empty or the pool is full.                                            *)
LEMMA DrainStep ==
  ASSUME NEW al \in Seq(Session), NEW q \in Seq(Session), NEW fl \in Nat, NEW rs,
         NEW ts \in [Actor -> Task], Exact(q, fl, ts), DrainQueue(al, q, fl, rs, ts)
  PROVE  PoolInv' /\ Pool!Admit(Len(al) + fl, q, Awaited(ts))
<1> DEFINE n == DrainCount(al, q, fl)
<1>1. n \in 0..Len(q) /\ n = Pool!Fits(Len(al) + fl, q)
  BY ConstantsAssumption DEF DrainCount, FreeSlots, Pool!Fits, Pool!Free
<1>2. n < Len(q) => Len(al) + fl + n >= Slots
  <2>1. /\ Len(al) \in Nat /\ Len(q) \in Nat /\ Slots \in Nat
    BY ConstantsAssumption
  <2>2. FreeSlots(al, fl) \in Nat /\ Len(al) + fl + FreeSlots(al, fl) >= Slots
    <3> DEFINE u == Len(al) + fl
    <3>1. u \in Nat
      BY <2>1
    <3>2. FreeSlots(al, fl) = IF u < Slots THEN Slots - u ELSE 0
      BY DEF FreeSlots
    <3> HIDE DEF u
    <3>3. FreeSlots(al, fl) \in Nat /\ u + FreeSlots(al, fl) >= Slots
      BY <2>1, <3>1, <3>2
    <3> QED BY <3>3 DEF u
  <2>3. n < Len(q) => n = FreeSlots(al, fl)
    BY <2>1, <2>2 DEF DrainCount
  <2> QED BY <2>2, <2>3
<1>3. allocations' = al /\ queue' = SubSeq(q, n + 1, Len(q)) /\ inFlight' = fl + n
  BY DEF DrainQueue
<1>4. PromiseInv' /\ Awaited(task)' = Awaited(ts) \cup {q[i] : i \in 1..n}
  BY DrainExact DEF Drained
<1> HIDE DEF n
<1>5. Pool!Admit(Len(al) + fl, q, Awaited(ts))
  BY <1>1, <1>3, <1>4 DEF Pool!Admit
<1>6. queue' # <<>> => n < Len(q)
  BY <1>1, <1>3
<1>7. NoLostWakeup'
  BY <1>1, <1>2, <1>3, <1>6, ConstantsAssumption DEF NoLostWakeup, FreeSlots
<1> QED BY <1>4, <1>5, <1>7 DEF PoolInv

(* With a full pool, or nobody waiting, an admission changes nothing.       *)
LEMMA AdmitNobody ==
  ASSUME NEW h \in Nat, NEW w \in Seq(Session), w = <<>> \/ h >= Slots, NEW A,
         Pool!Admit(h, w, A)
  PROVE  queue' = w /\ (Len(allocations) + inFlight)' = h /\ Awaited(task)' = A
<1>1. Pool!Fits(h, w) = 0
  BY ConstantsAssumption DEF Pool!Fits, Pool!Free
<1>2. SubSeq(w, 1, Len(w)) = w
  BY SubSeqFull
<1>3. {w[i] : i \in 1..0} = {}
  OBVIOUS
<1> QED BY <1>1, <1>2, <1>3 DEF Pool!Admit

(* The refinement mapping's RemoveFirst is the broker's.                    *)
LEMMA SameRemoveFirst ==
  ASSUME NEW q, NEW e
  PROVE  Pool!RemoveFirst(q, e) = RemoveFirst(q, e)
BY Zenon DEF Pool!RemoveFirst, RemoveFirst, Pool!RemoveAt, RemoveAt, Pool!SelectInSeq,
   SelectInSeq, Pool!Min, Min

(* A drain over the present allocations, or one fewer, when no promise has  *)
(* ended, is a stutter or a release.                                        *)
LEMMA ReleaseIsPoolStep ==
  ASSUME TypeOK, PoolInv, NEW al \in Seq(Session), NEW rs, NEW ts \in [Actor -> Task],
         Exact(queue, inFlight, ts), Awaited(ts) = Awaited(task),
         DrainQueue(al, queue, inFlight, rs, ts),
         Len(al) = Len(allocations) \/ Len(al) = Len(allocations) - 1
  PROVE  PoolStep
<1>t. queue \in Seq(Session) /\ allocations \in Seq(Session) /\ inFlight \in Nat
  BY DEF TypeOK, PoolType
<1> DEFINE h == Len(allocations) + inFlight
<1>h. h \in Nat /\ (queue = <<>> \/ h >= Slots)
  BY <1>t, ConstantsAssumption DEF PoolInv, NoLostWakeup, FreeSlots
<1>1. PoolInv' /\ Pool!Admit(Len(al) + inFlight, queue, Awaited(task))
  BY <1>t, DrainStep
<1>2. CASE Len(al) = Len(allocations)
  <2>1. queue' = queue /\ (Len(allocations) + inFlight)' = h /\ Awaited(task)' = Awaited(task)
    BY <1>t, <1>h, <1>1, <1>2, AdmitNobody
  <2> QED BY <1>1, <2>1 DEF PoolStep, Pool!poolVars
<1>3. CASE Len(al) = Len(allocations) - 1
  <2>1. Len(al) + inFlight = h - 1 /\ h > 0
    <3>1. Len(al) \in Nat /\ Len(allocations) \in Nat
      BY <1>t
    <3> QED BY <1>t, <1>3, <3>1
  <2>2. Pool!Release
    BY <1>1, <2>1 DEF Pool!Release
  <2> QED BY <1>1, <2>2 DEF PoolStep, Pool!Next
<1> QED BY <1>2, <1>3

(* A step that leaves the pool and its promises alone.                      *)
LEMMA PoolFrame ==
  ASSUME PoolInv, PromisesKept, UNCHANGED poolVars
  PROVE  PoolStep
BY DEF PoolInv, PoolStep, PromisesKept, NoLostWakeup, FreeSlots, poolVars, Pool!poolVars

(* Giving a slot back is a step of the abstract pool.                       *)
LEMMA FreeAllocationStep ==
  ASSUME TypeOK, PoolInv, NEW a \in Actor, task[a].pc \in OnSession,
         FreeAllocation(a, task[a])
  PROVE  PoolStep
<1>t. /\ queue \in Seq(Session) /\ allocations \in Seq(Session) /\ inFlight \in Nat
      /\ task[a] \in Task /\ task \in [Actor -> Task] /\ PoolType /\ PromiseInv
  BY DEF TypeOK, PoolType, PoolInv
<1> DEFINE al == RemoveFirst(allocations, task[a].sid)
           ts == [task EXCEPT ![a] = After(task[a])]
<1>1. al \in Seq(Session) /\ (Len(al) = Len(allocations) \/ Len(al) = Len(allocations) - 1)
  BY <1>t, RemoveFirstType
<1>2. DrainQueue(al, queue, inFlight, rec, ts)
  BY DEF FreeAllocation
<1>3. Same(task[a], After(task[a]))
  <2>1. task[a].pc \notin CreationPcs \cup {"parked"}
    BY Elsewhere
  <2>2. ~task[a].queued
    BY <1>t, <2>1, Moving
  <2> QED BY <1>t, <2>1, <2>2, TaskSame
<1>4. Exact(queue, inFlight, ts) /\ Awaited(ts) = Awaited(task)
  BY <1>t, <1>3, SameExact
<1>5. ts \in [Actor -> Task]
  BY <1>t, TaskType
<1> HIDE DEF al, ts
<1> QED BY <1>1, <1>2, <1>4, <1>5, ReleaseIsPoolStep

(* The end of a creation: al is the pool with the new allocation, if any.   *)
LEMMA EndCreationStep ==
  ASSUME TypeOK, PoolInv, NEW s \in Session, NEW al \in Seq(Session), NEW rs,
         task[s].pc \in CreationPcs,
         Len(al) = Len(allocations) \/ Len(al) = Len(allocations) + 1,
         EndCreation(s, al, rs)
  PROVE  PoolStep
<1>t. /\ queue \in Seq(Session) /\ allocations \in Seq(Session) /\ inFlight \in Nat
      /\ s \in Actor /\ task[s] \in Task /\ task \in [Actor -> Task] /\ PoolType /\ PromiseInv
  BY DEF TypeOK, PoolType, PoolInv, Actor
<1>n. Len(al) \in Nat /\ Len(allocations) \in Nat
  BY <1>t
<1> DEFINE ts == [task EXCEPT ![s] = NoTask]
           h == Len(allocations) + inFlight
<1>h. h \in Nat /\ (queue = <<>> \/ h >= Slots)
  BY <1>t, ConstantsAssumption DEF PoolInv, NoLostWakeup, FreeSlots
<1>1. CASE task[s].queued
  <2>1. /\ inFlight > 0 /\ Exact(queue, inFlight - 1, ts)
        /\ s \in Awaited(task) /\ Awaited(ts) = Awaited(task) \ {s}
    BY <1>t, <1>1, EndExact
  <2>2. DrainQueue(al, queue, inFlight - 1, rs, ts)
    BY <1>1, <2>1 DEF EndCreation
  <2>3. ts \in [Actor -> Task] /\ inFlight - 1 \in Nat
    <3>1. ts \in [Actor -> Task]
      BY <1>t, TaskType
    <3>2. inFlight - 1 \in Nat
      BY <1>t, <2>1
    <3> QED BY <3>1, <3>2
  <2> HIDE DEF ts
  <2> DEFINE fl == inFlight - 1
  <2>d. fl \in Nat /\ Exact(queue, fl, ts) /\ DrainQueue(al, queue, fl, rs, ts)
    BY <2>1, <2>2, <2>3
  <2>e. fl = inFlight - 1
    OBVIOUS
  <2> HIDE DEF fl
  <2>4. PoolInv' /\ Pool!Admit(Len(al) + fl, queue, Awaited(task) \ {s})
    <3>1. PoolInv' /\ Pool!Admit(Len(al) + fl, queue, Awaited(ts))
      BY <1>t, <2>3, <2>d, DrainStep
    <3> QED BY <2>1, <3>1
  <2>5. CASE Len(al) = Len(allocations) + 1
    <3>1. Len(al) + fl = h
      BY <1>t, <1>n, <2>e, <2>5
    <3>2. Pool!Created(s)
      BY <2>1, <2>4, <3>1 DEF Pool!Created
    <3> QED BY <2>4, <3>2 DEF PoolStep, Pool!Next
  <2>6. CASE Len(al) = Len(allocations)
    <3>1. Len(al) + fl = h - 1 /\ h > 0
      BY <1>t, <1>n, <2>1, <2>e, <2>6
    <3>2. Pool!Failed(s)
      BY <2>1, <2>4, <3>1 DEF Pool!Failed
    <3> QED BY <2>4, <3>2 DEF PoolStep, Pool!Next
  <2> QED BY <2>5, <2>6
<1>2. CASE ~task[s].queued
  <2>1. allocations' = al /\ queue' = queue /\ inFlight' = inFlight /\ task' = ts
    BY <1>2 DEF EndCreation
  <2>2. Same(task[s], NoTask)
    <3>1. task[s].pc # "parked"
      BY DEF CreationPcs
    <3> QED BY <1>t, <1>2, <3>1, TaskSame
  <2>3. Exact(queue, inFlight, ts) /\ Awaited(ts) = Awaited(task)
    BY <1>t, <2>2, SameExact
  <2> HIDE DEF ts
  <2>4. PromiseInv' /\ Awaited(task)' = Awaited(task)
    BY <2>1, <2>3 DEF PromiseInv, Exact, Awaited
  <2>5. NoLostWakeup'
    BY <1>t, <2>1, ConstantsAssumption DEF PoolInv, NoLostWakeup, FreeSlots
  <2>6. Pool!Take \/ UNCHANGED Pool!poolVars
    <3>1. (Len(allocations) + inFlight)' = Len(al) + inFlight
      BY <2>1
    <3>2. CASE Len(al) = Len(allocations)
      BY <2>1, <2>4, <3>1, <3>2 DEF Pool!poolVars
    <3>3. CASE Len(al) = Len(allocations) + 1
      <4>1. Len(al) + inFlight = (Len(allocations) + inFlight) + 1
        BY <1>t, <1>n, <3>3
      <4> QED BY <2>1, <2>4, <3>1, <4>1 DEF Pool!Take
    <3> QED BY <3>2, <3>3
  <2> QED BY <2>4, <2>5, <2>6 DEF PoolInv, PoolStep, Pool!Next
<1> QED BY <1>1, <1>2

(* Every step of the broker keeps the invariant and is a step of the        *)
(* abstract pool, or a stutter.                                             *)
LEMMA PoolNext ==
  ASSUME TypeOK, PoolInv, [Next]_vars
  PROVE  PoolStep
<1>t. /\ queue \in Seq(Session) /\ allocations \in Seq(Session) /\ inFlight \in Nat
      /\ task \in [Actor -> Task] /\ PoolType /\ PromiseInv /\ NoLostWakeup
      /\ Session \subseteq Actor
  BY DEF TypeOK, PoolType, PoolInv, Actor
<1>h. Len(allocations) + inFlight \in Nat /\ (queue = <<>> \/ Len(allocations) + inFlight >= Slots)
  BY <1>t, ConstantsAssumption DEF NoLostWakeup, FreeSlots
<1>1. CASE UNCHANGED vars
  <2>1. UNCHANGED <<poolVars, task>>
    BY <1>1 DEF vars
  <2> QED BY <1>t, <2>1, SameStep, PoolFrame
<1>2. ASSUME NEW s \in Session, EnsurePark(s) PROVE PoolStep
  <2>1. FreeSlots(allocations, inFlight) = 0 /\ UNCHANGED <<allocations, inFlight>>
    BY <1>2 DEF EnsurePark
  <2>2. NoLostWakeup'
    BY <2>1 DEF NoLostWakeup, FreeSlots
  <2>3. CASE UNCHANGED <<queue, task>>
    BY <1>t, <2>1, <2>3, SameStep, PoolFrame DEF poolVars
  <2>4. CASE /\ queue' = Append(queue, s)
             /\ task' = [task EXCEPT ![s] = Begin("ensureWorker", "parked", s)]
    <3>1. task[s] = NoTask
      BY <1>2 DEF EnsurePark, NeedsWorker, CanStart, Locked
    <3> DEFINE ts == [task EXCEPT ![s] = Begin("ensureWorker", "parked", s)]
    <3>2. Exact(Append(queue, s), inFlight, ts) /\ Awaited(ts) = Awaited(task)
      BY <1>t, <3>1, ParkExact
    <3>3. task' = ts
      BY <2>4
    <3> HIDE DEF ts
    <3>4. PromiseInv' /\ Awaited(task)' = Awaited(task)
      BY <2>1, <2>4, <3>2, <3>3 DEF PromiseInv, Exact, Awaited
    <3>5. Pool!Arrive(s)
      BY <2>1, <2>4, <3>4 DEF Pool!Arrive, Pool!Free, FreeSlots
    <3> QED BY <2>2, <3>4, <3>5 DEF PoolInv, PoolStep, Pool!Next
  <2> QED BY <1>2, <2>3, <2>4 DEF EnsurePark
<1>3. ASSUME NEW s \in Session, QueueTimeout(s) PROVE PoolStep
  <2>1. /\ queue' = RemoveFirst(queue, s) /\ RemoveFirst(queue, s) \in Seq(Session)
        /\ UNCHANGED <<allocations, inFlight>> /\ task[s].pc = "parked"
    BY <1>3, <1>t, RemoveFirstType DEF QueueTimeout
  <2>2. queue = <<>> => RemoveFirst(queue, s) = <<>>
    BY DEF RemoveFirst
  <2>3. NoLostWakeup'
    BY <1>t, <2>1, <2>2 DEF NoLostWakeup, FreeSlots
  <2> DEFINE j == After(task[s])
             ts == [task EXCEPT ![s] = j]
  <2>4. j.queued = FALSE /\ j.pc # "parked"
    BY DEF After, Sweeping, NoTask
  <2>5. task' = ts
    BY <1>3 DEF QueueTimeout, Finish
  <2> HIDE DEF j
  <2>6. Exact(RemoveFirst(queue, s), inFlight, ts) /\ Awaited(ts) = Awaited(task)
    BY <1>t, <2>1, <2>4, LeaveExact
  <2> HIDE DEF ts
  <2>7. PromiseInv' /\ Awaited(task)' = Awaited(task)
    BY <2>1, <2>5, <2>6 DEF PromiseInv, Exact, Awaited
  <2>8. Pool!Fits(Len(allocations) + inFlight, RemoveFirst(queue, s)) = 0
    BY <1>h, <2>1, <2>2, ConstantsAssumption DEF Pool!Fits, Pool!Free
  <2>9. SubSeq(RemoveFirst(queue, s), 1, Len(RemoveFirst(queue, s))) = RemoveFirst(queue, s)
    BY <2>1, SubSeqFull
  <2>10. Pool!Withdraw(s)
    <3>1. {RemoveFirst(queue, s)[i] : i \in 1..0} = {}
      OBVIOUS
    <3> QED BY <1>h, <2>1, <2>7, <2>8, <2>9, <3>1, SameRemoveFirst DEF Pool!Withdraw, Pool!Admit
  <2> QED BY <2>3, <2>7, <2>10 DEF PoolInv, PoolStep, Pool!Next
<1>4. ASSUME NEW s \in Session, CancelParked(s) PROVE PoolStep
  <2> DEFINE q == RemoveFirst(queue, s)
             ts == [task EXCEPT ![s] = NoTask]
  <2>1. q \in Seq(Session) /\ task[s].pc = "parked"
    BY <1>4, <1>t, RemoveFirstType DEF CancelParked
  <2>2. DrainQueue(allocations, q, inFlight, rec, ts)
    BY <1>4 DEF CancelParked
  <2>3. Exact(q, inFlight, ts) /\ Awaited(ts) = Awaited(task)
    <3>1. NoTask.queued = FALSE /\ NoTask.pc # "parked"
      BY DEF NoTask
    <3> QED BY <1>t, <2>1, <3>1, LeaveExact
  <2>4. ts \in [Actor -> Task]
    BY <1>t, TaskType
  <2> HIDE DEF ts
  <2>5. PoolInv' /\ Pool!Admit(Len(allocations) + inFlight, q, Awaited(task))
    BY <1>t, <2>1, <2>2, <2>3, <2>4, DrainStep
  <2>6. Pool!Withdraw(s)
    BY <2>5, SameRemoveFirst DEF Pool!Withdraw
  <2> QED BY <2>5, <2>6 DEF PoolStep, Pool!Next
<1>5. ASSUME NEW s \in Session, CreationEnds(s) PROVE PoolStep
  <2>1. task[s].pc \in CreationPcs
    BY <1>5 DEF CreationEnds, CreationPcs
  <2> QED BY <1>5, <1>t, <2>1, EndCreationStep DEF CreationEnds
<1>6. ASSUME NEW s \in Session, WorkerReady(s) PROVE PoolStep
  <2>1. Append(allocations, s) \in Seq(Session) /\ Len(Append(allocations, s)) = Len(allocations) + 1
    BY <1>t
  <2>2. EndCreation(s, Append(allocations, s), [rec EXCEPT ![s] = WorkerActive(@)])
    BY <1>6 DEF WorkerReady
  <2>3. task[s].pc \in CreationPcs
    BY <1>6 DEF WorkerReady, CreationPcs
  <2> QED BY <2>1, <2>2, <2>3, EndCreationStep
<1>7. ASSUME NEW a \in Actor, RemoveVM(a) PROVE PoolStep
  <2>1. task[a].pc \in OnSession
    BY <1>7 DEF RemoveVM, OnSession
  <2> QED BY <1>7, <2>1, FreeAllocationStep DEF RemoveVM
<1>8. ASSUME NEW s \in Session, ClientStep(s), FreeAllocation(s, task[s]), ~ApplyDone(s)
      PROVE  PoolStep
  <2>1. task[s].pc \in OnSession
    BY <1>8 DEF ClientStep, ExecDone, ExecFails, PrepareDone, KeepExported, DiscardUnref,
       DiscardFails, ApplyPatch, ApplyRefused, ApplyThrows, OnSession
  <2> QED BY <1>8, <1>t, <2>1, FreeAllocationStep
<1>9. ASSUME NEW s \in Session, ApplyDone(s) PROVE PoolStep
  <2>s. s \in Actor /\ task[s].pc \notin CreationPcs \cup {"parked"} /\ task[s] \in Task
    BY <1>9, <1>t DEF ApplyDone, CreationPcs
  <2>1. CASE UNCHANGED poolVars /\ Goto(s, "stop")
    <3>1. MovesOne(s)
      BY <1>t, <2>s, <2>1, Moving DEF Pcs
    <3> QED BY <1>t, <2>s, <2>1, <3>1, SameStep, PoolFrame
  <2> DEFINE al == RemoveFirst(allocations, s)
             rs == [rec EXCEPT ![s] = Destroyed(WithResult(rec[s], "APPLIED"))]
             ts == [task EXCEPT ![s] = NoTask]
  <2>2. CASE DrainQueue(al, queue, inFlight, rs, ts)
    <3>1. al \in Seq(Session) /\ (Len(al) = Len(allocations) \/ Len(al) = Len(allocations) - 1)
      BY <1>t, RemoveFirstType
    <3>2. Same(task[s], NoTask)
      <4>1. ~task[s].queued
        BY <1>t, <2>s, Moving
      <4> QED BY <2>s, <4>1, TaskSame
    <3>3. Exact(queue, inFlight, ts) /\ Awaited(ts) = Awaited(task)
      BY <1>t, <2>s, <3>2, SameExact
    <3>4. ts \in [Actor -> Task]
      BY <1>t, TaskType
    <3> HIDE DEF al, rs, ts
    <3> QED BY <2>2, <3>1, <3>3, <3>4, ReleaseIsPoolStep
  <2> QED BY <1>9, <2>1, <2>2 DEF ApplyDone
<1>10. CASE Crash
  <2>1. allocations' = <<>> /\ queue' = <<>> /\ inFlight' = 0 /\ task' = [a \in Actor |-> NoTask]
    BY <1>10 DEF Crash
  <2>2. NoTask.queued = FALSE /\ NoTask.pc # "parked"
    BY DEF NoTask
  <2>3. Awaited(task)' = {} /\ {s \in Session : task'[s].pc = "parked"} = {}
    BY <1>t, <2>1, <2>2 DEF Awaited
  <2>4. IsInjective(queue') /\ ToSet(queue') = {}
    BY <2>1 DEF IsInjective, ToSet
  <2>5. \A a \in Actor : task'[a].queued => task'[a].pc \in CreationPcs
    BY <2>1, <2>2
  <2>6. PromiseInv'
    BY <2>1, <2>3, <2>4, <2>5, FS_EmptySet DEF PromiseInv, Exact
  <2>7. Pool!Restart /\ NoLostWakeup'
    BY <2>1, <2>3 DEF Pool!Restart, NoLostWakeup
  <2> QED BY <2>6, <2>7 DEF PoolInv, PoolStep, Pool!Next
<1>11. ASSUME NEW s \in Session, ClientRequest(s) PROVE PoolStep
  BY <1>2, <1>11, <1>t, QuietRequest, PoolFrame
<1>12. ASSUME NEW s \in Session, CreationStep(s) PROVE PoolStep
  BY <1>5, <1>6, <1>12, <1>t, QuietCreation, PoolFrame DEF CreationStep
<1>13. ASSUME NEW s \in Session, ClientStep(s) \/ Age(s) PROVE PoolStep
  <2>1. ApplyDone(s) \/ (FreeAllocation(s, task[s]) /\ ClientStep(s)) \/ UNCHANGED poolVars
    BY <1>13 DEF ClientStep, ExecDone, ExecFails, PrepareDone, KeepExported, DiscardFails,
       DiscardUnref, ApplyPatch, ApplyRefused, ApplyThrows, Age
  <2>2. ASSUME UNCHANGED poolVars, ~ApplyDone(s), ~(FreeAllocation(s, task[s]) /\ ClientStep(s))
        PROVE  PoolStep
    <3>1. CASE Age(s)
      BY <1>t, <2>2, <3>1, SameStep, PoolFrame DEF Age
    <3>2. CASE ClientStep(s)
      BY <1>t, <2>2, <3>2, QuietClient, PoolFrame
    <3> QED BY <1>13, <3>1, <3>2
  <2> QED BY <1>8, <1>9, <2>1, <2>2
<1>14. ASSUME NEW a \in Actor, SharedStep(a) PROVE PoolStep
  BY <1>7, <1>14, <1>t, QuietShared, PoolFrame
<1>15. ASSUME NEW r \in Reaper,
              SweepStart(r) \/ ReaperStep(r) \/ \E s \in Session : DisconnectReap(r, s)
       PROVE  PoolStep
  BY <1>15, <1>t, QuietReaper, PoolFrame
<1> QED BY <1>1, <1>3, <1>4, <1>10, <1>11, <1>12, <1>13, <1>14, <1>15 DEF Next

(* The broker starts with an empty pool and nobody parked.                  *)
LEMMA PoolInit == Init => PoolInv /\ Pool!Init
<1> SUFFICES ASSUME Init PROVE PoolInv /\ Pool!Init
  OBVIOUS
<1>1. allocations = <<>> /\ queue = <<>> /\ inFlight = 0 /\ task = [a \in Actor |-> NoTask]
  BY DEF Init
<1>2. NoTask.queued = FALSE /\ NoTask.pc # "parked"
  BY DEF NoTask
<1>3. Awaited(task) = {} /\ {s \in Session : task[s].pc = "parked"} = {}
  BY <1>1, <1>2 DEF Awaited, Actor
<1>4. IsInjective(queue) /\ ToSet(queue) = {}
  BY <1>1 DEF IsInjective, ToSet
<1>5. \A a \in Actor : task[a].queued => task[a].pc \in CreationPcs
  BY <1>1, <1>2
<1>6. PromiseInv
  BY <1>1, <1>3, <1>4, <1>5, FS_EmptySet DEF PromiseInv, Exact
<1>7. NoLostWakeup /\ Pool!Init
  BY <1>1, <1>3 DEF NoLostWakeup, Pool!Init
<1> QED BY <1>6, <1>7 DEF PoolInv

(* The invariant of the pool is inductive.                                  *)
LEMMA PoolCorrect == Spec => []PoolInv
<1>1. TypeOK /\ PoolInv /\ [Next]_vars => PoolInv'
  BY PoolNext DEF PoolStep
<1> QED BY <1>1, PoolInit, TypeCorrect, PTL DEF Spec

(* A request is parked only while the pool, counting the creations that     *)
(* drainQueue has promised, is full: no interleaving of releases, failed    *)
(* creations, timeouts, cancellations and crashes loses a wakeup.           *)
THEOREM NoWakeupLost == Spec => []NoLostWakeup
<1>1. PoolInv => NoLostWakeup
  BY DEF PoolInv
<1> QED BY <1>1, PoolCorrect, PTL

(* inFlight is the number of drained creations that have not ended, and the *)
(* queue holds each parked request once: runQueuedCreation gives back       *)
(* exactly what drainQueue promised, on every way out.                      *)
THEOREM PromisesCounted == Spec => []PromisesExact
<1>1. PoolInv => PromisesExact
  BY DEF PoolInv, PromiseInv, Exact, PromisesExact
<1> QED BY <1>1, PoolCorrect, PTL

(* The broker's pool, queue and in-flight count implement AdmissionPool.    *)
THEOREM PoolRefined == Spec => PoolSpec
<1>1. TypeOK /\ PoolInv /\ [Next]_vars => [Pool!Next]_(Pool!poolVars)
  BY PoolNext DEF PoolStep
<1> QED BY <1>1, PoolInit, TypeCorrect, PoolCorrect, PTL DEF Spec, PoolSpec, Pool!Spec

-----------------------------------------------------------------------------
(* Who owns a worker                                                        *)


CreatingPcs == {"creating", "prepping", "cleaning"}
ReleasePcs == {"stop", "remove", "retry"}
ExportPcs == {"commit", "bundle", "fetch"}

(* A client operation works on its own session; a discard only deletes the  *)
(* ref and releases.                                                        *)
SessionTask(s, k) ==
  /\ k = NoTask \/ (k.sid = s /\ k.op \in ClientOp)
  /\ k.exported = FALSE /\ k.pc \notin {"sweep", "status"}
  /\ k.pc = "unref" => k.op = "discardResult"
  /\ k.op = "discardResult" => k.pc \in {"unref"} \cup ReleasePcs

(* A reaper task never creates a worker, and exports only for a reap that   *)
(* exports first.                                                           *)
ReaperTask(k) ==
  /\ k.op \in SweepOp \cup {"none", "reapOnDisconnect"}
  /\ k.pc \in {"idle", "sweep", "status"} \cup ExportPcs \cup ReleasePcs
  /\ k.pc \in ExportPcs \cup {"status"} => k.op \in ExportFirst
  /\ k.pc = "sweep" => k.op \in SweepOp

ActorInv ==
  /\ \A s \in Session : SessionTask(s, task[s])
  /\ \A r \in Reaper : ReaperTask(task[r])

(* What holds between the record r, the task k and the VM v of session s,   *)
(* the sessions A in the pool and the number n of crashes.                  *)
WorkerOK(s, r, k, v, A, n) ==
  /\ k.pc \in CreatingPcs => r.state = "CREATING_SANDBOX"
  /\ Live(r) => r.state \notin {"HOST_READ_ONLY", "CREATING_SANDBOX", "FAILED_CLOSED"}
  /\ v # "absent" => /\ Live(r) \/ r.state \in {"CREATING_SANDBOX", "FAILED_CLOSED"}
                     /\ r.workerState = "DESTROYED" => r.state = "CREATING_SANDBOX"
  /\ k.op = "discardResult" => /\ r.state = "RESULT_READY"
                               /\ Live(k.snap) \/ (k.pc = "unref" /\ v = "absent")
  /\ s \in A => Live(r)
  /\ n = 0 /\ r.state = "CREATING_SANDBOX" => k.pc \in CreatingPcs
  /\ n = 0 /\ Live(r) /\ v # "absent" => s \in A

WorkersOK(rs, ts, vs, A, n) ==
  \A s \in Session : WorkerOK(s, rs[s], ts[s], vs[s], A, n)

WorkerInv ==
  /\ ActorInv
  /\ IsInjective(allocations)
  /\ WorkersOK(rec, task, vm, ToSet(allocations), crashes)

-----------------------------------------------------------------------------
(* Records and tasks, field by field                                       *)

(* What the writers of the store leave of the state and of the worker.      *)
LEMMA RecordFields ==
  ASSUME NEW r \in SessionRecord
  PROVE  /\ \A to : /\ MoveTo(r, to).state = to
                    /\ MoveTo(r, to).workerState = r.workerState
                    /\ Live(MoveTo(r, to)) <=> Live(r)
                    /\ WithResult(r, to).state = to
                    /\ WithResult(r, to).workerState = r.workerState
                    /\ Live(WithResult(r, to)) <=> Live(r)
         /\ Touch(r).state = r.state /\ Touch(r).workerState = r.workerState
         /\ Live(Touch(r)) <=> Live(r)
         /\ Aged(r).state = r.state /\ Aged(r).workerState = r.workerState
         /\ Live(Aged(r)) <=> Live(r)
         /\ Destroyed(r).state = r.state /\ ~Live(Destroyed(r))
         /\ WorkerActive(r).state = "SANDBOX_ACTIVE" /\ Live(WorkerActive(r))
         /\ WorkerActive(r).workerState = "ACTIVE"
         /\ FailClosed(r).state = "FAILED_CLOSED" /\ ~Live(FailClosed(r))
         /\ FailClosed(r).workerState = "FAILED"
<1> USE DEF SessionRecord
<1>1. ASSUME NEW to
      PROVE  /\ MoveTo(r, to).state = to
             /\ MoveTo(r, to).workerState = r.workerState
             /\ Live(MoveTo(r, to)) <=> Live(r)
             /\ WithResult(r, to).state = to
             /\ WithResult(r, to).workerState = r.workerState
             /\ Live(WithResult(r, to)) <=> Live(r)
  BY DEF MoveTo, WithResult, Live
<1>2. /\ Touch(r).state = r.state /\ Touch(r).workerState = r.workerState
      /\ Live(Touch(r)) <=> Live(r)
      /\ Aged(r).state = r.state /\ Aged(r).workerState = r.workerState
      /\ Live(Aged(r)) <=> Live(r)
  BY DEF Touch, Aged, Live
<1>3. Destroyed(r).state = r.state /\ ~Live(Destroyed(r))
  BY DEF Destroyed, Live
<1>4. /\ WorkerActive(r).state = "SANDBOX_ACTIVE" /\ Live(WorkerActive(r))
      /\ WorkerActive(r).workerState = "ACTIVE"
  BY DEF WorkerActive, MoveTo, Live
<1>5. /\ FailClosed(r).state = "FAILED_CLOSED" /\ ~Live(FailClosed(r))
      /\ FailClosed(r).workerState = "FAILED"
  BY DEF FailClosed, MoveTo, Live
<1> QED BY <1>1, <1>2, <1>3, <1>4, <1>5

(* The states a creation or a retention may start from.                     *)
LEMMA LegalSources ==
  ASSUME NEW x \in SessionStates
  PROVE  /\ "CREATING_SANDBOX" \in LegalTransitions[x]
              => x \in {"HOST_READ_ONLY", "SANDBOX_ACTIVE", "RESULT_READY"}
         /\ "RETAINED" \in LegalTransitions[x]
              => x \in {"SANDBOX_ACTIVE", "RESULT_READY", "APPLIED"}
BY DEF SessionStates, LegalTransitions

(* A record a creation starts from names no live worker.                    *)
LEMMA CreatableFields ==
  ASSUME NEW s, NEW r \in SessionRecord, NEW k, NEW v, NEW A, NEW n,
         WorkerOK(s, r, k, v, A, n), Creatable(r)
  PROVE  ~Live(r) /\ r.state \in {"HOST_READ_ONLY", "SANDBOX_ACTIVE", "RESULT_READY"}
<1>1. r.state \in {"HOST_READ_ONLY", "SANDBOX_ACTIVE", "RESULT_READY"}
  BY LegalSources DEF Creatable, SessionRecord
<1> QED BY <1>1 DEF Creatable, Reusable, Usable, WorkerOK

LEMMA TaskFields ==
  ASSUME NEW k \in Task, NEW p
  PROVE  /\ At(k, p).pc = p /\ At(k, p).op = k.op /\ At(k, p).sid = k.sid
         /\ At(k, p).snap = k.snap /\ At(k, p).exported = k.exported
         /\ At(k, p).cut = k.cut
         /\ Promised(k, p).pc = p /\ Promised(k, p).op = k.op /\ Promised(k, p).sid = k.sid
         /\ Promised(k, p).snap = k.snap /\ Promised(k, p).exported = k.exported
         /\ \A c : /\ AtWith(k, p, c).pc = p /\ AtWith(k, p, c).op = k.op
                   /\ AtWith(k, p, c).sid = k.sid /\ AtWith(k, p, c).snap = k.snap
                   /\ AtWith(k, p, c).exported = k.exported /\ AtWith(k, p, c).cut = c
         /\ Exported(k).pc = "stop" /\ Exported(k).op = k.op /\ Exported(k).sid = k.sid
         /\ Exported(k).cut = k.cut
BY DEF Task, TaskRecord, At, Promised, AtWith, Exported

LEMMA NewTaskFields ==
  /\ NoTask.op = "none" /\ NoTask.pc = "idle" /\ NoTask.exported = FALSE /\ NoTask.cut = {}
  /\ NoTask.sid = None
  /\ \A o, p, s : /\ Begin(o, p, s).pc = p /\ Begin(o, p, s).op = o /\ Begin(o, p, s).sid = s
                  /\ Begin(o, p, s).exported = FALSE /\ Begin(o, p, s).cut = {}
  /\ \A o, p, s, r : /\ BeginWith(o, p, s, r).pc = p /\ BeginWith(o, p, s, r).op = o
                     /\ BeginWith(o, p, s, r).sid = s /\ BeginWith(o, p, s, r).snap = r
                     /\ BeginWith(o, p, s, r).exported = FALSE
                     /\ BeginWith(o, p, s, r).cut = {}
  /\ \A o, S : /\ Sweeping(o, S).pc = "sweep" /\ Sweeping(o, S).op = o
               /\ Sweeping(o, S).cut = {}
BY DEF NoTask, Begin, BeginWith, Sweeping

-----------------------------------------------------------------------------
(* Where tasks go                                                          *)

(* The names of operations and program points are apart.                    *)
LEMMA OpNames ==
  /\ ClientOp \cap SweepOp = {} /\ "none" \notin ClientOp \cup SweepOp
  /\ "reapOnDisconnect" \notin ClientOp \cup SweepOp
  /\ ExportFirst \subseteq SweepOp \cup {"reapOnDisconnect"}
  /\ ClientOp \cap ExportFirst = {} /\ "none" \notin ExportFirst
  /\ {"ensureWorker", "exec", "prepareResult", "applyResult", "keepResult",
      "discardResult", "destroyWorker"} \subseteq ClientOp
  /\ {"sweepUnfinished", "reapOnDisconnect"} \subseteq ExportFirst
  /\ {"sweepUnfinished", "sweepIdle"} = SweepOp
BY DEF ClientOp, SweepOp, ExportFirst

(* A client's task that begins, goes on or ends.                            *)
LEMMA SessionMoves ==
  ASSUME NEW s, NEW k \in Task, SessionTask(s, k)
  PROVE  /\ SessionTask(s, NoTask) /\ After(k) = NoTask
         /\ \A p : /\ k # NoTask /\ p \notin {"sweep", "status", "unref"}
                   /\ k.op = "discardResult" => p \in ReleasePcs
                   => /\ SessionTask(s, At(k, p))
                      /\ \A c : SessionTask(s, AtWith(k, p, c))
                      /\ SessionTask(s, Promised(k, p))
         /\ \A o \in ClientOp \ {"discardResult"} : \A p :
              p \notin {"sweep", "status", "unref"}
                => /\ SessionTask(s, Begin(o, p, s))
                   /\ \A r : SessionTask(s, BeginWith(o, p, s, r))
         /\ \A r : SessionTask(s, BeginWith("discardResult", "unref", s, r))
<1>1. SessionTask(s, NoTask)
  BY NewTaskFields DEF SessionTask
<1>2. After(k) = NoTask
  BY OpNames, NewTaskFields DEF SessionTask, After
<1>3. ASSUME NEW p, k # NoTask, p \notin {"sweep", "status", "unref"},
             k.op = "discardResult" => p \in ReleasePcs
      PROVE  /\ SessionTask(s, At(k, p)) /\ SessionTask(s, Promised(k, p))
             /\ \A c : SessionTask(s, AtWith(k, p, c))
  BY <1>3, TaskFields DEF SessionTask
<1>4. ASSUME NEW o \in ClientOp \ {"discardResult"}, NEW p, p \notin {"sweep", "status", "unref"}
      PROVE  SessionTask(s, Begin(o, p, s)) /\ \A r : SessionTask(s, BeginWith(o, p, s, r))
  BY <1>4, NewTaskFields DEF SessionTask
<1>5. ASSUME NEW r PROVE SessionTask(s, BeginWith("discardResult", "unref", s, r))
  BY OpNames, NewTaskFields DEF SessionTask
<1> QED BY <1>1, <1>2, <1>3, <1>4, <1>5

(* A reaper task that begins, goes on or ends.                              *)
LEMMA ReaperMoves ==
  ASSUME NEW k \in Task, ReaperTask(k)
  PROVE  /\ ReaperTask(NoTask) /\ ReaperTask(After(k)) /\ ReaperTask(Exported(k))
         /\ \A p \in ReleasePcs : ReaperTask(At(k, p)) /\ \A c : ReaperTask(AtWith(k, p, c))
         /\ \A p \in ExportPcs : k.op \in ExportFirst =>
              ReaperTask(At(k, p)) /\ \A c : ReaperTask(AtWith(k, p, c))
         /\ \A s : ReaperTask(Begin("reapOnDisconnect", "status", s))
<1>1. ReaperTask(NoTask)
  BY NewTaskFields DEF ReaperTask, ExportPcs
<1>2. ReaperTask(After(k))
  BY <1>1, NewTaskFields DEF ReaperTask, After, ExportPcs
<1>3. ReaperTask(Exported(k))
  BY TaskFields DEF ReaperTask, ExportPcs, ReleasePcs
<1>4. ASSUME NEW p \in ReleasePcs
      PROVE  ReaperTask(At(k, p)) /\ \A c : ReaperTask(AtWith(k, p, c))
  <2>1. p \notin ExportPcs \cup {"status", "sweep"}
    BY DEF ExportPcs, ReleasePcs
  <2>2. ASSUME NEW j, j.pc = p, j.op = k.op PROVE ReaperTask(j)
    BY <2>1, <2>2 DEF ReaperTask
  <2> QED BY <2>2, TaskFields
<1>5. ASSUME NEW p \in ExportPcs, k.op \in ExportFirst
      PROVE  ReaperTask(At(k, p)) /\ \A c : ReaperTask(AtWith(k, p, c))
  BY <1>5, TaskFields DEF ReaperTask, ExportPcs
<1>6. ASSUME NEW s PROVE ReaperTask(Begin("reapOnDisconnect", "status", s))
  BY NewTaskFields, OpNames DEF ReaperTask
<1> QED BY <1>1, <1>2, <1>3, <1>4, <1>5, <1>6

(* The sessions a sweep visits, and how it goes on.                         *)
LEMMA ReaperResumes ==
  ASSUME NEW k \in Task, k.op \in SweepOp, NEW x \in Resume(k)
  PROVE  ReaperTask(x)
<1>1. ASSUME NEW i \in Task, i.op \in SweepOp, NEW y \in Takes(i)
      PROVE  ReaperTask(y)
  <2>1. PICK s \in {z \in i.todo : ~Busy(z)}, K \in SUBSET {z \in i.todo : Busy(z)} :
          y = Visit(i, s, i.todo \ (K \cup {s}))
    BY DEF Takes
  <2>2. i \in TaskRecord
    BY DEF Task
  <2>3. y.op = i.op /\ y.pc = IF i.op = "sweepUnfinished" THEN "status" ELSE "stop"
    BY <2>1, <2>2 DEF Visit, TaskRecord
  <2> QED BY <1>1, <2>3, OpNames DEF ReaperTask, ReleasePcs, ExportPcs
<1>2. Phase("sweepIdle") \in Task /\ Phase("sweepIdle").op \in SweepOp
  BY TaskType, NewTaskFields DEF Phase, Listed, SweepOp
<1>3. ReaperTask(NoTask)
  BY NewTaskFields DEF ReaperTask, ExportPcs
<1> QED BY <1>1, <1>2, <1>3 DEF Resume

(* A step of one actor, and a drain.                                        *)
LEMMA ActorStep ==
  ASSUME task \in [Actor -> Task], ActorInv, NEW a \in Actor, NEW k,
         task' = [task EXCEPT ![a] = k],
         a \in Session => SessionTask(a, k), a \in Reaper => ReaperTask(k)
  PROVE  ActorInv'
BY DEF ActorInv, Actor

LEMMA ActorDrain ==
  ASSUME NEW ts \in [Actor -> Task], NEW rs, NEW D \in SUBSET Session,
         \A s \in Session : SessionTask(s, ts[s]), \A r \in Reaper : ReaperTask(ts[r]),
         \A s \in D : ts[s].pc = "parked",
         task' = DrainedTask(ts, rs, D)
  PROVE  ActorInv'
<1>1. ASSUME NEW s \in Session PROVE SessionTask(s, task'[s])
  <2>1. CASE s \in D
    <3>1. ts[s] \in Task /\ SessionTask(s, ts[s]) /\ ts[s] # NoTask /\ ts[s].op # "discardResult"
      BY <2>1, NewTaskFields DEF Actor, SessionTask, ReleasePcs
    <3>2. SessionTask(s, Promised(ts[s], "creating")) /\ SessionTask(s, Promised(ts[s], "settling"))
      BY <3>1, SessionMoves
    <3> QED BY <2>1, <3>2 DEF DrainedTask, Actor
  <2> QED BY <2>1 DEF DrainedTask, Actor
<1>2. ASSUME NEW r \in Reaper PROVE ReaperTask(task'[r])
  BY ConstantsAssumption DEF DrainedTask, Actor
<1> QED BY <1>1, <1>2 DEF ActorInv

-----------------------------------------------------------------------------
(* Workers                                                                 *)

(* Touching a record, or moving a task outside of its creation, keeps what  *)
(* holds of a session.                                                      *)
LEMMA SameOK ==
  ASSUME NEW s, NEW r, NEW k, NEW v, NEW A, NEW n, WorkerOK(s, r, k, v, A, n),
         NEW q, q.state = r.state, q.workerState = r.workerState, Live(q) <=> Live(r),
         NEW j, j.pc \in CreatingPcs <=> k.pc \in CreatingPcs,
         j.op = "discardResult" => /\ k.op = "discardResult" /\ j.snap = k.snap
                                   /\ j.pc = k.pc \/ Live(k.snap)
  PROVE  WorkerOK(s, q, j, v, A, n)
BY DEF WorkerOK

(* A transition among the states in which a worker may be named.            *)
LEMMA MovedOK ==
  ASSUME NEW s, NEW r, NEW k, NEW v, NEW A, NEW n, WorkerOK(s, r, k, v, A, n),
         r.state \notin {"HOST_READ_ONLY", "CREATING_SANDBOX", "FAILED_CLOSED"},
         NEW q, q.workerState = r.workerState, Live(q) <=> Live(r),
         q.state \notin {"HOST_READ_ONLY", "CREATING_SANDBOX", "FAILED_CLOSED"},
         NEW j, j.pc \notin CreatingPcs, j.op # "discardResult"
  PROVE  WorkerOK(s, q, j, v, A, n)
BY DEF WorkerOK

(* A VM that goes away or is stopped, and a slot that is given back after.  *)
LEMMA LessOK ==
  ASSUME NEW s, NEW r, NEW k, NEW v, NEW A, NEW n, WorkerOK(s, r, k, v, A, n),
         NEW w, NEW B, s \in B => s \in A,
         w = "absent" \/ (v # "absent" /\ (s \in A => s \in B))
  PROVE  WorkerOK(s, r, k, w, B, n)
BY DEF WorkerOK

(* The sessions other than t, when nothing of them changes.                 *)
LEMMA OneSession ==
  ASSUME NEW A, NEW n, WorkersOK(rec, task, vm, A, n), NEW t \in Session,
         NEW rs, NEW ts, NEW vs, NEW B,
         \A s \in Session \ {t} : /\ rs[s] = rec[s] /\ vs[s] = vm[s] /\ ts[s] = task[s]
                                  /\ s \in B <=> s \in A,
         WorkerOK(t, rs[t], ts[t], vs[t], B, n)
  PROVE  WorkersOK(rs, ts, vs, B, n)
<1>1. ASSUME NEW s \in Session \ {t}
      PROVE  WorkerOK(s, rs[s], ts[s], vs[s], B, n)
  <2>1. WorkerOK(s, rec[s], task[s], vm[s], A, n)
    BY DEF WorkersOK
  <2> QED BY <2>1 DEF WorkerOK
<1> QED BY <1>1 DEF WorkersOK

(* What a drained creation starts from.                                     *)
LEMMA DrainOK ==
  ASSUME NEW rs \in [Session -> SessionRecord], NEW ts \in [Actor -> Task], NEW vs, NEW A,
         NEW n, WorkersOK(rs, ts, vs, A, n), \A s \in Session : SessionTask(s, ts[s]),
         NEW D \in SUBSET Session, \A s \in D : ts[s].pc = "parked"
  PROVE  WorkersOK(DrainedRec(rs, D), DrainedTask(ts, rs, D), vs, A, n)
<1> SUFFICES ASSUME NEW s \in Session
             PROVE  WorkerOK(s, DrainedRec(rs, D)[s], DrainedTask(ts, rs, D)[s], vs[s], A, n)
  BY DEF WorkersOK
<1>0. /\ WorkerOK(s, rs[s], ts[s], vs[s], A, n) /\ rs[s] \in SessionRecord
      /\ ts[s] \in Task /\ s \in Actor
  BY DEF WorkersOK, Actor
<1>1. CASE s \notin D
  BY <1>0, <1>1 DEF DrainedRec, DrainedTask
<1>2. CASE s \in D /\ Creatable(rs[s])
  <2>1. /\ DrainedRec(rs, D)[s] = MoveTo(rs[s], "CREATING_SANDBOX")
        /\ DrainedTask(ts, rs, D)[s] = Promised(ts[s], "creating")
    BY <1>0, <1>2 DEF DrainedRec, DrainedTask
  <2>2. /\ MoveTo(rs[s], "CREATING_SANDBOX").state = "CREATING_SANDBOX"
        /\ ~Live(MoveTo(rs[s], "CREATING_SANDBOX"))
    BY <1>0, <1>2, RecordFields, CreatableFields
  <2>3. ts[s].op # "discardResult"
    BY <1>2 DEF SessionTask, ReleasePcs
  <2>4. Promised(ts[s], "creating").pc = "creating" /\ Promised(ts[s], "creating").op # "discardResult"
    BY <1>0, <2>3, TaskFields
  <2>5. s \notin A
    BY <1>0, <1>2, CreatableFields DEF WorkerOK
  <2> QED BY <2>1, <2>2, <2>4, <2>5 DEF WorkerOK, CreatingPcs
<1>3. CASE s \in D /\ ~Creatable(rs[s])
  <2>1. /\ DrainedRec(rs, D)[s] = rs[s]
        /\ DrainedTask(ts, rs, D)[s] = Promised(ts[s], "settling")
    BY <1>0, <1>3 DEF DrainedRec, DrainedTask
  <2>2. ts[s].op # "discardResult" /\ ts[s].pc = "parked"
    BY <1>3 DEF SessionTask, ReleasePcs
  <2>3. Promised(ts[s], "settling").pc = "settling" /\ Promised(ts[s], "settling").op # "discardResult"
    BY <1>0, <2>2, TaskFields
  <2> QED BY <1>0, <2>1, <2>2, <2>3, SameOK DEF CreatingPcs
<1> QED BY <1>1, <1>2, <1>3

(* A drain of the given pool, queue, records and tasks.                     *)
LEMMA DrainInv ==
  ASSUME NEW al \in Seq(Session), IsInjective(al), NEW q \in Seq(Session), NEW fl \in Nat,
         NEW rs \in [Session -> SessionRecord], NEW ts \in [Actor -> Task],
         WorkersOK(rs, ts, vm', ToSet(al), crashes'),
         \A s \in Session : SessionTask(s, ts[s]), \A r \in Reaper : ReaperTask(ts[r]),
         \A s \in ToSet(q) : ts[s].pc = "parked",
         DrainQueue(al, q, fl, rs, ts)
  PROVE  /\ ActorInv' /\ allocations' = al /\ IsInjective(allocations')
         /\ WorkersOK(DrainedRec(rs, Drained(al, q, fl)), task', vm', ToSet(al), crashes')
         /\ Drained(al, q, fl) \subseteq ToSet(q)
<1> DEFINE D == Drained(al, q, fl)
<1>1. D \subseteq ToSet(q) /\ D \in SUBSET Session
  <2>1. DrainCount(al, q, fl) \in 0..Len(q) /\ D \subseteq Session
    BY DrainType
  <2> QED BY <2>1 DEF Drained, ToSet
<1>2. allocations' = al /\ task' = DrainedTask(ts, rs, D)
  BY DEF DrainQueue
<1> HIDE DEF D
<1>3. \A s \in D : ts[s].pc = "parked"
  BY <1>1
<1>4. ActorInv'
  BY <1>1, <1>2, <1>3, ActorDrain
<1>5. WorkersOK(DrainedRec(rs, D), DrainedTask(ts, rs, D), vm', ToSet(al), crashes')
  BY <1>1, <1>3, DrainOK
<1> QED BY <1>1, <1>2, <1>4, <1>5 DEF D

(* The record after a confirmed removal: by the reaper, while the session   *)
(* does j, or at the end of the session's own operation.                    *)
LEMMA ReleasedOK ==
  ASSUME NEW s, NEW r \in SessionRecord, NEW k \in Task, NEW j, NEW A, NEW n,
         WorkerOK(s, r, j, "absent", A, n), s \notin A,
         \/ k.op \notin ClientOp
         \/ /\ j = NoTask /\ k.exported = FALSE
            /\ k.op = "discardResult" => r.state = "RESULT_READY"
  PROVE  WorkerOK(s, Released(k, r), j, "absent", A, n)
<1>0. /\ k.snap \in SessionRecord /\ Destroyed(r) \in SessionRecord
      /\ r.state \in SessionStates
      /\ "NONE" \in WorkerStates /\ "DESTROYED" \in WorkerStates
  BY RecordType DEF Task, TaskRecord, SessionRecord, WorkerStates
<1>d. Destroyed(r).state = r.state /\ ~Live(Destroyed(r))
  BY RecordFields
<1>1. WorkerOK(s, Destroyed(r), j, "absent", A, n)
  BY <1>d DEF WorkerOK
<1>2. CASE k.op \notin ClientOp
  <2>1. CASE k.exported
    <3>1. Released(k, r) = IF Moves(r, "SANDBOX_ACTIVE", "RESULT_READY")
                           THEN WithResult(Destroyed(r), "RESULT_READY") ELSE r
      BY <1>2, <2>1, OpNames DEF Released
    <3>2. CASE Moves(r, "SANDBOX_ACTIVE", "RESULT_READY")
      <4>1. /\ Released(k, r).state = "RESULT_READY" /\ ~Live(Released(k, r))
            /\ r.state = "SANDBOX_ACTIVE"
        BY <1>0, <1>d, <3>1, <3>2, RecordFields DEF Moves
      <4> QED BY <4>1 DEF WorkerOK
    <3> QED BY <3>1, <3>2
  <2>2. CASE ~k.exported
    <3>1. Released(k, r) = Destroyed(r)
      BY <1>2, <2>2, OpNames DEF Released
    <3> QED BY <1>1, <3>1
  <2> QED BY <2>1, <2>2
<1>3. CASE /\ j = NoTask /\ k.exported = FALSE
           /\ k.op = "discardResult" => r.state = "RESULT_READY"
  <2>0. j.pc = "idle" /\ j.op = "none"
    BY <1>3, NewTaskFields
  <2>1. CASE k.op = "keepResult"
    <3>1. Released(k, r) \in {MoveTo(Destroyed(r), "RETAINED"), Destroyed(r)}
      BY <2>1, <1>3 DEF Released
    <3>2. CASE Released(k, r) = MoveTo(Destroyed(r), "RETAINED")
      <4>1. Released(k, r).state = "RETAINED" /\ ~Live(Released(k, r))
        BY <1>0, <1>d, <3>2, RecordFields
      <4> QED BY <2>0, <4>1 DEF WorkerOK, CreatingPcs
    <3> QED BY <1>1, <3>1, <3>2
  <2>2. CASE k.op = "discardResult"
    <3>1. Released(k, r) = Rejected(r, FALSE, IF k.snap.worker THEN "DESTROYED" ELSE "NONE")
      BY <1>3, <2>2 DEF Released, Moves, LegalTransitions
    <3>2. Released(k, r).state = "REJECTED" /\ ~Live(Released(k, r))
      <4> DEFINE ws == IF k.snap.worker THEN "DESTROYED" ELSE "NONE"
      <4>1. ws \in WorkerStates /\ Released(k, r) = Rejected(r, FALSE, ws)
        BY <1>0, <3>1
      <4> HIDE DEF ws
      <4> QED BY <4>1 DEF Rejected, MoveTo, Live, SessionRecord
    <3> QED BY <2>0, <3>2 DEF WorkerOK, CreatingPcs
  <2>3. CASE k.op \notin {"keepResult", "discardResult"}
    <3>1. Released(k, r) = Destroyed(r)
      BY <1>3, <2>3 DEF Released
    <3> QED BY <1>1, <3>1
  <2> QED BY <2>1, <2>2, <2>3
<1> QED BY <1>2, <1>3

(* The record after a removal that failed twice.                            *)
LEMMA RetainedOK ==
  ASSUME NEW s, NEW r \in SessionRecord, NEW k \in Task, NEW j, NEW v, NEW A, NEW n,
         WorkerOK(s, r, j, v, A, n),
         \/ k.op \notin ClientOp
         \/ j = k /\ k.exported = FALSE /\ k.pc \in ReleasePcs
  PROVE  WorkerOK(s, Retained(k, r), IF k.op \in ClientOp THEN NoTask ELSE j, v, A, n)
<1>0. /\ k.snap \in SessionRecord /\ k.snap.worker \in BOOLEAN
      /\ k.snap.workerState \in WorkerStates /\ r.state \in SessionStates
  BY DEF Task, TaskRecord, SessionRecord
<1>1. CASE k.op \notin ClientOp
  <2>1. CASE k.exported /\ Moves(r, "SANDBOX_ACTIVE", "RESULT_READY")
    <3>1. Retained(k, r) = WithResult(r, "RESULT_READY")
      BY <1>1, <2>1, OpNames DEF Retained
    <3>2. /\ Retained(k, r).state = "RESULT_READY" /\ r.state = "SANDBOX_ACTIVE"
          /\ (Live(Retained(k, r)) <=> Live(r))
          /\ Retained(k, r).workerState = r.workerState
      BY <2>1, <3>1, RecordFields DEF Moves
    <3> QED BY <1>1, <3>2 DEF WorkerOK
  <2>2. CASE ~(k.exported /\ Moves(r, "SANDBOX_ACTIVE", "RESULT_READY"))
    <3>1. Retained(k, r) = r
      BY <1>1, <2>2, OpNames DEF Retained
    <3> QED BY <1>1, <3>1
  <2> QED BY <2>1, <2>2
<1>2. CASE k.op \in ClientOp /\ j = k /\ k.exported = FALSE /\ k.pc \in ReleasePcs
  <2>0. NoTask.pc = "idle" /\ NoTask.op = "none" /\ k.pc \notin CreatingPcs \cup {"unref"}
    BY <1>2, NewTaskFields DEF ReleasePcs, CreatingPcs
  <2>1. CASE k.op = "keepResult" /\ "RETAINED" \in LegalTransitions[r.state]
    <3>1. /\ Retained(k, r) = MoveTo(r, "RETAINED")
          /\ r.state \in {"SANDBOX_ACTIVE", "RESULT_READY", "APPLIED"}
      BY <1>0, <1>2, <2>1, LegalSources DEF Retained
    <3>2. /\ Retained(k, r).state = "RETAINED" /\ (Live(Retained(k, r)) <=> Live(r))
          /\ Retained(k, r).workerState = r.workerState
      BY <3>1, RecordFields
    <3>3. WorkerOK(s, Retained(k, r), NoTask, v, A, n)
      BY <2>0, <3>1, <3>2, MovedOK DEF CreatingPcs
    <3> QED BY <1>2, <3>3
  <2>2. CASE k.op = "discardResult"
    <3>1. r.state = "RESULT_READY" /\ Live(k.snap)
      BY <1>2, <2>0, <2>2 DEF WorkerOK
    <3>2. Retained(k, r) = Rejected(r, k.snap.worker, k.snap.workerState)
      BY <1>2, <2>2, <3>1 DEF Retained, Moves, LegalTransitions
    <3>3. /\ Retained(k, r).state = "REJECTED" /\ Live(Retained(k, r))
          /\ Retained(k, r).workerState # "DESTROYED"
      <4>1. k.snap.workerState # "DESTROYED"
        BY <3>1 DEF Live
      <4> QED BY <1>0, <3>1, <3>2, <4>1 DEF Rejected, MoveTo, Live, SessionRecord
    <3>4. WorkerOK(s, Retained(k, r), NoTask, v, A, n)
      BY <1>2, <2>0, <3>1, <3>3 DEF WorkerOK, CreatingPcs
    <3> QED BY <1>2, <3>4
  <2>3. CASE /\ k.op # "discardResult"
             /\ ~(k.op = "keepResult" /\ "RETAINED" \in LegalTransitions[r.state])
    <3>1. Retained(k, r) = r
      BY <1>2, <2>3 DEF Retained
    <3> QED BY <1>2, <2>0, <3>1, SameOK DEF CreatingPcs
  <2> QED BY <2>1, <2>2, <2>3
<1> QED BY <1>1, <1>2

-----------------------------------------------------------------------------
(* Steps                                                                   *)

(* What the invariant says of one session and of one actor.                 *)
LEMMA SessionFacts ==
  ASSUME TypeOK, WorkerInv, NEW s \in Session
  PROVE  /\ s \in Actor /\ rec[s] \in SessionRecord /\ task[s] \in Task
         /\ WorkerOK(s, rec[s], task[s], vm[s], ToSet(allocations), crashes)
         /\ SessionTask(s, task[s])
         /\ task[s] # NoTask => task[s].sid = s /\ task[s].op \in ClientOp
BY DEF TypeOK, PoolType, WorkerInv, WorkersOK, ActorInv, SessionTask, Actor

LEMMA ActorFacts ==
  ASSUME TypeOK, WorkerInv, NEW a \in Actor
  PROVE  /\ task[a] \in Task
         /\ a \in Session \/ (a \in Reaper /\ ReaperTask(task[a]) /\ task[a].op \notin ClientOp)
         /\ task[a].pc \in OnSession => task[a].sid \in Session
         /\ task[a].pc \in OnSession /\ a \in Session => task[a].sid = a
<1>1. task[a] \in Task /\ (task[a].pc \in OnSession => task[a].sid \in Session)
  BY DEF TypeOK, PoolType, Task
<1>2. ASSUME a \in Reaper PROVE ReaperTask(task[a]) /\ task[a].op \notin ClientOp
  BY <1>2, OpNames DEF WorkerInv, ActorInv, ReaperTask
<1>3. ASSUME a \in Session, task[a].pc \in OnSession PROVE task[a].sid = a
  BY <1>3, SessionFacts, NewTaskFields DEF OnSession
<1> QED BY <1>1, <1>2, <1>3 DEF Actor

(* A step of actor a that leaves the pool alone and writes at most the      *)
(* record and the VM of session t.                                          *)
LEMMA QuietStep ==
  ASSUME TypeOK, WorkerInv, NEW a \in Actor, NEW k, NEW t \in Session, NEW r, NEW v,
         a \in Session => a = t /\ SessionTask(a, k), a \in Reaper => ReaperTask(k),
         task' = [task EXCEPT ![a] = k],
         rec' = [rec EXCEPT ![t] = r], vm' = [vm EXCEPT ![t] = v],
         allocations' = allocations, crashes' = crashes,
         WorkerOK(t, r, IF a \in Session THEN k ELSE task[t], v, ToSet(allocations), crashes)
  PROVE  WorkerInv'
<1> DEFINE A == ToSet(allocations)
<1>1. ActorInv'
  BY ActorStep DEF WorkerInv, TypeOK, PoolType
<1>2. WorkersOK(rec, task, vm, A, crashes)
  BY DEF WorkerInv
<1>3. ASSUME NEW s \in Session \ {t}
      PROVE  rec'[s] = rec[s] /\ vm'[s] = vm[s] /\ task'[s] = task[s]
  BY DEF TypeOK, PoolType, WorkerType, Actor
<1>4. rec'[t] = r /\ vm'[t] = v /\ task'[t] = IF a \in Session THEN k ELSE task[t]
  BY DEF TypeOK, PoolType, WorkerType, Actor
<1> HIDE DEF A
<1>5. WorkerOK(t, rec'[t], task'[t], vm'[t], A, crashes)
  BY <1>4 DEF A
<1>6. WorkersOK(rec', task', vm', A, crashes)
  BY <1>2, <1>3, <1>5, OneSession
<1>7. ToSet(allocations)' = A /\ IsInjective(allocations)' /\ crashes' = crashes
  BY DEF A, WorkerInv
<1> QED BY <1>1, <1>6, <1>7 DEF WorkerInv

(* Tasks as ActorInv has them; a queue whose sessions are all parked; and   *)
(* records, tasks, VMs and a pool that changed for session t only.          *)
TasksOK(ts) ==
  /\ \A s \in Session : SessionTask(s, ts[s])
  /\ \A r \in Reaper : ReaperTask(ts[r])

AllParked(q, ts) == \A s \in ToSet(q) : ts[s].pc = "parked"

OnlyFor(t, rs, ts, vs, al) ==
  \A s \in Session \ {t} : /\ rs[s] = rec[s] /\ vs[s] = vm[s] /\ ts[s] = task[s]
                           /\ s \in ToSet(al) <=> s \in ToSet(allocations)

(* The tasks when actor a goes on with k.                                   *)
LEMMA OneTask ==
  ASSUME TypeOK, WorkerInv, NEW a \in Actor, NEW k \in Task,
         a \in Session => SessionTask(a, k), a \in Reaper => ReaperTask(k),
         NEW ts, ts = [task EXCEPT ![a] = k]
  PROVE  /\ ts \in [Actor -> Task] /\ TasksOK(ts)
         /\ \A b \in Actor : ts[b] = IF b = a THEN k ELSE task[b]
BY DEF TasksOK, TypeOK, PoolType, WorkerInv, ActorInv, Actor

(* A step that drains the queue: rs and ts are the records and the tasks,   *)
(* and al is the pool, that it leaves before the drain.                     *)
LEMMA DrainedStep ==
  ASSUME TypeOK, WorkerInv, NEW al \in Seq(Session), IsInjective(al),
         NEW q \in Seq(Session), NEW fl \in Nat, NEW rs \in [Session -> SessionRecord],
         NEW ts \in [Actor -> Task], DrainQueue(al, q, fl, rs, ts), crashes' = crashes,
         TasksOK(ts), AllParked(q, ts), NEW t \in Session, OnlyFor(t, rs, ts, vm', al),
         WorkerOK(t, rs[t], ts[t], vm'[t], ToSet(al), crashes)
  PROVE  /\ Drained(al, q, fl) \subseteq ToSet(q)
         /\ allocations' = al /\ IsInjective(allocations') /\ ActorInv'
         /\ WorkersOK(DrainedRec(rs, Drained(al, q, fl)), task', vm', ToSet(al), crashes)
         /\ rec' = DrainedRec(rs, Drained(al, q, fl)) => WorkerInv'
<1> DEFINE D == Drained(al, q, fl)
<1>1. WorkersOK(rec, task, vm, ToSet(allocations), crashes)
  BY DEF WorkerInv
<1>2. WorkersOK(rs, ts, vm', ToSet(al), crashes)
  BY <1>1, OneSession DEF OnlyFor
<1>3. /\ ActorInv' /\ allocations' = al /\ IsInjective(allocations')
      /\ WorkersOK(DrainedRec(rs, D), task', vm', ToSet(al), crashes')
      /\ D \subseteq ToSet(q)
  BY <1>2, DrainInv DEF TasksOK, AllParked
<1> HIDE DEF D
<1>4. ASSUME rec' = DrainedRec(rs, D) PROVE WorkerInv'
  BY <1>3, <1>4 DEF WorkerInv
<1> QED BY <1>3, <1>4 DEF D

(* Who is parked, and the pool and the queue without one session.           *)
LEMMA PoolFacts ==
  ASSUME TypeOK, PoolInv, WorkerInv
  PROVE  /\ allocations \in Seq(Session) /\ queue \in Seq(Session) /\ inFlight \in Nat
         /\ \A s \in ToSet(queue) : s \in Session /\ task[s].pc = "parked"
         /\ \A a \in Actor : task[a].pc # "parked" => a \notin ToSet(queue)
         /\ \A t : LET al == RemoveFirst(allocations, t)
                   IN  /\ al \in Seq(Session) /\ IsInjective(al)
                       /\ ToSet(al) = ToSet(allocations) \ {t}
         /\ \A t : LET q == RemoveFirst(queue, t)
                   IN  q \in Seq(Session) /\ ToSet(q) = ToSet(queue) \ {t}
<1>1. /\ allocations \in Seq(Session) /\ queue \in Seq(Session) /\ inFlight \in Nat
      /\ IsInjective(allocations) /\ IsInjective(queue)
      /\ ToSet(queue) = {s \in Session : task[s].pc = "parked"}
  BY DEF TypeOK, PoolType, WorkerInv, PoolInv, PromiseInv, Exact
<1>2. ASSUME NEW t
      PROVE  /\ RemoveFirst(allocations, t) \in Seq(Session)
             /\ IsInjective(RemoveFirst(allocations, t))
             /\ ToSet(RemoveFirst(allocations, t)) = ToSet(allocations) \ {t}
             /\ RemoveFirst(queue, t) \in Seq(Session)
             /\ ToSet(RemoveFirst(queue, t)) = ToSet(queue) \ {t}
  BY <1>1, RemoveFirstType, RemoveFirstExact
<1> QED BY <1>1, <1>2

(* Giving the slot of a removed VM back, with the record its caller writes. *)
LEMMA FreeOK ==
  ASSUME TypeOK, PoolInv, WorkerInv, NEW a \in Actor, task[a].pc \in OnSession,
         FreeAllocation(a, task[a]), vm' = [vm EXCEPT ![task[a].sid] = "absent"],
         crashes' = crashes
  PROVE  WorkerInv'
<1> DEFINE k == task[a]
           t == k.sid
           al == RemoveFirst(allocations, t)
           D == Drained(al, queue, inFlight)
           X == DrainedRec(rec, D)
<1>a. /\ k \in Task /\ t \in Session /\ (a \in Session => t = a)
      /\ a \in Session \/ (a \in Reaper /\ ReaperTask(k) /\ k.op \notin ClientOp)
  BY ActorFacts
<1>s. /\ rec[t] \in SessionRecord /\ task[t] \in Task /\ SessionTask(t, task[t])
      /\ WorkerOK(t, rec[t], task[t], vm[t], ToSet(allocations), crashes)
  BY <1>a, SessionFacts
<1>1. /\ al \in Seq(Session) /\ IsInjective(al) /\ ToSet(al) = ToSet(allocations) \ {t}
      /\ queue \in Seq(Session) /\ inFlight \in Nat
      /\ \A s \in ToSet(queue) : s \in Session /\ task[s].pc = "parked"
  BY PoolFacts
<1>2. k.pc # "parked" /\ a \notin ToSet(queue)
  BY <1>1, Elsewhere
<1>3. /\ DrainQueue(al, queue, inFlight, rec, [task EXCEPT ![a] = After(k)])
      /\ rec' = [X EXCEPT ![t] = Released(k, @)]
  BY DEF FreeAllocation
<1>5. /\ After(k) \in Task /\ (a \in Session => SessionTask(a, After(k)) /\ After(k) = NoTask)
      /\ a \in Reaper => ReaperTask(After(k))
  <2>1. After(k) \in Task
    BY <1>a, TaskType
  <2>2. ASSUME a \in Session PROVE SessionTask(a, After(k)) /\ After(k) = NoTask
    BY <1>a, <1>s, <2>2, SessionMoves
  <2>3. ASSUME a \in Reaper PROVE ReaperTask(After(k))
    <3>1. a \notin Session
      BY <2>3, ConstantsAssumption
    <3> QED BY <1>a, <3>1, ReaperMoves
  <2> QED BY <2>1, <2>2, <2>3
<1> DEFINE ts == [task EXCEPT ![a] = After(k)]
<1> HIDE DEF k, t, al, ts, D, X
<1>6. /\ ts \in [Actor -> Task] /\ TasksOK(ts)
      /\ \A b \in Actor : ts[b] = IF b = a THEN After(k) ELSE task[b]
  <2> DEFINE n == After(k)
  <2>1. n \in Task /\ (a \in Session => SessionTask(a, n)) /\ (a \in Reaper => ReaperTask(n))
    BY <1>5
  <2>2. ts = [task EXCEPT ![a] = n]
    BY DEF ts
  <2> HIDE DEF n
  <2>3. /\ ts \in [Actor -> Task] /\ TasksOK(ts)
        /\ \A b \in Actor : ts[b] = IF b = a THEN n ELSE task[b]
    BY <2>1, <2>2, OneTask
  <2> QED BY <2>3 DEF n
<1>7. /\ D \subseteq ToSet(queue) /\ allocations' = al /\ IsInjective(allocations') /\ ActorInv'
      /\ WorkersOK(X, task', vm', ToSet(al), crashes)
  <2>1. DrainQueue(al, queue, inFlight, rec, ts) /\ rec \in [Session -> SessionRecord]
    BY <1>3 DEF ts, TypeOK, PoolType
  <2>2. \A s \in Session : vm'[s] = IF s = t THEN "absent" ELSE vm[s]
    BY DEF t, k, TypeOK, WorkerType
  <2>3. WorkerOK(t, rec[t], ts[t], vm'[t], ToSet(al), crashes)
    <3>1. WorkerOK(t, rec[t], task[t], "absent", ToSet(al), crashes)
      BY <1>1, <1>s, LessOK
    <3>2. CASE a \in Session
      <4>1. task[t] = k /\ k.pc \notin CreatingPcs /\ ts[t] = NoTask
        BY <1>a, <1>5, <1>6, <3>2 DEF k, OnSession, CreatingPcs
      <4>2. NoTask.pc \notin CreatingPcs /\ NoTask.op # "discardResult"
        BY NewTaskFields DEF CreatingPcs
      <4> QED BY <1>a, <2>2, <3>1, <4>1, <4>2, SameOK
    <3>3. CASE a \notin Session
      <4>1. ts[t] = task[t]
        BY <1>a, <1>6, <3>3 DEF Actor
      <4> QED BY <1>a, <2>2, <3>1, <4>1
    <3> QED BY <3>2, <3>3
  <2>4. OnlyFor(t, rec, ts, vm', al)
    BY <1>a, <1>1, <1>6, <2>2 DEF OnlyFor, Actor
  <2>5. AllParked(queue, ts)
    BY <1>1, <1>2, <1>6 DEF AllParked, Actor
  <2>6. /\ Drained(al, queue, inFlight) \subseteq ToSet(queue)
        /\ allocations' = al /\ IsInjective(allocations') /\ ActorInv'
        /\ WorkersOK(DrainedRec(rec, Drained(al, queue, inFlight)),
                     task', vm', ToSet(al), crashes)
    BY <1>a, <1>1, <1>6, <2>1, <2>3, <2>4, <2>5, DrainedStep
  <2> QED BY <2>6 DEF X, D
<1>8. /\ X \in [Session -> SessionRecord]
      /\ X[t] \in SessionRecord /\ vm'[t] = "absent" /\ t \notin ToSet(al)
  <2>1. X \in [Session -> SessionRecord]
    BY <1>1, DrainType DEF X, TypeOK, PoolType
  <2>2. vm'[t] = "absent" /\ t \notin ToSet(al)
    BY <1>a, <1>1 DEF t, k, TypeOK, WorkerType
  <2> QED BY <1>a, <2>1, <2>2
<1>9. WorkerOK(t, X[t], task'[t], "absent", ToSet(al), crashes)
  BY <1>a, <1>7, <1>8 DEF WorkersOK
<1>10. \/ k.op \notin ClientOp
       \/ /\ task'[t] = NoTask /\ k.exported = FALSE
          /\ k.op = "discardResult" => X[t].state = "RESULT_READY"
  <2> SUFFICES ASSUME a \in Session
               PROVE  /\ task'[t] = NoTask /\ k.exported = FALSE
                      /\ k.op = "discardResult" => X[t].state = "RESULT_READY"
    BY <1>a
  <2>1. t = a /\ k = task[t] /\ t \notin D
    BY <1>a, <1>2, <1>7 DEF k
  <2>2. task'[t] = After(k)
    BY <1>3, <1>6, <2>1 DEF DrainQueue, DrainedTask, D, ts
  <2>3. X[t] = rec[t]
    BY <1>a, <2>1 DEF X, DrainedRec
  <2> QED BY <1>5, <1>s, <2>1, <2>2, <2>3 DEF SessionTask, WorkerOK
<1>11. WorkerOK(t, Released(k, X[t]), task'[t], "absent", ToSet(al), crashes)
  BY <1>a, <1>8, <1>9, <1>10, ReleasedOK
<1>12. WorkersOK(rec', task', vm', ToSet(al), crashes)
  <2> SUFFICES ASSUME NEW s \in Session
               PROVE  WorkerOK(s, rec'[s], task'[s], vm'[s], ToSet(al), crashes)
    BY DEF WorkersOK
  <2>1. CASE s = t
    BY <1>3, <1>8, <1>11, <2>1
  <2>2. CASE s # t
    BY <1>3, <1>7, <1>8, <2>2 DEF WorkersOK
  <2> QED BY <2>1, <2>2
<1> QED BY <1>7, <1>12 DEF WorkerInv

(* Session s ends its operation with a drain: rs are the records and al is  *)
(* the pool it leaves before the drain.                                     *)
LEMMA QuitOK ==
  ASSUME TypeOK, WorkerInv, NEW s \in Session, NEW al \in Seq(Session), IsInjective(al),
         NEW q \in Seq(Session), NEW fl \in Nat, NEW rs \in [Session -> SessionRecord],
         AllParked(q, task), s \notin ToSet(q), ToSet(q) \subseteq Session,
         OnlyFor(s, rs, task, vm, al), vm' = vm, crashes' = crashes,
         WorkerOK(s, rs[s], NoTask, vm[s], ToSet(al), crashes),
         DrainQueue(al, q, fl, rs, [task EXCEPT ![s] = NoTask]),
         rec' = DrainedRec(rs, Drained(al, q, fl))
  PROVE  WorkerInv'
<1> DEFINE ts == [task EXCEPT ![s] = NoTask]
<1>1. s \in Actor /\ SessionTask(s, NoTask) /\ NoTask \in Task /\ s \notin Reaper
  BY SessionFacts, SessionMoves, TaskType, ConstantsAssumption
<1>2. DrainQueue(al, q, fl, rs, ts) /\ ts = [task EXCEPT ![s] = NoTask]
  OBVIOUS
<1> HIDE DEF ts
<1>3. /\ ts \in [Actor -> Task] /\ TasksOK(ts)
      /\ \A b \in Actor : ts[b] = IF b = s THEN NoTask ELSE task[b]
  BY <1>1, <1>2 DEF TasksOK, TypeOK, PoolType, WorkerInv, ActorInv, Actor
<1>4. AllParked(q, ts)
  BY <1>3 DEF AllParked, Actor
<1>5. OnlyFor(s, rs, ts, vm', al)
  BY <1>3 DEF OnlyFor, Actor
<1>6. WorkerOK(s, rs[s], ts[s], vm'[s], ToSet(al), crashes)
  BY <1>1, <1>3
<1> QED BY <1>2, <1>3, <1>4, <1>5, <1>6, DrainedStep

(* A creation that ends: with a drain if it was drained itself.             *)
LEMMA EndOK ==
  ASSUME TypeOK, PoolInv, WorkerInv, NEW s \in Session, task[s].pc \in CreationPcs,
         NEW al \in Seq(Session), IsInjective(al), NEW rs \in [Session -> SessionRecord],
         OnlyFor(s, rs, task, vm, al), vm' = vm, crashes' = crashes,
         WorkerOK(s, rs[s], NoTask, vm[s], ToSet(al), crashes), EndCreation(s, al, rs)
  PROVE  WorkerInv'
<1>1. /\ queue \in Seq(Session) /\ inFlight \in Nat
      /\ \A x \in ToSet(queue) : x \in Session /\ task[x].pc = "parked"
  BY PoolFacts
<1>2. AllParked(queue, task) /\ s \notin ToSet(queue) /\ ToSet(queue) \subseteq Session
  BY <1>1 DEF AllParked, CreationPcs
<1>3. CASE task[s].queued
  <2> DEFINE fl == IF inFlight > 0 THEN inFlight - 1 ELSE 0
  <2>1. fl \in Nat
    BY <1>1
  <2>2. /\ DrainQueue(al, queue, fl, rs, [task EXCEPT ![s] = NoTask])
        /\ rec' = DrainedRec(rs, Drained(al, queue, fl))
    BY <1>3 DEF EndCreation
  <2> HIDE DEF fl
  <2> QED BY <1>1, <1>2, <2>1, <2>2, QuitOK
<1>4. CASE ~task[s].queued
  <2>1. allocations' = al /\ task' = [task EXCEPT ![s] = NoTask] /\ rec' = rs
    BY <1>4 DEF EndCreation
  <2>2. s \in Actor /\ SessionTask(s, NoTask) /\ s \notin Reaper
    BY SessionFacts, SessionMoves, ConstantsAssumption
  <2>3. ActorInv'
    BY <2>1, <2>2, ActorStep DEF WorkerInv, TypeOK, PoolType
  <2>4. \A b \in Actor : task'[b] = IF b = s THEN NoTask ELSE task[b]
    BY <2>1 DEF TypeOK, PoolType
  <2>5. WorkersOK(rs, task', vm, ToSet(al), crashes)
    <3>1. WorkersOK(rec, task, vm, ToSet(allocations), crashes)
      BY DEF WorkerInv
    <3>2. \A x \in Session \ {s} : /\ rs[x] = rec[x] /\ vm[x] = vm[x] /\ task'[x] = task[x]
                                   /\ x \in ToSet(al) <=> x \in ToSet(allocations)
      BY <2>4 DEF OnlyFor, Actor
    <3>3. WorkerOK(s, rs[s], task'[s], vm[s], ToSet(al), crashes)
      BY <2>2, <2>4
    <3> QED BY <3>1, <3>2, <3>3, OneSession
  <2> QED BY <2>1, <2>3, <2>5 DEF WorkerInv
<1> QED BY <1>3, <1>4

(* A session that goes on with k and writes r.                               *)
LEMMA RecordOK ==
  ASSUME TypeOK, WorkerInv, NEW s \in Session, NEW k, task' = [task EXCEPT ![s] = k],
         SessionTask(s, k), NEW r, rec' = [rec EXCEPT ![s] = r],
         UNCHANGED <<vm, allocations, crashes>>,
         WorkerOK(s, r, k, vm[s], ToSet(allocations), crashes)
  PROVE  WorkerInv'
<1>1. vm' = [vm EXCEPT ![s] = vm[s]]
  BY DEF TypeOK, WorkerType
<1>2. s \in Actor /\ s \notin Reaper
  BY ConstantsAssumption DEF Actor
<1> QED BY <1>1, <1>2, QuietStep

(* A session that writes neither its record nor its VM.                     *)
LEMMA TaskOK ==
  ASSUME TypeOK, WorkerInv, NEW s \in Session, NEW k, task' = [task EXCEPT ![s] = k],
         SessionTask(s, k), UNCHANGED <<rec, vm, allocations, crashes>>,
         k.pc \in CreatingPcs <=> task[s].pc \in CreatingPcs,
         k.op = "discardResult" => /\ rec[s].state = "RESULT_READY"
                                   /\ Live(k.snap) \/ (k.pc = "unref" /\ vm[s] = "absent")
  PROVE  WorkerInv'
<1> DEFINE r == rec[s]
<1>1. rec' = [rec EXCEPT ![s] = r]
  BY DEF TypeOK, PoolType
<1>2. WorkerOK(s, r, task[s], vm[s], ToSet(allocations), crashes)
  BY SessionFacts
<1>3. WorkerOK(s, r, k, vm[s], ToSet(allocations), crashes)
  BY <1>2 DEF WorkerOK
<1> HIDE DEF r
<1> QED BY <1>1, <1>3, RecordOK

(* A record that is only touched.                                           *)
LEMMA TouchOK ==
  ASSUME TypeOK, WorkerInv, NEW s \in Session, NEW r, rec' = [rec EXCEPT ![s] = r],
         r.state = rec[s].state, r.workerState = rec[s].workerState, Live(r) <=> Live(rec[s]),
         UNCHANGED <<vm, allocations, crashes, task>>
  PROVE  WorkerInv'
<1> DEFINE k == task[s]
<1>1. task' = [task EXCEPT ![s] = k]
  BY DEF TypeOK, PoolType
<1>2. SessionTask(s, k) /\ WorkerOK(s, rec[s], k, vm[s], ToSet(allocations), crashes)
  BY SessionFacts
<1>3. WorkerOK(s, r, k, vm[s], ToSet(allocations), crashes)
  BY <1>2, SameOK
<1> HIDE DEF k
<1> QED BY <1>1, <1>2, <1>3, RecordOK

(* keepResult releases the worker, or goes straight to RETAINED.            *)
LEMMA KeepOK ==
  ASSUME TypeOK, WorkerInv, NEW s \in Session, NEW r \in SessionRecord, KeepRelease(s, r),
         rec[s].state \notin {"HOST_READ_ONLY", "CREATING_SANDBOX", "FAILED_CLOSED"},
         r.state \notin {"HOST_READ_ONLY", "CREATING_SANDBOX", "FAILED_CLOSED"},
         r.workerState = rec[s].workerState, Live(r) <=> Live(rec[s]),
         UNCHANGED <<vm, allocations, crashes>>
  PROVE  WorkerInv'
<1>f. /\ SessionTask(s, task[s]) /\ task[s] \in Task
      /\ WorkerOK(s, rec[s], task[s], vm[s], ToSet(allocations), crashes)
  BY SessionFacts
<1>1. CASE r.worker
  <2> DEFINE k == Begin("keepResult", "stop", s)
  <2>1. rec' = [rec EXCEPT ![s] = r] /\ task' = [task EXCEPT ![s] = k]
    BY <1>1 DEF KeepRelease
  <2>2. SessionTask(s, k) /\ k.pc = "stop" /\ k.op = "keepResult"
    BY <1>f, SessionMoves, NewTaskFields, OpNames
  <2> HIDE DEF k
  <2>3. WorkerOK(s, r, k, vm[s], ToSet(allocations), crashes)
    BY <1>f, <2>2, MovedOK DEF CreatingPcs
  <2> QED BY <2>1, <2>2, <2>3, RecordOK
<1>2. CASE ~r.worker
  <2> DEFINE x == MoveTo(r, "RETAINED")
  <2>1. rec' = [rec EXCEPT ![s] = x] /\ task' = [task EXCEPT ![s] = NoTask]
    BY <1>2 DEF KeepRelease
  <2>2. SessionTask(s, NoTask) /\ NoTask.pc = "idle" /\ NoTask.op = "none"
    BY <1>f, SessionMoves, NewTaskFields
  <2>3. /\ x.state = "RETAINED" /\ x.workerState = rec[s].workerState
        /\ Live(x) <=> Live(rec[s])
    BY RecordFields
  <2> HIDE DEF x
  <2>4. WorkerOK(s, x, NoTask, vm[s], ToSet(allocations), crashes)
    BY <1>f, <2>2, <2>3, MovedOK DEF CreatingPcs
  <2> QED BY <2>1, <2>2, <2>4, RecordOK
<1> QED BY <1>1, <1>2

-----------------------------------------------------------------------------
(* The actions                                                             *)

(* A client's new request.                                                  *)
LEMMA WorkerRequest ==
  ASSUME TypeOK, WorkerInv, NEW s \in Session, ClientRequest(s)
  PROVE  WorkerInv'
<1>f. /\ SessionTask(s, task[s]) /\ task[s] \in Task /\ rec[s] \in SessionRecord
      /\ WorkerOK(s, rec[s], task[s], vm[s], ToSet(allocations), crashes)
  BY SessionFacts
<1>0. task[s] = NoTask
  BY DEF ClientRequest, EnsureNoCreation, EnsureDirect, EnsurePark, NeedsWorker, ExecStart,
     PrepareStart, ApplyStart, KeepStartActive, KeepStart, DiscardStart, DestroyStart,
     CanStart, Locked
<1>n. task[s].pc \notin CreatingPcs /\ task[s].op # "discardResult"
  BY <1>0, NewTaskFields DEF CreatingPcs
<1>r. /\ Touch(rec[s]).state = rec[s].state /\ Touch(rec[s]).workerState = rec[s].workerState
      /\ Live(Touch(rec[s])) <=> Live(rec[s])
  BY <1>f, RecordFields
<1>p. ASSUME NEW o \in ClientOp \ {"discardResult"}, NEW p, p \notin {"sweep", "status", "unref"}
      PROVE  /\ SessionTask(s, Begin(o, p, s)) /\ \A r : SessionTask(s, BeginWith(o, p, s, r))
             /\ Begin(o, p, s).pc = p /\ Begin(o, p, s).op = o
             /\ \A r : BeginWith(o, p, s, r).pc = p /\ BeginWith(o, p, s, r).op = o
  BY <1>f, <1>p, SessionMoves, NewTaskFields
<1>u. UNCHANGED <<vm, allocations, crashes>>
  BY DEF ClientRequest, EnsureNoCreation, EnsureDirect, EnsurePark, ExecStart,
     PrepareStart, ApplyStart, KeepStartActive, KeepStart, DiscardStart, DestroyStart,
     workerVars, poolVars
<1>1. CASE rec' = [rec EXCEPT ![s] = Touch(@)] /\ UNCHANGED task
  BY <1>r, <1>u, <1>1, TouchOK
<1>2. CASE EnsureDirect(s) /\ Creatable(rec[s])
  <2> DEFINE r == MoveTo(rec[s], "CREATING_SANDBOX")
             k == Begin("ensureWorker", "creating", s)
  <2>1. rec' = [rec EXCEPT ![s] = r] /\ task' = [task EXCEPT ![s] = k]
    BY <1>2 DEF EnsureDirect
  <2>2. ~Live(rec[s]) /\ s \notin ToSet(allocations)
    BY <1>f, <1>2, CreatableFields DEF WorkerOK
  <2>3. r.state = "CREATING_SANDBOX" /\ ~Live(r)
    BY <1>f, <2>2, RecordFields
  <2>4. SessionTask(s, k) /\ k.pc = "creating" /\ k.op = "ensureWorker"
    BY <1>p, OpNames
  <2> HIDE DEF r, k
  <2>5. WorkerOK(s, r, k, vm[s], ToSet(allocations), crashes)
    BY <2>2, <2>3, <2>4 DEF WorkerOK, CreatingPcs
  <2> QED BY <1>u, <2>1, <2>4, <2>5, RecordOK
<1>3. CASE /\ rec' = [rec EXCEPT ![s] = Touch(@)]
           /\ task' = [task EXCEPT ![s] = Begin("ensureWorker", "parked", s)]
  <2> DEFINE r == Touch(rec[s])
             k == Begin("ensureWorker", "parked", s)
  <2>1. rec' = [rec EXCEPT ![s] = r] /\ task' = [task EXCEPT ![s] = k]
    BY <1>3
  <2>2. SessionTask(s, k) /\ k.pc = "parked" /\ k.op = "ensureWorker"
    BY <1>p, OpNames
  <2>3. r.state = rec[s].state /\ r.workerState = rec[s].workerState /\ (Live(r) <=> Live(rec[s]))
    BY <1>r
  <2> HIDE DEF r, k
  <2>4. WorkerOK(s, r, k, vm[s], ToSet(allocations), crashes)
    BY <1>f, <1>n, <2>2, <2>3, SameOK DEF CreatingPcs
  <2> QED BY <1>u, <2>1, <2>2, <2>4, RecordOK
<1>4. ASSUME NEW o \in {"exec", "keepResult", "destroyWorker"}, NEW p \in {"exec", "commit", "stop"},
             task' = [task EXCEPT ![s] = Begin(o, p, s)], UNCHANGED rec
      PROVE  WorkerInv'
  <2> DEFINE k == Begin(o, p, s)
  <2>0. o \in ClientOp \ {"discardResult"} /\ p \notin {"sweep", "status", "unref"} \cup CreatingPcs
    BY OpNames DEF CreatingPcs
  <2>1. SessionTask(s, k) /\ k.pc = p /\ k.op = o
    BY <1>p, <2>0
  <2>2. task' = [task EXCEPT ![s] = k]
    BY <1>4
  <2> HIDE DEF k
  <2> QED BY <1>4, <1>n, <1>u, <2>0, <2>1, <2>2, TaskOK
<1>5. CASE PrepareStart(s)
  <2> DEFINE k == BeginWith("prepareResult", "commit", s, rec[s])
  <2>0. "prepareResult" \in ClientOp \ {"discardResult"}
    BY OpNames
  <2>1. SessionTask(s, k) /\ k.pc = "commit" /\ k.op = "prepareResult"
    <3>1. k.pc = "commit" /\ k.op = "prepareResult" /\ k.sid = s /\ k.exported = FALSE
      BY NewTaskFields
    <3> HIDE DEF k
    <3> QED BY <2>0, <3>1 DEF SessionTask
  <2>2. task' = [task EXCEPT ![s] = k] /\ UNCHANGED rec
    BY <1>5 DEF PrepareStart
  <2> HIDE DEF k
  <2> QED BY <1>n, <1>u, <2>1, <2>2, TaskOK DEF CreatingPcs
<1>6. CASE ApplyStart(s)
  <2> DEFINE r == MoveTo(rec[s], "APPLY_PENDING")
             k == Begin("applyResult", "check", s)
  <2>1. rec' = [rec EXCEPT ![s] = r] /\ task' = [task EXCEPT ![s] = k]
        /\ rec[s].state = "RESULT_READY"
    BY <1>6 DEF ApplyStart, Moves
  <2>2. SessionTask(s, k) /\ k.pc = "check" /\ k.op = "applyResult"
    BY <1>p, OpNames
  <2>3. r.state = "APPLY_PENDING" /\ r.workerState = rec[s].workerState /\ (Live(r) <=> Live(rec[s]))
    BY <1>f, RecordFields
  <2> HIDE DEF r, k
  <2>4. WorkerOK(s, r, k, vm[s], ToSet(allocations), crashes)
    BY <1>f, <2>1, <2>2, <2>3, MovedOK DEF CreatingPcs
  <2> QED BY <1>u, <2>1, <2>2, <2>4, RecordOK
<1>7. CASE KeepStart(s)
  BY <1>f, <1>u, <1>7, KeepOK DEF KeepStart
<1>8. CASE DiscardStart(s)
  <2> DEFINE k == BeginWith("discardResult", "unref", s, rec[s])
  <2>1. task' = [task EXCEPT ![s] = k] /\ UNCHANGED rec /\ rec[s].state = "RESULT_READY"
    BY <1>8 DEF DiscardStart
  <2>2. SessionTask(s, k) /\ k.pc = "unref" /\ k.snap = rec[s]
    BY <1>f, SessionMoves, NewTaskFields
  <2>3. Live(rec[s]) \/ vm[s] = "absent"
    BY <1>f, <2>1 DEF WorkerOK
  <2> HIDE DEF k
  <2> QED BY <1>n, <1>u, <2>1, <2>2, <2>3, TaskOK DEF CreatingPcs
<1>9. CASE EnsureNoCreation(s) \/ EnsureDirect(s) \/ EnsurePark(s)
  BY <1>1, <1>2, <1>3, <1>9 DEF EnsureNoCreation, EnsureDirect, EnsurePark
<1>10. CASE ExecStart(s) \/ KeepStartActive(s) \/ DestroyStart(s)
  BY <1>4, <1>10 DEF ExecStart, KeepStartActive, DestroyStart
<1> QED BY <1>5, <1>6, <1>7, <1>8, <1>9, <1>10 DEF ClientRequest

(* The queue timer, and a disconnect that cancels a parked request.         *)
LEMMA WorkerUnpark ==
  ASSUME TypeOK, PoolInv, WorkerInv, NEW s \in Session, QueueTimeout(s) \/ CancelParked(s)
  PROVE  WorkerInv'
<1>f. /\ SessionTask(s, task[s]) /\ task[s] \in Task /\ rec[s] \in SessionRecord
      /\ WorkerOK(s, rec[s], task[s], vm[s], ToSet(allocations), crashes)
  BY SessionFacts
<1>p. task[s].pc = "parked" /\ task[s].pc \notin CreatingPcs
  BY DEF QueueTimeout, CancelParked, CreatingPcs
<1>n. /\ NoTask.pc \notin CreatingPcs /\ NoTask.op # "discardResult"
      /\ After(task[s]) = NoTask /\ SessionTask(s, NoTask)
  BY <1>f, NewTaskFields, SessionMoves DEF CreatingPcs
<1>1. CASE QueueTimeout(s)
  <2>1. /\ task' = [task EXCEPT ![s] = NoTask]
        /\ UNCHANGED <<rec, vm, allocations, crashes>>
    BY <1>1, <1>n DEF QueueTimeout, Finish, workerVars
  <2> QED BY <1>n, <1>p, <2>1, TaskOK
<1>2. CASE CancelParked(s)
  <2> DEFINE q == RemoveFirst(queue, s)
  <2>1. /\ DrainQueue(allocations, q, inFlight, rec, [task EXCEPT ![s] = NoTask])
        /\ rec' = DrainedRec(rec, Drained(allocations, q, inFlight))
        /\ vm' = vm /\ crashes' = crashes
    BY <1>2 DEF CancelParked, workerVars
  <2>2. /\ allocations \in Seq(Session) /\ inFlight \in Nat
        /\ q \in Seq(Session) /\ ToSet(q) = ToSet(queue) \ {s}
        /\ \A x \in ToSet(queue) : x \in Session /\ task[x].pc = "parked"
    BY PoolFacts
  <2> HIDE DEF q
  <2>3. AllParked(q, task) /\ s \notin ToSet(q) /\ ToSet(q) \subseteq Session
    BY <2>2 DEF AllParked
  <2>4. /\ OnlyFor(s, rec, task, vm, allocations) /\ IsInjective(allocations)
        /\ rec \in [Session -> SessionRecord]
    BY DEF OnlyFor, WorkerInv, TypeOK, PoolType
  <2>5. WorkerOK(s, rec[s], NoTask, vm[s], ToSet(allocations), crashes)
    BY <1>f, <1>n, <1>p, SameOK
  <2> QED BY <2>1, <2>2, <2>3, <2>4, <2>5, QuitOK
<1> QED BY <1>1, <1>2

(* Appending a session that is not in the pool.                             *)
LEMMA AppendOnce ==
  ASSUME NEW al \in Seq(Session), IsInjective(al), NEW s \in Session, s \notin ToSet(al)
  PROVE  /\ Append(al, s) \in Seq(Session) /\ IsInjective(Append(al, s))
         /\ ToSet(Append(al, s)) = ToSet(al) \cup {s}
<1> DEFINE b == Append(al, s)
<1>1. /\ b \in Seq(Session) /\ Len(b) = Len(al) + 1 /\ b[Len(al) + 1] = s
      /\ \A i \in 1..Len(al) : b[i] = al[i]
  OBVIOUS
<1>2. DOMAIN al = 1..Len(al) /\ DOMAIN b = 1..(Len(al) + 1) /\ Len(al) \in Nat
  BY <1>1
<1> HIDE DEF b
<1>3. \A i \in 1..Len(al) : al[i] # s
  BY <1>2 DEF ToSet
<1>4. IsInjective(b)
  <2>1. \A i, j \in 1..Len(al) : al[i] = al[j] => i = j
    BY <1>2 DEF IsInjective
  <2> SUFFICES ASSUME NEW i \in 1..(Len(al) + 1), NEW j \in 1..(Len(al) + 1), b[i] = b[j]
               PROVE  i = j
    BY <1>2 DEF IsInjective
  <2>2. i \in 1..Len(al) \/ i = Len(al) + 1
    BY <1>2
  <2>3. j \in 1..Len(al) \/ j = Len(al) + 1
    BY <1>2
  <2> QED BY <1>1, <1>3, <2>1, <2>2, <2>3
<1>5. ToSet(b) = ToSet(al) \cup {s}
  <2>1. \A i \in 1..(Len(al) + 1) : i \in 1..Len(al) \/ i = Len(al) + 1
    BY <1>2
  <2>2. ToSet(b) \subseteq ToSet(al) \cup {s}
    BY <1>1, <1>2, <2>1 DEF ToSet
  <2>3. ToSet(al) \subseteq ToSet(b)
    BY <1>1, <1>2 DEF ToSet
  <2>4. s \in ToSet(b)
    BY <1>1, <1>2 DEF ToSet
  <2> QED BY <2>2, <2>3, <2>4
<1> QED BY <1>1, <1>4, <1>5 DEF b

(* A step of a creation.                                                    *)
LEMMA WorkerCreation ==
  ASSUME TypeOK, PoolInv, WorkerInv, NEW s \in Session, CreationStep(s)
  PROVE  WorkerInv'
<1>f. /\ SessionTask(s, task[s]) /\ task[s] \in Task /\ rec[s] \in SessionRecord
      /\ WorkerOK(s, rec[s], task[s], vm[s], ToSet(allocations), crashes)
      /\ s \in Actor /\ s \notin Reaper
  BY SessionFacts, ConstantsAssumption
<1>p. task[s].pc \in CreationPcs /\ task[s] # NoTask /\ task[s].op # "discardResult"
  <2>1. task[s].pc \in CreationPcs
    BY DEF CreationStep, CreationEnds, CreateVM, CreateFails, WorkerReady, PrepFails,
       CreationFailed, CreationPcs
  <2> QED BY <1>f, <2>1, NewTaskFields DEF SessionTask, CreationPcs, ReleasePcs
<1>c. task[s].pc \in CreatingPcs => rec[s].state = "CREATING_SANDBOX" /\ ~Live(rec[s])
                                   /\ s \notin ToSet(allocations)
  BY <1>f DEF WorkerOK
<1>n. NoTask.pc \notin CreatingPcs /\ NoTask.op # "discardResult"
  BY NewTaskFields DEF CreatingPcs
<1>g. ASSUME NEW p \in CreationPcs
      PROVE  /\ SessionTask(s, At(task[s], p)) /\ At(task[s], p).pc = p
             /\ At(task[s], p).op # "discardResult"
  <2>1. p \notin {"sweep", "status", "unref"}
    BY DEF CreationPcs
  <2>2. SessionTask(s, At(task[s], p))
    BY <1>f, <1>p, <2>1, SessionMoves
  <2>3. At(task[s], p).pc = p /\ At(task[s], p).op = task[s].op
    BY <1>f, TaskFields
  <2> QED BY <1>p, <2>2, <2>3
<1>v. ASSUME NEW v, vm' = [vm EXCEPT ![s] = v], NEW r, rec' = [rec EXCEPT ![s] = r],
             NEW p \in CreationPcs, Goto(s, p), UNCHANGED <<allocations, crashes>>,
             \A k : k.pc = p /\ k.op # "discardResult"
                      => WorkerOK(s, r, k, v, ToSet(allocations), crashes)
      PROVE  WorkerInv'
  <2> DEFINE k == At(task[s], p)
  <2>1. task' = [task EXCEPT ![s] = k]
    BY <1>v DEF Goto
  <2>2. SessionTask(s, k) /\ k.pc = p /\ k.op # "discardResult"
    BY <1>g
  <2> HIDE DEF k
  <2>3. WorkerOK(s, r, IF s \in Session THEN k ELSE task[s], v, ToSet(allocations), crashes)
    BY <1>v, <2>2
  <2>4. allocations' = allocations /\ crashes' = crashes
    BY <1>v
  <2> QED BY <1>f, <1>v, <2>1, <2>2, <2>3, <2>4, QuietStep
<1>1. CASE CreateVM(s)
  <2>1. /\ task[s].pc = "creating" /\ vm' = [vm EXCEPT ![s] = "running"] /\ rec' = rec
        /\ Goto(s, "prepping") /\ UNCHANGED <<allocations, crashes>>
    BY <1>1 DEF CreateVM, poolVars
  <2>2. rec' = [rec EXCEPT ![s] = rec[s]]
    BY <2>1 DEF TypeOK, PoolType
  <2>3. ASSUME NEW k, k.pc = "prepping", k.op # "discardResult"
        PROVE  WorkerOK(s, rec[s], k, "running", ToSet(allocations), crashes)
    BY <1>c, <2>1, <2>3 DEF WorkerOK, CreatingPcs
  <2>4. "prepping" \in CreationPcs
    BY DEF CreationPcs
  <2> QED BY <1>v, <2>1, <2>2, <2>3, <2>4
<1>2. CASE CreateFails(s) \/ PrepFails(s)
  <2>1. /\ task[s].pc \in CreatingPcs /\ rec' = rec
        /\ Goto(s, "cleaning") /\ UNCHANGED <<allocations, crashes>>
    BY <1>2 DEF CreateFails, PrepFails, poolVars, CreatingPcs
  <2>2. rec' = [rec EXCEPT ![s] = rec[s]]
    BY <2>1 DEF TypeOK, PoolType
  <2>3. PICK v : vm' = [vm EXCEPT ![s] = v]
    <3>1. vm = [vm EXCEPT ![s] = vm[s]]
      BY DEF TypeOK, WorkerType
    <3> QED BY <1>2, <3>1 DEF CreateFails, PrepFails, workerVars
  <2>4. ASSUME NEW k, k.pc = "cleaning", k.op # "discardResult"
        PROVE  WorkerOK(s, rec[s], k, v, ToSet(allocations), crashes)
    BY <1>c, <2>1, <2>4 DEF WorkerOK, CreatingPcs
  <2>5. "cleaning" \in CreationPcs
    BY DEF CreationPcs
  <2> QED BY <1>v, <2>1, <2>2, <2>3, <2>4, <2>5
<1>3. CASE CreationFailed(s)
  <2>1. task[s].pc = "cleaning" /\ Goto(s, "settling") /\ UNCHANGED <<allocations, crashes>>
    BY <1>3 DEF CreationFailed, poolVars
  <2>2. PICK v : vm' = [vm EXCEPT ![s] = v]
    BY <1>3 DEF CreationFailed
  <2>3. rec[s].state = "CREATING_SANDBOX" /\ s \notin ToSet(allocations)
    BY <1>c, <2>1 DEF CreatingPcs
  <2> DEFINE r == FailClosed(rec[s])
  <2>4. rec' = [rec EXCEPT ![s] = r]
    BY <1>3, <2>3 DEF CreationFailed, Moves, LegalTransitions
  <2>5. r.state = "FAILED_CLOSED" /\ ~Live(r) /\ r.workerState = "FAILED"
    BY <1>f, RecordFields
  <2> HIDE DEF r
  <2>6. ASSUME NEW k, k.pc = "settling", k.op # "discardResult"
        PROVE  WorkerOK(s, r, k, v, ToSet(allocations), crashes)
    BY <2>3, <2>5, <2>6 DEF WorkerOK, CreatingPcs
  <2>7. "settling" \in CreationPcs
    BY DEF CreationPcs
  <2> QED BY <1>v, <2>1, <2>2, <2>4, <2>6, <2>7
<1>t. /\ rec \in [Session -> SessionRecord] /\ allocations \in Seq(Session)
      /\ IsInjective(allocations)
  BY DEF TypeOK, PoolType, WorkerInv
<1>4. CASE CreationEnds(s)
  <2>1. /\ task[s].pc = "settling" /\ EndCreation(s, allocations, rec)
        /\ vm' = vm /\ crashes' = crashes
    BY <1>4 DEF CreationEnds, workerVars
  <2>2. WorkerOK(s, rec[s], NoTask, vm[s], ToSet(allocations), crashes)
    BY <1>f, <1>n, <2>1, SameOK DEF CreatingPcs
  <2>3. OnlyFor(s, rec, task, vm, allocations)
    BY DEF OnlyFor
  <2> QED BY <1>p, <1>t, <2>1, <2>2, <2>3, EndOK
<1>5. CASE WorkerReady(s)
  <2> DEFINE rs == [rec EXCEPT ![s] = WorkerActive(rec[s])]
             al == Append(allocations, s)
  <2>1. /\ task[s].pc = "prepping" /\ EndCreation(s, al, rs) /\ vm' = vm /\ crashes' = crashes
    BY <1>5 DEF WorkerReady, workerVars
  <2>2. s \notin ToSet(allocations)
    BY <1>c, <2>1 DEF CreatingPcs
  <2>3. al \in Seq(Session) /\ IsInjective(al) /\ ToSet(al) = ToSet(allocations) \cup {s}
    BY <1>t, <2>2, AppendOnce
  <2>4. /\ rs \in [Session -> SessionRecord] /\ rs[s] = WorkerActive(rec[s])
        /\ \A x \in Session \ {s} : rs[x] = rec[x]
    BY <1>t, <1>f, RecordType
  <2>5. rs[s].state = "SANDBOX_ACTIVE" /\ Live(rs[s]) /\ rs[s].workerState = "ACTIVE"
    BY <1>f, <2>4, RecordFields
  <2> HIDE DEF rs, al
  <2>6. WorkerOK(s, rs[s], NoTask, vm[s], ToSet(al), crashes)
    BY <1>n, <2>3, <2>5 DEF WorkerOK
  <2>7. OnlyFor(s, rs, task, vm, al)
    BY <2>3, <2>4 DEF OnlyFor
  <2> QED BY <1>p, <2>1, <2>3, <2>4, <2>6, <2>7, EndOK
<1> QED BY <1>1, <1>2, <1>3, <1>4, <1>5 DEF CreationStep

(* A step of a client's operation outside of a creation.                    *)
LEMMA WorkerClient ==
  ASSUME TypeOK, PoolInv, WorkerInv, NEW s \in Session, ClientStep(s)
  PROVE  WorkerInv'
<1>f. /\ SessionTask(s, task[s]) /\ task[s] \in Task /\ rec[s] \in SessionRecord
      /\ WorkerOK(s, rec[s], task[s], vm[s], ToSet(allocations), crashes)
      /\ s \in Actor /\ s \notin Reaper
  BY SessionFacts, ConstantsAssumption
<1>p. /\ task[s].pc \in {"exec", "fetch", "unref", "check", "apply"}
      /\ task[s].pc \notin CreatingPcs /\ task[s].pc \in OnSession
      /\ task[s] # NoTask
  <2>1. task[s].pc \in {"exec", "fetch", "unref", "check", "apply"}
    BY DEF ClientStep, ExecDone, ExecFails, PrepareDone, KeepExported, DiscardUnref,
       DiscardFails, ApplyPatch, ApplyRefused, ApplyThrows, ApplyDone
  <2> QED BY <2>1, NewTaskFields DEF CreatingPcs, OnSession
<1>d. task[s].op = "discardResult" => task[s].pc = "unref"
  BY <1>f, <1>p DEF SessionTask, ReleasePcs
<1>n. /\ NoTask.pc \notin CreatingPcs /\ NoTask.op # "discardResult"
      /\ After(task[s]) = NoTask /\ SessionTask(s, NoTask)
  BY <1>f, NewTaskFields, SessionMoves DEF CreatingPcs
<1>1. ASSUME Finish(s), UNCHANGED <<rec, vm, allocations, crashes>> PROVE WorkerInv'
  <2>1. task' = [task EXCEPT ![s] = NoTask]
    BY <1>1, <1>n DEF Finish
  <2> QED BY <1>1, <1>n, <1>p, <2>1, TaskOK
<1>2. ASSUME Finish(s), NEW r, rec' = [rec EXCEPT ![s] = r],
             r.state = rec[s].state, r.workerState = rec[s].workerState,
             Live(r) <=> Live(rec[s]), UNCHANGED <<vm, allocations, crashes>>
      PROVE  WorkerInv'
  <2>1. task' = [task EXCEPT ![s] = NoTask]
    BY <1>2, <1>n DEF Finish
  <2>2. WorkerOK(s, r, NoTask, vm[s], ToSet(allocations), crashes)
    BY <1>f, <1>2, <1>n, <1>p, SameOK
  <2> QED BY <1>2, <1>n, <2>1, <2>2, RecordOK
<1>3. ASSUME Finish(s), NEW r, rec' = [rec EXCEPT ![s] = r],
             rec[s].state \in {"SANDBOX_ACTIVE", "APPLY_PENDING"}, r.state = "RESULT_READY",
             r.workerState = rec[s].workerState, Live(r) <=> Live(rec[s]),
             UNCHANGED <<vm, allocations, crashes>>
      PROVE  WorkerInv'
  <2>1. task' = [task EXCEPT ![s] = NoTask]
    BY <1>3, <1>n DEF Finish
  <2>2. WorkerOK(s, r, NoTask, vm[s], ToSet(allocations), crashes)
    BY <1>f, <1>3, <1>n, MovedOK
  <2> QED BY <1>3, <1>n, <2>1, <2>2, RecordOK
<1>r. /\ Touch(rec[s]).state = rec[s].state /\ Touch(rec[s]).workerState = rec[s].workerState
      /\ Live(Touch(rec[s])) <=> Live(rec[s])
      /\ \A x \in {MoveTo(rec[s], "RESULT_READY"), WithResult(rec[s], "RESULT_READY")} :
           /\ x.state = "RESULT_READY" /\ x.workerState = rec[s].workerState
           /\ Live(x) <=> Live(rec[s])
  BY <1>f, RecordFields
<1>4. CASE ExecFails(s) \/ DiscardFails(s) \/ ApplyThrows(s)
  <2>1. Finish(s) /\ UNCHANGED <<rec, vm, allocations, crashes>>
    BY <1>4 DEF ExecFails, DiscardFails, ApplyThrows, workerVars, poolVars
  <2> QED BY <1>1, <2>1
<1>5. CASE ExecDone(s)
  <2>1. /\ Finish(s) /\ rec' = [rec EXCEPT ![s] = Touch(rec[s])]
        /\ UNCHANGED <<vm, allocations, crashes>>
    BY <1>5 DEF ExecDone, poolVars
  <2> QED BY <1>2, <1>r, <2>1
<1>6. CASE PrepareDone(s)
  <2>1. Finish(s) /\ UNCHANGED <<vm, allocations, crashes>>
    BY <1>6 DEF PrepareDone, workerVars, poolVars
  <2>2. \/ rec' = [rec EXCEPT ![s] = Touch(rec[s])]
        \/ /\ rec[s].state = "SANDBOX_ACTIVE"
           /\ rec' = [rec EXCEPT ![s] = WithResult(rec[s], "RESULT_READY")]
        \/ rec' = [rec EXCEPT ![s] = rec[s]]
    BY <1>6 DEF PrepareDone, Moves
  <2>3. CASE rec' = [rec EXCEPT ![s] = Touch(rec[s])]
    BY <1>2, <1>r, <2>1, <2>3
  <2>4. CASE /\ rec[s].state = "SANDBOX_ACTIVE"
             /\ rec' = [rec EXCEPT ![s] = WithResult(rec[s], "RESULT_READY")]
    BY <1>3, <1>r, <2>1, <2>4
  <2>5. CASE rec' = [rec EXCEPT ![s] = rec[s]]
    BY <1>2, <2>1, <2>5
  <2> QED BY <2>2, <2>3, <2>4, <2>5
<1>7. CASE ApplyRefused(s)
  <2>1. /\ Finish(s) /\ rec' = [rec EXCEPT ![s] = MoveTo(rec[s], "RESULT_READY")]
        /\ UNCHANGED <<vm, allocations, crashes>> /\ rec[s].state = "APPLY_PENDING"
    BY <1>7 DEF ApplyRefused, Moves, workerVars, poolVars
  <2> QED BY <1>3, <1>r, <2>1
<1>8. CASE KeepExported(s)
  <2>1. UNCHANGED <<vm, allocations, crashes>>
    BY <1>8 DEF KeepExported, workerVars, poolVars
  <2>2. CASE Moves(rec[s], "SANDBOX_ACTIVE", "RESULT_READY")
    <3> DEFINE r == WithResult(rec[s], "RESULT_READY")
    <3>1. KeepRelease(s, r) /\ rec[s].state = "SANDBOX_ACTIVE" /\ r \in SessionRecord
      BY <1>f, <1>8, <2>2, RecordType, Names DEF KeepExported, Moves
    <3>2. /\ r.state = "RESULT_READY" /\ r.workerState = rec[s].workerState
          /\ Live(r) <=> Live(rec[s])
      BY <1>r
    <3> HIDE DEF r
    <3> QED BY <2>1, <3>1, <3>2, KeepOK
  <2>3. CASE ~Moves(rec[s], "SANDBOX_ACTIVE", "RESULT_READY")
    BY <1>1, <1>8, <2>1, <2>3 DEF KeepExported
  <2> QED BY <2>2, <2>3
<1>9. CASE ApplyPatch(s)
  <2> DEFINE k == AtWith(task[s], "apply", ref[s])
  <2>1. task' = [task EXCEPT ![s] = k] /\ UNCHANGED <<rec, vm, allocations, crashes>>
    BY <1>9 DEF ApplyPatch, workerVars, poolVars
  <2>2. k.pc = "apply" /\ k.op = task[s].op /\ task[s].op # "discardResult"
    BY <1>f, <1>d, <1>9, TaskFields DEF ApplyPatch
  <2>3. SessionTask(s, k)
    BY <1>f, <1>p, <2>2, SessionMoves
  <2> HIDE DEF k
  <2> QED BY <1>p, <2>1, <2>2, <2>3, TaskOK DEF CreatingPcs
<1>10. CASE DiscardUnref(s)
  <2>1. /\ task[s].pc = "unref" /\ UNCHANGED <<vm, crashes>>
    BY <1>10 DEF DiscardUnref, workerVars
  <2>2. CASE Live(task[s].snap)
    <3> DEFINE k == At(task[s], "stop")
    <3>1. task' = [task EXCEPT ![s] = k] /\ UNCHANGED <<rec, vm, allocations, crashes>>
      BY <1>10, <2>1, <2>2 DEF DiscardUnref, Goto, poolVars
    <3>2. k.pc = "stop" /\ k.op = task[s].op /\ k.snap = task[s].snap
      BY <1>f, TaskFields
    <3>3. SessionTask(s, k)
      BY <1>f, <1>p, SessionMoves DEF ReleasePcs
    <3>4. task[s].op = "discardResult" => rec[s].state = "RESULT_READY"
      BY <1>f DEF WorkerOK
    <3> HIDE DEF k
    <3> QED BY <1>p, <2>2, <3>1, <3>2, <3>3, <3>4, TaskOK DEF CreatingPcs
  <2>3. CASE ~Live(task[s].snap)
    <3>1. FreeAllocation(s, task[s])
      BY <1>10, <2>3 DEF DiscardUnref
    <3>2. task[s].op = "discardResult"
      BY <1>f, <2>1 DEF SessionTask
    <3>3. vm[s] = "absent"
      BY <1>f, <2>3, <3>2 DEF WorkerOK
    <3>4. task[s].sid = s
      BY <1>f, <1>p DEF SessionTask
    <3>5. vm' = [vm EXCEPT ![task[s].sid] = "absent"]
      BY <2>1, <3>3, <3>4 DEF TypeOK, WorkerType
    <3>6. crashes' = crashes
      BY <2>1
    <3> QED BY <1>f, <1>p, <3>1, <3>5, <3>6, FreeOK
  <2> QED BY <2>2, <2>3
<1>11. CASE ApplyDone(s)
  <2> DEFINE r == WithResult(rec[s], "APPLIED")
  <2>1. /\ task[s].pc = "apply" /\ rec[s].state = "APPLY_PENDING"
        /\ UNCHANGED <<vm, crashes>>
    BY <1>11 DEF ApplyDone, Moves, workerVars
  <2>2. /\ r.state = "APPLIED" /\ r.workerState = rec[s].workerState
        /\ Live(r) <=> Live(rec[s])
    BY <1>f, RecordFields
  <2>t. r \in SessionRecord
    BY <1>f, RecordType, Names
  <2>3. CASE Live(r)
    <3> DEFINE k == At(task[s], "stop")
    <3>1. /\ task' = [task EXCEPT ![s] = k] /\ rec' = [rec EXCEPT ![s] = r]
          /\ UNCHANGED <<vm, allocations, crashes>>
      BY <1>11, <2>1, <2>3 DEF ApplyDone, Goto, poolVars
    <3>2. k.pc = "stop" /\ k.op # "discardResult"
      BY <1>f, <1>d, <2>1, TaskFields
    <3>3. SessionTask(s, k)
      BY <1>f, <1>p, SessionMoves DEF ReleasePcs
    <3> HIDE DEF k, r
    <3>4. WorkerOK(s, r, k, vm[s], ToSet(allocations), crashes)
      BY <1>f, <2>1, <2>2, <3>2, MovedOK DEF CreatingPcs
    <3> QED BY <3>1, <3>3, <3>4, RecordOK
  <2>4. CASE ~Live(r)
    <3> DEFINE rs == [rec EXCEPT ![s] = Destroyed(r)]
               al == RemoveFirst(allocations, s)
    <3>1. /\ DrainQueue(al, queue, inFlight, rs, [task EXCEPT ![s] = NoTask])
          /\ rec' = DrainedRec(rs, Drained(al, queue, inFlight))
      BY <1>11, <2>4 DEF ApplyDone
    <3>2. /\ al \in Seq(Session) /\ IsInjective(al) /\ ToSet(al) = ToSet(allocations) \ {s}
          /\ queue \in Seq(Session) /\ inFlight \in Nat
          /\ \A x \in ToSet(queue) : x \in Session /\ task[x].pc = "parked"
      BY PoolFacts
    <3>3. AllParked(queue, task) /\ s \notin ToSet(queue) /\ ToSet(queue) \subseteq Session
      BY <2>1, <3>2 DEF AllParked
    <3>4. Destroyed(r).state = "APPLIED" /\ ~Live(Destroyed(r)) /\ Destroyed(r) \in SessionRecord
      BY <2>2, <2>t, RecordFields, RecordType
    <3>5. /\ rs \in [Session -> SessionRecord] /\ rs[s] = Destroyed(r)
          /\ \A x \in Session \ {s} : rs[x] = rec[x]
      BY <3>4 DEF TypeOK, PoolType
    <3>6. vm[s] = "absent"
      BY <1>f, <2>1, <2>2, <2>4 DEF WorkerOK
    <3> HIDE DEF rs, al, r
    <3>7. WorkerOK(s, rs[s], NoTask, vm[s], ToSet(al), crashes)
      BY <1>n, <3>2, <3>4, <3>5, <3>6 DEF WorkerOK
    <3>8. OnlyFor(s, rs, task, vm, al)
      BY <3>2, <3>5 DEF OnlyFor
    <3>9. vm' = vm /\ crashes' = crashes
      BY <2>1
    <3> QED BY <3>1, <3>2, <3>3, <3>5, <3>7, <3>8, <3>9, QuitOK
  <2> QED BY <2>3, <2>4
<1> QED BY <1>4, <1>5, <1>6, <1>7, <1>8, <1>9, <1>10, <1>11 DEF ClientStep

(* A step of runPrepare or of releaseWorker.                                *)
LEMMA WorkerShared ==
  ASSUME TypeOK, PoolInv, WorkerInv, NEW a \in Actor, SharedStep(a)
  PROVE  WorkerInv'
<1> DEFINE k == task[a]
           t == k.sid
<1>p. /\ k.pc \in ExportPcs \cup ReleasePcs
      /\ k.pc \in OnSession /\ k.pc \notin CreatingPcs \cup {"unref", "sweep", "status"}
  <2>1. k.pc \in ExportPcs \cup ReleasePcs
    BY DEF SharedStep, CommitTree, ExportBundle, ExportFails, StopVM, RemoveVM, RemoveFails,
       ExportPcs, ReleasePcs
  <2> QED BY <2>1 DEF ExportPcs, ReleasePcs, OnSession, CreatingPcs
<1>a. /\ k \in Task /\ t \in Session /\ (a \in Session => t = a)
      /\ a \in Session \/ (a \in Reaper /\ ReaperTask(k) /\ k.op \notin ClientOp)
  BY <1>p, ActorFacts
<1>s. /\ rec[t] \in SessionRecord /\ task[t] \in Task /\ SessionTask(t, task[t])
      /\ WorkerOK(t, rec[t], task[t], vm[t], ToSet(allocations), crashes)
  BY <1>a, SessionFacts
<1>c. a \in Session => /\ k = task[t] /\ k # NoTask /\ k.exported = FALSE /\ k.op \in ClientOp
                       /\ After(k) = NoTask /\ SessionTask(a, NoTask)
  <2>1. k # NoTask
    BY <1>p, NewTaskFields DEF ExportPcs, ReleasePcs
  <2>2. After(task[t]) = NoTask /\ SessionTask(t, NoTask)
    BY <1>s, SessionMoves
  <2>3. task[t] # NoTask => task[t].op \in ClientOp /\ task[t].exported = FALSE
    BY <1>s DEF SessionTask
  <2>4. a \in Session => k = task[t] /\ t = a
    BY <1>a
  <2> HIDE DEF k, t
  <2> QED BY <2>1, <2>2, <2>3, <2>4
<1>n. NoTask.pc \notin CreatingPcs /\ NoTask.op # "discardResult"
  BY NewTaskFields DEF CreatingPcs
<1>x. a \in Reaper <=> a \notin Session
  BY ConstantsAssumption DEF Actor
<1>v. vm = [vm EXCEPT ![t] = vm[t]] /\ rec = [rec EXCEPT ![t] = rec[t]]
  BY <1>a DEF TypeOK, PoolType, WorkerType
<1> HIDE DEF k, t
(* A task that goes on to p, and a VM that at most is stopped or removed.   *)
<1>1. ASSUME NEW p \in ExportPcs \cup ReleasePcs, Goto(a, p),
             p \in ExportPcs => k.pc \in ExportPcs, NEW v, vm' = [vm EXCEPT ![t] = v],
             v = "absent" \/ vm[t] # "absent", UNCHANGED <<rec, allocations, crashes>>
      PROVE  WorkerInv'
  <2> DEFINE j == At(k, p)
             r == rec[t]
  <2>1. /\ task' = [task EXCEPT ![a] = j] /\ rec' = [rec EXCEPT ![t] = r]
        /\ allocations' = allocations /\ crashes' = crashes
    BY <1>1, <1>v DEF Goto, k
  <2>2. j.pc = p /\ j.op = k.op /\ j.snap = k.snap
    BY <1>a, TaskFields
  <2>3. a \in Session => a = t /\ SessionTask(a, j)
    <3>1. ASSUME a \in Session PROVE SessionTask(a, j)
      <4>1. k.op = "discardResult" => k.pc \in ReleasePcs
        BY <1>p, <1>c, <1>s, <3>1 DEF SessionTask
      <4>2. p \notin {"sweep", "status", "unref"} /\ ExportPcs \cap ReleasePcs = {}
        BY DEF ExportPcs, ReleasePcs
      <4>3. k.op = "discardResult" => p \in ReleasePcs
        BY <1>1, <4>1, <4>2
      <4> QED BY <1>a, <1>c, <1>s, <3>1, <4>2, <4>3, SessionMoves
    <3> QED BY <1>a, <3>1
  <2>4. a \in Reaper => ReaperTask(j)
    <3>1. ASSUME a \in Reaper PROVE ReaperTask(j)
      <4>1. p \in ExportPcs => k.op \in ExportFirst
        BY <1>1, <1>a, <1>x, <3>1 DEF ReaperTask
      <4> QED BY <1>a, <1>x, <3>1, <4>1, ReaperMoves
    <3> QED BY <3>1
  <2>5. WorkerOK(t, r, task[t], v, ToSet(allocations), crashes)
    BY <1>1, <1>s, LessOK
  <2>6. WorkerOK(t, r, IF a \in Session THEN j ELSE task[t], v, ToSet(allocations), crashes)
    <3>1. ASSUME a \in Session PROVE WorkerOK(t, r, j, v, ToSet(allocations), crashes)
      <4>1. p \notin CreatingPcs
        BY DEF ExportPcs, ReleasePcs, CreatingPcs
      <4>2. k.op = "discardResult" => Live(k.snap)
        BY <1>c, <1>p, <1>s, <3>1 DEF WorkerOK
      <4> HIDE DEF j, r
      <4> QED BY <1>c, <1>p, <2>2, <2>5, <3>1, <4>1, <4>2, SameOK
    <3> QED BY <2>5, <3>1
  <2> HIDE DEF j, r
  <2> QED BY <1>1, <1>a, <2>1, <2>3, <2>4, <2>6, QuietStep
(* An export that failed.                                                   *)
<1>2. CASE ExportFails(a)
  <2> DEFINE j == After(k)
             r == rec[t]
             v == vm[t]
  <2>1. /\ task' = [task EXCEPT ![a] = j] /\ rec' = [rec EXCEPT ![t] = r]
        /\ vm' = [vm EXCEPT ![t] = v] /\ allocations' = allocations /\ crashes' = crashes
    BY <1>2, <1>v DEF ExportFails, Finish, k, workerVars, poolVars
  <2>2. (a \in Session => a = t /\ SessionTask(a, j)) /\ (a \in Reaper => ReaperTask(j))
    BY <1>a, <1>c, <1>x, ReaperMoves
  <2>3. WorkerOK(t, r, IF a \in Session THEN j ELSE task[t], v, ToSet(allocations), crashes)
    <3>1. ASSUME a \in Session PROVE WorkerOK(t, r, NoTask, v, ToSet(allocations), crashes)
      BY <1>c, <1>n, <1>p, <1>s, <3>1, SameOK
    <3> QED BY <1>c, <1>s, <3>1
  <2> HIDE DEF j, r, v
  <2> QED BY <1>a, <2>1, <2>2, <2>3, QuietStep
<1>3. CASE CommitTree(a) \/ ExportBundle(a)
  <2>1. PICK p \in {"bundle", "fetch"} : Goto(a, p)
    BY <1>3 DEF CommitTree, ExportBundle
  <2>2. p \in ExportPcs /\ k.pc \in ExportPcs
    BY <1>3 DEF CommitTree, ExportBundle, k, ExportPcs
  <2>3. UNCHANGED <<vm, rec, allocations, crashes>>
    BY <1>3 DEF CommitTree, ExportBundle, workerVars, poolVars
  <2> DEFINE v == vm[t]
  <2>4. vm' = [vm EXCEPT ![t] = v] /\ (v = "absent" \/ vm[t] # "absent")
    BY <1>v, <2>3
  <2> HIDE DEF v
  <2> QED BY <1>1, <2>1, <2>2, <2>3, <2>4
<1>4. CASE StopVM(a)
  <2>1. Goto(a, "remove") /\ UNCHANGED <<rec, allocations, crashes>>
    BY <1>4 DEF StopVM, poolVars
  <2>2. PICK v : vm' = [vm EXCEPT ![t] = v] /\ (v = "absent" \/ vm[t] # "absent")
    BY <1>4, <1>v DEF StopVM, k, t
  <2>3. "remove" \in ReleasePcs /\ "remove" \notin ExportPcs
    BY DEF ExportPcs, ReleasePcs
  <2> QED BY <1>1, <2>1, <2>2, <2>3
<1>5. CASE RemoveVM(a)
  <2>1. FreeAllocation(a, task[a]) /\ vm' = [vm EXCEPT ![task[a].sid] = "absent"]
    BY <1>5 DEF RemoveVM, DropVM
  <2>2. task[a].pc \in OnSession /\ crashes' = crashes
    BY <1>5, <1>p DEF RemoveVM, k
  <2> QED BY <2>1, <2>2, FreeOK
<1>6. CASE RemoveFails(a)
  <2>1. UNCHANGED <<allocations, crashes>>
    BY <1>6 DEF RemoveFails, poolVars
  <2>2. PICK v : vm' = [vm EXCEPT ![t] = v] /\ (v = "absent" \/ vm[t] # "absent")
    <3>1. vm' = vm \/ vm' = [vm EXCEPT ![t] = "absent"]
      BY <1>6 DEF RemoveFails, DropVM, workerVars, k, t
    <3> QED BY <1>v, <3>1
  <2>3. CASE task[a].pc = "remove"
    <3>1. Goto(a, "retry") /\ UNCHANGED rec
      BY <1>6, <2>3 DEF RemoveFails
    <3>2. "retry" \in ReleasePcs /\ "retry" \notin ExportPcs
      BY DEF ExportPcs, ReleasePcs
    <3> QED BY <1>1, <2>1, <2>2, <3>1, <3>2
  <2>4. CASE task[a].pc # "remove"
    <3> DEFINE j == After(k)
               r == Retained(k, rec[t])
    <3>1. /\ task' = [task EXCEPT ![a] = j] /\ rec' = [rec EXCEPT ![t] = r]
          /\ vm' = [vm EXCEPT ![t] = v] /\ allocations' = allocations /\ crashes' = crashes
      BY <1>6, <2>1, <2>2, <2>4 DEF RemoveFails, Finish, k, t
    <3>2. (a \in Session => a = t /\ SessionTask(a, j)) /\ (a \in Reaper => ReaperTask(j))
      BY <1>a, <1>c, <1>x, ReaperMoves
    <3>3. WorkerOK(t, rec[t], task[t], v, ToSet(allocations), crashes)
      BY <1>s, <2>2, LessOK
    <3>4. k.pc \in ReleasePcs
      BY <1>6 DEF RemoveFails, k, ReleasePcs
    <3>5. WorkerOK(t, r, IF k.op \in ClientOp THEN NoTask ELSE task[t], v, ToSet(allocations),
                   crashes)
      BY <1>a, <1>c, <1>s, <3>3, <3>4, RetainedOK
    <3>6. WorkerOK(t, r, IF a \in Session THEN j ELSE task[t], v, ToSet(allocations), crashes)
      BY <1>a, <1>c, <3>5
    <3> HIDE DEF j, r
    <3> QED BY <1>a, <3>1, <3>2, <3>6, QuietStep
  <2> QED BY <2>3, <2>4
<1> QED BY <1>2, <1>3, <1>4, <1>5, <1>6 DEF SharedStep

(* A step of the reaper, before it stops a worker.                          *)
LEMMA WorkerReaper ==
  ASSUME TypeOK, WorkerInv, NEW r \in Reaper,
         SweepStart(r) \/ ReaperStep(r) \/ \E s \in Session : DisconnectReap(r, s)
  PROVE  WorkerInv'
<1>r. r \in Actor /\ r \notin Session /\ task[r] \in Task /\ ReaperTask(task[r])
  BY ActorFacts, ConstantsAssumption DEF Actor
<1>u. UNCHANGED <<rec, vm, allocations, crashes>>
  BY DEF SweepStart, ReaperStep, SweepResume, StatusClean, StatusDirty, ReapExported,
     DisconnectReap, workerVars, poolVars
<1>1. \E k : task' = [task EXCEPT ![r] = k] /\ ReaperTask(k)
  <2>1. CASE SweepStart(r)
    <3>1. Phase("sweepUnfinished") \in Task /\ Phase("sweepUnfinished").op \in SweepOp
      BY TaskType, NewTaskFields DEF Phase, Listed, SweepOp
    <3>2. PICK k \in Resume(Phase("sweepUnfinished")) : task' = [task EXCEPT ![r] = k]
      BY <2>1 DEF SweepStart
    <3> QED BY <3>1, <3>2, ReaperResumes
  <2>2. CASE SweepResume(r)
    <3>1. PICK k \in Resume(task[r]) : task' = [task EXCEPT ![r] = k]
      BY <2>2 DEF SweepResume
    <3>2. task[r].op \in SweepOp
      BY <1>r, <2>2 DEF SweepResume, ReaperTask
    <3> QED BY <1>r, <3>1, <3>2, ReaperResumes
  <2>3. CASE \E s \in Session : DisconnectReap(r, s)
    BY <1>r, <2>3, ReaperMoves DEF DisconnectReap
  <2>4. CASE StatusClean(r)
    BY <1>r, <2>4, ReaperMoves DEF StatusClean, ReleasePcs
  <2>5. CASE StatusDirty(r)
    <3>1. task[r].op \in ExportFirst
      BY <1>r, <2>5 DEF StatusDirty, ReaperTask
    <3>2. "commit" \in ExportPcs
      BY DEF ExportPcs
    <3> QED BY <1>r, <2>5, <3>1, <3>2, ReaperMoves DEF StatusDirty, Finish
  <2>6. CASE ReapExported(r)
    BY <1>r, <2>6, ReaperMoves DEF ReapExported
  <2> QED BY <2>1, <2>2, <2>3, <2>4, <2>5, <2>6 DEF ReaperStep
<1>2. PICK k : task' = [task EXCEPT ![r] = k] /\ ReaperTask(k)
  BY <1>1
<1>3. ActorInv'
  BY <1>2, <1>r, ActorStep DEF WorkerInv, TypeOK, PoolType
<1>4. \A s \in Session : task'[s] = task[s]
  BY <1>2, <1>r DEF TypeOK, PoolType, Actor
<1> QED BY <1>3, <1>4, <1>u DEF WorkerInv, WorkersOK

(* A crash forgets the tasks and the pool; a VM appears only for a creation *)
(* that was under way.                                                      *)
LEMMA WorkerCrash ==
  ASSUME TypeOK, WorkerInv, Crash
  PROVE  WorkerInv'
<1>1. /\ crashes' = crashes + 1 /\ allocations' = <<>> /\ rec' = rec
      /\ \A a \in Actor : task'[a] = NoTask
  BY DEF Crash
<1>2. crashes' # 0
  BY <1>1 DEF TypeOK
<1>3. ToSet(allocations') = {} /\ IsInjective(allocations')
  BY <1>1 DEF ToSet, IsInjective
<1>4. ActorInv'
  <2>1. \A s : SessionTask(s, NoTask)
    BY NewTaskFields DEF SessionTask
  <2>2. ReaperTask(NoTask)
    BY NewTaskFields DEF ReaperTask, ExportPcs
  <2> QED BY <1>1, <2>1, <2>2 DEF ActorInv, Actor
<1>5. ASSUME NEW s \in Session, vm[s] = "absent", vm'[s] # "absent"
      PROVE  rec[s].state = "CREATING_SANDBOX"
  <2>1. PICK b \in Actor : task[b].sid = s /\ task[b].pc = "creating"
    BY <1>5 DEF Crash, LandsOn, TypeOK, WorkerType
  <2>2. b \in Session
    BY <2>1, ActorFacts DEF ReaperTask, ExportPcs, ReleasePcs
  <2>3. task[b].sid = b
    BY <2>1, <2>2, SessionFacts, NewTaskFields
  <2> QED BY <2>1, <2>2, <2>3, SessionFacts DEF WorkerOK, CreatingPcs
<1>6. ASSUME NEW s \in Session
      PROVE  WorkerOK(s, rec'[s], task'[s], vm'[s], ToSet(allocations'), crashes')
  <2>1. WorkerOK(s, rec[s], task[s], vm[s], ToSet(allocations), crashes)
    BY SessionFacts
  <2>2. task'[s].pc = "idle" /\ task'[s].op = "none"
    BY <1>1, NewTaskFields DEF Actor
  <2>3. CASE vm'[s] # "absent" /\ vm[s] = "absent"
    BY <1>1, <1>2, <1>3, <1>5, <2>1, <2>2, <2>3 DEF WorkerOK, CreatingPcs
  <2>4. CASE vm'[s] = "absent" \/ vm[s] # "absent"
    BY <1>1, <1>2, <1>3, <2>1, <2>2, <2>4 DEF WorkerOK, CreatingPcs
  <2> QED BY <2>3, <2>4
<1> QED BY <1>3, <1>4, <1>6 DEF WorkerInv, WorkersOK

-----------------------------------------------------------------------------
(* The theorems                                                            *)

LEMMA WorkerInit == Init => WorkerInv
<1> SUFFICES ASSUME Init PROVE WorkerInv
  OBVIOUS
<1>1. /\ \A a \in Actor : task[a] = NoTask
      /\ \A s \in Session : rec[s] = NewRecord /\ vm[s] = "absent"
      /\ allocations = <<>> /\ crashes = 0
  BY DEF Init
<1>2. ToSet(allocations) = {} /\ IsInjective(allocations)
  BY <1>1 DEF ToSet, IsInjective
<1>3. ActorInv
  <2>1. \A s : SessionTask(s, NoTask)
    BY NewTaskFields DEF SessionTask
  <2>2. ReaperTask(NoTask)
    BY NewTaskFields DEF ReaperTask, ExportPcs
  <2> QED BY <1>1, <2>1, <2>2 DEF ActorInv, Actor
<1>4. NewRecord.state = "HOST_READ_ONLY" /\ ~Live(NewRecord)
  BY DEF NewRecord, Live
<1>5. ASSUME NEW s \in Session
      PROVE  WorkerOK(s, rec[s], task[s], vm[s], ToSet(allocations), crashes)
  <2>1. task[s].pc = "idle" /\ task[s].op = "none"
    BY <1>1, NewTaskFields DEF Actor
  <2> QED BY <1>1, <1>2, <1>4, <2>1 DEF WorkerOK, CreatingPcs
<1> QED BY <1>2, <1>3, <1>5 DEF WorkerInv, WorkersOK

LEMMA WorkerStep ==
  ASSUME TypeOK, PoolInv, WorkerInv, [Next]_vars
  PROVE  WorkerInv'
<1>1. CASE UNCHANGED vars
  <2>1. UNCHANGED <<rec, vm, allocations, task, crashes>>
    BY <1>1 DEF vars, workerVars, poolVars
  <2> QED BY <2>1 DEF WorkerInv, WorkersOK, ActorInv
<1>2. ASSUME NEW s \in Session, Age(s) PROVE WorkerInv'
  <2>1. /\ rec' = [rec EXCEPT ![s] = Aged(rec[s])] /\ UNCHANGED <<vm, allocations, crashes, task>>
        /\ rec[s] \in SessionRecord
    BY <1>2 DEF Age, workerVars, poolVars, TypeOK, PoolType
  <2>2. /\ Aged(rec[s]).state = rec[s].state /\ Aged(rec[s]).workerState = rec[s].workerState
        /\ Live(Aged(rec[s])) <=> Live(rec[s])
    BY <2>1, RecordFields
  <2> QED BY <2>1, <2>2, TouchOK
<1> QED BY <1>1, <1>2, WorkerRequest, WorkerUnpark, WorkerCreation, WorkerClient,
     WorkerShared, WorkerReaper, WorkerCrash DEF Next

(* The invariant is inductive.                                              *)
LEMMA WorkerCorrect == Spec => []WorkerInv
<1>1. TypeOK /\ PoolInv /\ WorkerInv /\ [Next]_vars => WorkerInv'
  BY WorkerStep
<1> QED BY <1>1, WorkerInit, TypeCorrect, PoolCorrect, PTL DEF Spec

(* A creation owns its record from its first step to its last, whatever the *)
(* reaper and other clients do meanwhile (createWorkerForSession), and only *)
(* a crash of the broker leaves a record in CREATING_SANDBOX.               *)
THEOREM CreationOwned == Spec => []CreationOwnsRecord
<1>1. WorkerInv => CreationOwnsRecord
  BY DEF WorkerInv, WorkersOK, WorkerOK, CreationOwnsRecord, CreatingPcs
<1> QED BY <1>1, WorkerCorrect, PTL

(* No VM is orphaned: releaseWorker and its callers write DESTROYED only    *)
(* after a confirmed removal, and a VM is named by its session's record.    *)
THEOREM WorkerOwned == Spec => []VMIsOwned
<1>1. WorkerInv => VMIsOwned
  BY DEF WorkerInv, WorkersOK, WorkerOK, VMIsOwned
<1> QED BY <1>1, WorkerCorrect, PTL

(* The pool counts every worker that exists and counts none twice, until    *)
(* the broker restarts (createWorkerForSession, removePoolAllocation).      *)
THEOREM PoolCounted == Spec => []PoolCountsWorkers
<1>1. ASSUME WorkerInv PROVE PoolCountsWorkers
  <2>1. \A s : s \in ToSet(allocations) => Contains(allocations, s)
    BY DEF ToSet, Contains
  <2> QED BY <1>1, <2>1 DEF WorkerInv, WorkersOK, WorkerOK, PoolCountsWorkers
<1> QED BY <1>1, WorkerCorrect, PTL

-----------------------------------------------------------------------------
(***************************************************************************)
(* No edit is lost on its way out of a worker: an export holds what the    *)
(* worker held, and a reap that exports first removes nothing it saw that  *)
(* is not in the result, for every number of sessions, reapers, edits and  *)
(* crashes.                                                                *)
(***************************************************************************)

(* The result is thrown away, or the session's task k is about to do so.    *)
Gone(r, k) ==
  \/ r.state = "REJECTED"
  \/ k.op = "discardResult" /\ k.pc \in ReleasePcs

(* What task k answers for: a reap, the edits it saw and that are still in  *)
(* the tree T; an export of the client, all of them.                        *)
Saw(k, T) == IF k.op \in ExportFirst THEN k.cut \cap T ELSE T

(* How far these have come: into the worker's HEAD H before the bundle is   *)
(* cut, into every bundle B before the fetch, and into the result R before  *)
(* the worker is released, unless the result is gone.                       *)
Sees(k, T, H, B, R, M, gone) ==
  /\ k.op \in ExportFirst /\ k.pc \in ExportPcs \cup ReleasePcs => k.cut \subseteq M
  /\ k.pc \in {"bundle", "fetch"} => Saw(k, T) \subseteq H
  /\ k.pc = "fetch" => \A c \in B : Saw(k, T) \subseteq c
  /\ k.op \in ExportFirst /\ k.pc \in ReleasePcs
       => /\ Saw(k, T) \subseteq H /\ \A c \in B : Saw(k, T) \subseteq c
          /\ Saw(k, T) \subseteq R \/ gone

SeesAll ==
  \A a \in Actor : task[a].pc \in OnSession =>
    LET t == task[a].sid
    IN  Sees(task[a], tree[t], head[t], bundle[t], ref[t], made, Gone(rec[t], task[t]))

(* An edit that is anywhere was acknowledged: new edits are new.            *)
AllMade ==
  \A s \in Session : /\ tree[s] \subseteq made /\ head[s] \subseteq made /\ ref[s] \subseteq made
                     /\ \A c \in bundle[s] : c \subseteq made

ExportInv == AllMade /\ SeesAll /\ ReapKeepsDirty

-----------------------------------------------------------------------------
(* One session                                                             *)

(* What the steps do to the tree, HEAD, bundle and result of a session:     *)
(* commit, bundle, import, removal, and a result thrown away.               *)
Exports(T, H, B, R, T1, H1, B1, R1, gone) ==
  \/ T1 = T /\ B1 = B /\ R1 = R /\ H1 \in {H, T}
  \/ T1 = T /\ H1 = H /\ R1 = R /\ B1 = {H}
  \/ T1 = T /\ H1 = H /\ B1 = {} /\ R1 \in B
  \/ T1 = {} /\ H1 = {} /\ B1 = B /\ R1 = R
  \/ T1 = T /\ H1 = H /\ B1 = B /\ gone

(* A new edit, and a new worker, only by the session's own operation.       *)
Edits(T, H, B, R, M, T1, H1, B1, R1) ==
  \/ \E e : e \notin M /\ T1 = T \cup {e} /\ H1 \in {H, T1} /\ B1 = B /\ R1 = R
  \/ T1 \in {{}, R} /\ H1 = T1 /\ B1 = {} /\ R1 = R

LEMMA SeesKept ==
  ASSUME NEW k, NEW T, NEW H, NEW B, NEW R, NEW M, NEW g, Sees(k, T, H, B, R, M, g),
         NEW T1, NEW H1, NEW B1, NEW R1, NEW M1, NEW g1, M \subseteq M1, g => g1,
         \/ Exports(T, H, B, R, T1, H1, B1, R1, g1)
         \/ /\ Edits(T, H, B, R, M, T1, H1, B1, R1)
            /\ k.op \in ExportFirst \/ k.pc \notin {"bundle", "fetch"}
  PROVE  Sees(k, T1, H1, B1, R1, M1, g1)
<1>1. CASE Exports(T, H, B, R, T1, H1, B1, R1, g1)
  <2>1. CASE T1 = T /\ B1 = B /\ R1 = R /\ H1 \in {H, T}
    BY <2>1 DEF Sees, Saw
  <2>2. CASE T1 = T /\ H1 = H /\ R1 = R /\ B1 = {H}
    BY <2>2 DEF Sees, Saw
  <2>3. CASE T1 = T /\ H1 = H /\ B1 = {} /\ R1 \in B
    BY <2>3 DEF Sees, Saw
  <2>4. CASE T1 = {} /\ H1 = {} /\ B1 = B /\ R1 = R
    BY <2>4 DEF Sees, Saw
  <2>5. CASE T1 = T /\ H1 = H /\ B1 = B /\ g1
    BY <2>5 DEF Sees, Saw
  <2> QED BY <1>1, <2>1, <2>2, <2>3, <2>4, <2>5 DEF Exports
<1>2. CASE /\ Edits(T, H, B, R, M, T1, H1, B1, R1)
           /\ k.op \in ExportFirst \/ k.pc \notin {"bundle", "fetch"}
  <2>1. ASSUME NEW e, e \notin M, T1 = T \cup {e}, H1 \in {H, T1}, B1 = B, R1 = R
        PROVE  Sees(k, T1, H1, B1, R1, M1, g1)
    <3>1. ASSUME k.op \in ExportFirst, k.pc \in ExportPcs \cup ReleasePcs
          PROVE  Saw(k, T1) = Saw(k, T)
      BY <2>1, <3>1 DEF Sees, Saw
    <3>2. Saw(k, T) \subseteq H => Saw(k, T) \subseteq H1
      BY <2>1 DEF Saw
    <3>3. {"bundle", "fetch"} \subseteq ExportPcs
      BY DEF ExportPcs
    <3> QED BY <1>2, <2>1, <3>1, <3>2, <3>3 DEF Sees
  <2>2. CASE T1 \in {{}, R} /\ H1 = T1 /\ B1 = {} /\ R1 = R
    BY <1>2, <2>2 DEF Sees, Saw
  <2> QED BY <1>2, <2>1, <2>2 DEF Edits
<1> QED BY <1>1, <1>2

-----------------------------------------------------------------------------
(* Steps                                                                   *)

(* The tasks of the other actors go on only where a drain starts a parked   *)
(* creation.                                                                *)
OthersStay(a) ==
  \A b \in Actor \ {a} :
    \/ task'[b] = task[b]
    \/ /\ b \in Session /\ task[b].pc = "parked"
       /\ task'[b].pc \in {"creating", "settling"}

(* Nothing of the other sessions changes.                                   *)
OthersKeep(t) ==
  \A s \in Session \ {t} : /\ tree'[s] = tree[s] /\ head'[s] = head[s]
                           /\ bundle'[s] = bundle[s] /\ ref'[s] = ref[s]

(* A result that is thrown away stays so.                                   *)
GoneStays == \A s \in Session : Gone(rec[s], task[s]) => Gone(rec'[s], task'[s])

(* The new task of actor a answers for what it saw.                         *)
SeesNow(a) ==
  task'[a].pc \in OnSession =>
    LET t == task'[a].sid
    IN  Sees(task'[a], tree'[t], head'[t], bundle'[t], ref'[t], made', Gone(rec'[t], task'[t]))

(* What the step of actor a does to session t.                              *)
Changes(a, t) ==
  \/ Exports(tree[t], head[t], bundle[t], ref[t],
             tree'[t], head'[t], bundle'[t], ref'[t], Gone(rec'[t], task'[t]))
  \/ /\ a = t
     /\ Edits(tree[t], head[t], bundle[t], ref[t], made,
              tree'[t], head'[t], bundle'[t], ref'[t])

LEMMA ExportStep ==
  ASSUME TypeOK, WorkerInv, ExportInv, NEW a \in Actor, NEW t,
         OthersStay(a), OthersKeep(t), GoneStays, SeesNow(a), Changes(a, t),
         made \subseteq made',
         t \in Session => tree'[t] \subseteq made' /\ ref'[t] \subseteq made',
         ReapKeepsDirty'
  PROVE  ExportInv'
<1>1. AllMade'
  <2> SUFFICES ASSUME NEW s \in Session
               PROVE  /\ tree'[s] \subseteq made' /\ head'[s] \subseteq made'
                      /\ ref'[s] \subseteq made' /\ \A c \in bundle'[s] : c \subseteq made'
    BY DEF AllMade
  <2>1. /\ tree[s] \subseteq made /\ head[s] \subseteq made /\ ref[s] \subseteq made
        /\ \A c \in bundle[s] : c \subseteq made
    BY DEF ExportInv, AllMade
  <2>2. CASE s = t
    <3> DEFINE g == Gone(rec'[t], task'[t])
    <3>1. \/ Exports(tree[t], head[t], bundle[t], ref[t],
                     tree'[t], head'[t], bundle'[t], ref'[t], g)
          \/ Edits(tree[t], head[t], bundle[t], ref[t], made,
                   tree'[t], head'[t], bundle'[t], ref'[t])
      BY DEF Changes
    <3> HIDE DEF g
    <3>2. head'[t] \subseteq made' /\ \A c \in bundle'[t] : c \subseteq made'
      BY <2>1, <2>2, <3>1 DEF Exports, Edits
    <3> QED BY <2>2, <3>2
  <2>3. CASE s # t
    BY <2>1, <2>3 DEF OthersKeep
  <2> QED BY <2>2, <2>3
<1>2. ASSUME NEW b \in Actor, task'[b].pc \in OnSession
      PROVE  LET u == task'[b].sid
             IN  Sees(task'[b], tree'[u], head'[u], bundle'[u], ref'[u], made', Gone(rec'[u], task'[u]))
  <2>1. CASE b = a
    BY <1>2, <2>1 DEF SeesNow
  <2>2. CASE b # a
    <3>1. task'[b] = task[b]
      BY <1>2, <2>2 DEF OthersStay, OnSession
    <3> DEFINE k == task[b]
               u == k.sid
    <3>2. /\ u \in Session /\ (b \in Session => u = b)
          /\ b \in Session \/ (b \in Reaper /\ ReaperTask(k))
      BY <1>2, <3>1, ActorFacts
    <3>3. Sees(k, tree[u], head[u], bundle[u], ref[u], made, Gone(rec[u], task[u]))
      BY <1>2, <3>1 DEF ExportInv, SeesAll
    <3>4. Gone(rec[u], task[u]) => Gone(rec'[u], task'[u])
      BY <3>2 DEF GoneStays
    <3> HIDE DEF k, u
    <3>5. CASE u = t
      <4>1. b \in Session => a # t
        BY <2>2, <3>2, <3>5
      <4>2. b \notin Session => k.op \in ExportFirst \/ k.pc \notin {"bundle", "fetch"}
        BY <3>2 DEF ReaperTask, ExportPcs
      <4>3. Sees(k, tree'[u], head'[u], bundle'[u], ref'[u], made', Gone(rec'[u], task'[u]))
        <5> DEFINE g == Gone(rec[u], task[u])
                   h == Gone(rec'[u], task'[u])
        <5>1. /\ Sees(k, tree[u], head[u], bundle[u], ref[u], made, g) /\ (g => h)
              /\ \/ Exports(tree[u], head[u], bundle[u], ref[u],
                            tree'[u], head'[u], bundle'[u], ref'[u], h)
                 \/ /\ Edits(tree[u], head[u], bundle[u], ref[u], made,
                             tree'[u], head'[u], bundle'[u], ref'[u])
                    /\ k.op \in ExportFirst \/ k.pc \notin {"bundle", "fetch"}
          BY <3>3, <3>4, <3>5, <4>1, <4>2 DEF Changes
        <5> HIDE DEF g, h
        <5>2. Sees(k, tree'[u], head'[u], bundle'[u], ref'[u], made', h)
          BY <5>1, SeesKept
        <5> QED BY <5>2 DEF h
      <4> QED BY <3>1, <4>3 DEF k, u
    <3>6. CASE u # t
      <4>1. /\ tree'[u] = tree[u] /\ head'[u] = head[u]
            /\ bundle'[u] = bundle[u] /\ ref'[u] = ref[u]
        BY <3>2, <3>6 DEF OthersKeep
      <4> DEFINE g == Gone(rec[u], task[u])
                 h == Gone(rec'[u], task'[u])
      <4>2. Sees(k, tree[u], head[u], bundle[u], ref[u], made, g) /\ (g => h)
        BY <3>3, <3>4
      <4> HIDE DEF g, h
      <4>3. Exports(tree[u], head[u], bundle[u], ref[u], tree[u], head[u], bundle[u], ref[u], h)
        BY DEF Exports
      <4>4. Sees(k, tree'[u], head'[u], bundle'[u], ref'[u], made', h)
        BY <4>1, <4>2, <4>3, SeesKept
      <4> QED BY <3>1, <4>4 DEF k, u, h
    <3> QED BY <3>5, <3>6
  <2> QED BY <2>1, <2>2
<1> QED BY <1>1, <1>2 DEF ExportInv, SeesAll

(* A session that goes on to p has nothing to answer for unless it exports. *)
LEMMA SeesNothing ==
  ASSUME NEW a, NEW k, task'[a] = k, k.op \notin ExportFirst, k.pc \notin {"bundle", "fetch"}
  PROVE  SeesNow(a)
BY DEF SeesNow, Sees

(* A rejected result stays rejected: no state follows REJECTED.             *)
LEMMA DrainRejected ==
  ASSUME NEW rs, NEW D, NEW t \in Session, rs[t].state = "REJECTED"
  PROVE  DrainedRec(rs, D)[t].state = "REJECTED"
BY DEF DrainedRec, Creatable, LegalTransitions

LEMMA RejectedStays ==
  ASSUME TypeOK, NEW t \in Session, rec[t].state = "REJECTED", [Next]_vars
  PROVE  rec'[t].state = "REJECTED"
<1>t. rec \in [Session -> SessionRecord] /\ task \in [Actor -> Task] /\ Session \subseteq Actor
  BY DEF TypeOK, PoolType, Actor
<1>r. rec[t] \in SessionRecord
  BY <1>t
<1>f. /\ Touch(rec[t]).state = "REJECTED" /\ Aged(rec[t]).state = "REJECTED"
      /\ Destroyed(rec[t]).state = "REJECTED"
  BY <1>r, RecordFields
<1>l. LegalTransitions["REJECTED"] = {}
  BY DEF LegalTransitions
<1>1. ASSUME NEW s \in Session, ClientRequest(s) PROVE rec'[t].state = "REJECTED"
  BY <1>t, <1>f, <1>l, <1>1 DEF ClientRequest, EnsureNoCreation, EnsureDirect, EnsurePark, ExecStart,
     PrepareStart, ApplyStart, KeepStartActive, KeepStart, KeepRelease, DiscardStart,
     DestroyStart, Creatable, Moves
<1>2. ASSUME NEW s \in Session, QueueTimeout(s) \/ CancelParked(s) \/ Age(s)
      PROVE  rec'[t].state = "REJECTED"
  BY <1>t, <1>f, <1>2, DrainRejected DEF QueueTimeout, CancelParked, Age
<1>3. ASSUME NEW s \in Session, NEW al, NEW rs, rs[t].state = "REJECTED", EndCreation(s, al, rs)
      PROVE  rec'[t].state = "REJECTED"
  BY <1>3, DrainRejected DEF EndCreation
<1>4. ASSUME NEW s \in Session, CreationStep(s) PROVE rec'[t].state = "REJECTED"
  <2>1. CASE WorkerReady(s)
    <3>1. rec[s].state = "CREATING_SANDBOX"
      BY <2>1 DEF WorkerReady, Moves
    <3>2. [rec EXCEPT ![s] = WorkerActive(@)][t].state = "REJECTED"
      BY <1>t, <3>1
    <3> QED BY <1>3, <2>1, <3>2 DEF WorkerReady
  <2>2. CASE CreationEnds(s)
    BY <1>3, <2>2 DEF CreationEnds
  <2>3. CASE CreateVM(s) \/ CreateFails(s) \/ PrepFails(s) \/ CreationFailed(s)
    BY <1>t, <1>l, <2>3 DEF CreateVM, CreateFails, PrepFails, CreationFailed, Moves
  <2> QED BY <1>4, <2>1, <2>2, <2>3 DEF CreationStep
<1>5. ASSUME NEW k PROVE /\ Released(k, rec[t]).state = "REJECTED"
                         /\ Retained(k, rec[t]).state = "REJECTED"
  BY <1>f, <1>l DEF Released, Retained, Moves
<1>6. ASSUME NEW a \in Actor, NEW k, k.sid \in Session, FreeAllocation(a, k)
      PROVE  rec'[t].state = "REJECTED"
  <2> DEFINE D == Drained(RemoveFirst(allocations, k.sid), queue, inFlight)
             X == DrainedRec(rec, D)
  <2>1. rec' = [X EXCEPT ![k.sid] = Released(k, @)]
    BY <1>6 DEF FreeAllocation
  <2>2. X[t] = rec[t] /\ DOMAIN X = Session
    BY <1>l DEF X, DrainedRec, Creatable
  <2> HIDE DEF X
  <2> QED BY <1>5, <1>6, <2>1, <2>2
<1>7. ASSUME NEW s \in Session, ClientStep(s) PROVE rec'[t].state = "REJECTED"
  <2>1. CASE ApplyDone(s)
    <3>1. rec[s].state = "APPLY_PENDING"
      BY <2>1 DEF ApplyDone, Moves
    <3>2. \A x : [rec EXCEPT ![s] = x][t].state = "REJECTED"
      BY <1>t, <3>1
    <3>3. \E x : \/ rec' = [rec EXCEPT ![s] = x]
                 \/ \E D : rec' = DrainedRec([rec EXCEPT ![s] = x], D)
      BY <2>1 DEF ApplyDone
    <3>4. PICK x, D : rec' = [rec EXCEPT ![s] = x] \/ rec' = DrainedRec([rec EXCEPT ![s] = x], D)
      BY <3>3
    <3> DEFINE rs == [rec EXCEPT ![s] = x]
    <3>5. rs[t].state = "REJECTED" /\ (rec' = rs \/ rec' = DrainedRec(rs, D))
      BY <3>2, <3>4
    <3> HIDE DEF rs
    <3> QED BY <3>5, DrainRejected
  <2>2. CASE DiscardUnref(s)
    <3>1. task[s].sid \in Session
      BY <1>t, <2>2 DEF DiscardUnref, Task, OnSession
    <3> QED BY <1>t, <1>6, <2>2, <3>1 DEF DiscardUnref
  <2>3. CASE ExecDone(s) \/ ExecFails(s) \/ DiscardFails(s) \/ ApplyPatch(s) \/ ApplyThrows(s)
    BY <1>t, <1>f, <2>3 DEF ExecDone, ExecFails, DiscardFails, ApplyPatch, ApplyThrows
  <2>4. CASE PrepareDone(s)
    BY <1>t, <1>f, <1>l, <2>4 DEF PrepareDone, Moves
  <2>5. CASE KeepExported(s) \/ ApplyRefused(s)
    BY <1>t, <2>5 DEF KeepExported, KeepRelease, ApplyRefused, Moves
  <2> QED BY <1>7, <2>1, <2>2, <2>3, <2>4, <2>5 DEF ClientStep
<1>8. ASSUME NEW a \in Actor, SharedStep(a) PROVE rec'[t].state = "REJECTED"
  <2>1. CASE RemoveVM(a)
    <3>1. task[a].sid \in Session
      BY <1>t, <2>1 DEF RemoveVM, Task, OnSession
    <3> QED BY <1>6, <2>1, <3>1 DEF RemoveVM
  <2>2. CASE RemoveFails(a)
    BY <1>t, <1>5, <2>2 DEF RemoveFails
  <2>3. CASE CommitTree(a) \/ ExportBundle(a) \/ ExportFails(a) \/ StopVM(a)
    BY <2>3 DEF CommitTree, ExportBundle, ExportFails, StopVM
  <2> QED BY <1>8, <2>1, <2>2, <2>3 DEF SharedStep
<1>9. ASSUME NEW r \in Reaper,
             SweepStart(r) \/ ReaperStep(r) \/ \E s \in Session : DisconnectReap(r, s)
      PROVE  rec'[t].state = "REJECTED"
  BY <1>9 DEF SweepStart, ReaperStep, SweepResume, StatusClean, StatusDirty, ReapExported,
     DisconnectReap
<1>10. CASE Crash \/ UNCHANGED vars
  BY <1>10 DEF Crash, vars
<1> QED BY <1>1, <1>2, <1>4, <1>7, <1>8, <1>9, <1>10 DEF Next

-----------------------------------------------------------------------------
(* Who moves                                                               *)

LEMMA OneMoves ==
  ASSUME TypeOK, NEW a \in Actor,
         UNCHANGED task \/ (\E k : task' = [task EXCEPT ![a] = k])
  PROVE  OthersStay(a)
BY DEF TypeOK, PoolType, OthersStay

(* Actor a goes on with k, and a drain follows.                             *)
LEMMA DrainMoves ==
  ASSUME TypeOK, PoolInv, NEW a \in Actor, NEW k \in Task, NEW al \in Seq(Session),
         NEW q \in Seq(Session), ToSet(q) \subseteq ToSet(queue), NEW fl \in Nat,
         NEW rs \in [Session -> SessionRecord],
         DrainQueue(al, q, fl, rs, [task EXCEPT ![a] = k])
  PROVE  OthersStay(a) /\ (a \notin ToSet(q) => task'[a] = k)
<1> DEFINE ts == [task EXCEPT ![a] = k]
           D == Drained(al, q, fl)
<1>1. ts \in [Actor -> Task] /\ \A b \in Actor : ts[b] = IF b = a THEN k ELSE task[b]
  BY DEF TypeOK, PoolType
<1>2. task' = DrainedTask(ts, rs, D)
  BY DEF DrainQueue
<1> HIDE DEF ts
<1>3. DrainCount(al, q, fl) \in 0..Len(q)
  BY <1>1, DrainType
<1>4. D \subseteq ToSet(q)
  BY <1>3 DEF Drained, ToSet
<1> HIDE DEF D
<1>5. \A s \in D : s \in Session /\ task[s].pc = "parked"
  BY <1>4 DEF PoolInv, PromiseInv, Exact
<1>6. ASSUME NEW b \in D, b # a PROVE task'[b].pc \in {"creating", "settling"}
  <2>1. b \in Actor /\ ts[b] \in Task
    BY <1>1, <1>5 DEF Actor
  <2>2. \A p : Promised(ts[b], p).pc = p
    BY <2>1, TaskFields
  <2> QED BY <1>2, <2>1, <2>2 DEF DrainedTask
<1>7. \A b \in Actor \ D : task'[b] = ts[b]
  BY <1>2 DEF DrainedTask
<1> QED BY <1>1, <1>4, <1>5, <1>6, <1>7 DEF OthersStay

LEMMA FreeMoves ==
  ASSUME TypeOK, PoolInv, WorkerInv, NEW a \in Actor, task[a].pc \in OnSession,
         FreeAllocation(a, task[a])
  PROVE  OthersStay(a) /\ task'[a] = After(task[a])
<1> DEFINE al == RemoveFirst(allocations, task[a].sid)
           k == After(task[a])
<1>1. DrainQueue(al, queue, inFlight, rec, [task EXCEPT ![a] = k])
  BY DEF FreeAllocation
<1>2. al \in Seq(Session) /\ queue \in Seq(Session) /\ inFlight \in Nat /\ a \notin ToSet(queue)
  BY PoolFacts, Elsewhere
<1>3. k \in Task /\ rec \in [Session -> SessionRecord]
  BY TaskType DEF TypeOK, PoolType
<1> HIDE DEF al, k
<1>4. OthersStay(a) /\ task'[a] = k
  BY <1>1, <1>2, <1>3, DrainMoves
<1> QED BY <1>4 DEF k

LEMMA EndMoves ==
  ASSUME TypeOK, PoolInv, WorkerInv, NEW s \in Session, task[s].pc \in CreationPcs,
         NEW al \in Seq(Session), NEW rs \in [Session -> SessionRecord], EndCreation(s, al, rs)
  PROVE  OthersStay(s) /\ task'[s] = NoTask
<1>1. /\ queue \in Seq(Session) /\ inFlight \in Nat /\ s \notin ToSet(queue) /\ s \in Actor
      /\ NoTask \in Task
  BY PoolFacts, TaskType DEF CreationPcs, Actor
<1>2. CASE task[s].queued
  <2> DEFINE fl == IF inFlight > 0 THEN inFlight - 1 ELSE 0
  <2>1. fl \in Nat
    BY <1>1
  <2>2. DrainQueue(al, queue, fl, rs, [task EXCEPT ![s] = NoTask])
    BY <1>2 DEF EndCreation
  <2> HIDE DEF fl
  <2> QED BY <1>1, <2>1, <2>2, DrainMoves
<1>3. CASE ~task[s].queued
  <2>1. task' = [task EXCEPT ![s] = NoTask]
    BY <1>3 DEF EndCreation
  <2> QED BY <1>1, <2>1, OneMoves DEF TypeOK, PoolType
<1> QED BY <1>2, <1>3

(* A step of a session's own operation moves that session alone.            *)
LEMMA SessionMovesOne ==
  ASSUME TypeOK, PoolInv, WorkerInv, NEW s \in Session,
         \/ ClientRequest(s) \/ QueueTimeout(s) \/ CancelParked(s)
         \/ CreationStep(s) \/ ClientStep(s) \/ Age(s)
  PROVE  OthersStay(s)
<1>s. s \in Actor /\ task[s] \in Task /\ NoTask \in Task /\ rec \in [Session -> SessionRecord]
      /\ rec[s] \in SessionRecord /\ allocations \in Seq(Session)
  BY TaskType DEF TypeOK, PoolType, Actor
<1>1. CASE ClientRequest(s)
  <2>1. UNCHANGED task \/ (\E k : task' = [task EXCEPT ![s] = k])
    BY <1>1 DEF ClientRequest, EnsureNoCreation, EnsureDirect, EnsurePark, ExecStart,
       PrepareStart, ApplyStart, KeepStartActive, KeepStart, KeepRelease, DiscardStart,
       DestroyStart
  <2> QED BY <1>s, <2>1, OneMoves
<1>2. CASE QueueTimeout(s) \/ Age(s)
  <2>1. UNCHANGED task \/ (\E k : task' = [task EXCEPT ![s] = k])
    BY <1>2 DEF QueueTimeout, Age, Finish
  <2> QED BY <1>s, <2>1, OneMoves
<1>3. CASE CancelParked(s)
  <2> DEFINE q == RemoveFirst(queue, s)
  <2>1. DrainQueue(allocations, q, inFlight, rec, [task EXCEPT ![s] = NoTask])
    BY <1>3 DEF CancelParked
  <2>2. q \in Seq(Session) /\ ToSet(q) = ToSet(queue) \ {s} /\ inFlight \in Nat
    BY PoolFacts
  <2>3. ToSet(q) \subseteq ToSet(queue)
    BY <2>2
  <2> HIDE DEF q
  <2> QED BY <1>s, <2>1, <2>2, <2>3, DrainMoves
<1>4. CASE CreateVM(s) \/ CreateFails(s) \/ PrepFails(s) \/ CreationFailed(s)
  <2>1. \E k : task' = [task EXCEPT ![s] = k]
    BY <1>4 DEF CreateVM, CreateFails, PrepFails, CreationFailed, Goto
  <2> QED BY <1>s, <2>1, OneMoves
<1>5. CASE CreationEnds(s)
  BY <1>s, <1>5, EndMoves DEF CreationEnds, CreationPcs
<1>6. CASE WorkerReady(s)
  <2> DEFINE rs == [rec EXCEPT ![s] = WorkerActive(@)]
             al == Append(allocations, s)
  <2>1. EndCreation(s, al, rs) /\ task[s].pc \in CreationPcs
    BY <1>6 DEF WorkerReady, CreationPcs
  <2>2. al \in Seq(Session) /\ rs \in [Session -> SessionRecord]
    BY <1>s, RecordType
  <2> HIDE DEF rs, al
  <2> QED BY <2>1, <2>2, EndMoves
<1>7. CASE /\ ClientStep(s) /\ ~ApplyDone(s)
           /\ ~(task[s].pc \in OnSession /\ FreeAllocation(s, task[s]))
  <2>1. \E k : task' = [task EXCEPT ![s] = k]
    BY <1>7 DEF ClientStep, ExecDone, ExecFails, PrepareDone, KeepExported, KeepRelease,
       DiscardUnref, DiscardFails, ApplyPatch, ApplyRefused, ApplyThrows, Finish, Goto, OnSession
  <2> QED BY <1>s, <2>1, OneMoves
<1>8. CASE task[s].pc \in OnSession /\ FreeAllocation(s, task[s])
  BY <1>s, <1>8, FreeMoves
<1>9. CASE ApplyDone(s)
  <2> DEFINE r == WithResult(rec[s], "APPLIED")
             rs == [rec EXCEPT ![s] = Destroyed(r)]
             al == RemoveFirst(allocations, s)
  <2>1. \/ \E k : task' = [task EXCEPT ![s] = k]
        \/ DrainQueue(al, queue, inFlight, rs, [task EXCEPT ![s] = NoTask])
    BY <1>9 DEF ApplyDone, Goto
  <2>2. al \in Seq(Session) /\ queue \in Seq(Session) /\ inFlight \in Nat
    BY PoolFacts
  <2>3. rs \in [Session -> SessionRecord]
    <3>1. Destroyed(r) \in SessionRecord
      BY <1>s, Names, RecordType
    <3> QED BY <1>s, <3>1
  <2> HIDE DEF rs, al
  <2> QED BY <1>s, <2>1, <2>2, <2>3, OneMoves, DrainMoves
<1> QED BY <1>1, <1>2, <1>3, <1>4, <1>5, <1>6, <1>7, <1>8, <1>9 DEF CreationStep

LEMMA SharedMovesOne ==
  ASSUME TypeOK, PoolInv, WorkerInv, NEW a \in Actor, SharedStep(a)
  PROVE  OthersStay(a)
<1>1. CASE RemoveVM(a)
  BY <1>1, FreeMoves DEF RemoveVM, OnSession
<1>2. CASE ~RemoveVM(a)
  <2>1. \E k : task' = [task EXCEPT ![a] = k]
    BY <1>2 DEF SharedStep, CommitTree, ExportBundle, ExportFails, StopVM, RemoveFails, Goto, Finish
  <2> QED BY <2>1, OneMoves
<1> QED BY <1>1, <1>2

LEMMA ReaperMovesOne ==
  ASSUME TypeOK, NEW r \in Reaper,
         SweepStart(r) \/ ReaperStep(r) \/ \E s \in Session : DisconnectReap(r, s)
  PROVE  OthersStay(r)
<1>1. \E k : task' = [task EXCEPT ![r] = k]
  BY DEF SweepStart, ReaperStep, SweepResume, StatusClean, StatusDirty, ReapExported,
     DisconnectReap, Finish
<1> QED BY <1>1, OneMoves DEF Actor

-----------------------------------------------------------------------------
(* A result that is thrown away                                            *)

(* The record a discard writes, when the worker is gone or stays.           *)
LEMMA DiscardRejects ==
  ASSUME TypeOK, WorkerInv, NEW t \in Session, task[t].op = "discardResult"
  PROVE  /\ Released(task[t], rec[t]).state = "REJECTED"
         /\ Retained(task[t], rec[t]).state = "REJECTED"
<1>t. /\ rec[t] \in SessionRecord /\ rec[t].state = "RESULT_READY"
      /\ task[t].exported = FALSE
  BY SessionFacts DEF WorkerOK, SessionTask
<1>m. /\ \A ws, w : Rejected(rec[t], w, ws).state = "REJECTED"
      /\ Moves(rec[t], "RESULT_READY", "REJECTED")
  BY <1>t DEF Rejected, MoveTo, SessionRecord, Moves, LegalTransitions
<1>1. Released(task[t], rec[t])
        = Rejected(rec[t], FALSE, IF task[t].snap.worker THEN "DESTROYED" ELSE "NONE")
  BY <1>t, <1>m DEF Released
<1>2. Retained(task[t], rec[t])
        = Rejected(rec[t], task[t].snap.worker, task[t].snap.workerState)
  BY <1>t, <1>m DEF Retained
<1> QED BY <1>m, <1>1, <1>2

LEMMA DiscardFrees ==
  ASSUME TypeOK, PoolInv, WorkerInv, NEW t \in Session, task[t].op = "discardResult",
         task[t].pc \in OnSession, FreeAllocation(t, task[t])
  PROVE  rec'[t].state = "REJECTED"
<1>t. t \in Actor /\ task[t].sid = t /\ rec \in [Session -> SessionRecord]
      /\ task \in [Actor -> Task]
  BY ActorFacts DEF TypeOK, PoolType, Actor
<1> DEFINE al == RemoveFirst(allocations, t)
           D == Drained(al, queue, inFlight)
           X == DrainedRec(rec, D)
<1>1. rec' = [X EXCEPT ![t] = Released(task[t], @)]
  BY <1>t DEF FreeAllocation
<1>2. t \notin ToSet(queue) /\ queue \in Seq(Session) /\ inFlight \in Nat /\ al \in Seq(Session)
  BY <1>t, PoolFacts, Elsewhere
<1> HIDE DEF al
<1>3. DrainCount(al, queue, inFlight) \in 0..Len(queue)
  BY <1>t, <1>2, DrainType
<1>4. t \notin D
  BY <1>2, <1>3 DEF Drained, ToSet
<1> HIDE DEF D
<1>5. DOMAIN X = Session /\ X[t] = rec[t]
  BY <1>4 DEF DrainedRec
<1> HIDE DEF X
<1> QED BY <1>1, <1>5, DiscardRejects

(* A discard that releases the worker goes on until it has rejected the     *)
(* result.                                                                  *)
LEMMA DiscardReleases ==
  ASSUME TypeOK, PoolInv, WorkerInv, NEW t \in Session,
         task[t].op = "discardResult", task[t].pc \in ReleasePcs, SharedStep(t)
  PROVE  Gone(rec'[t], task'[t])
<1>t. /\ rec \in [Session -> SessionRecord] /\ t \in Actor
      /\ task \in [Actor -> Task] /\ task[t] \in Task
  BY DEF TypeOK, PoolType, Actor
<1>s. task[t].pc \in OnSession /\ task[t].sid = t
  BY <1>t, ActorFacts DEF ReleasePcs, OnSession
<1>1. ASSUME NEW p \in ReleasePcs, Goto(t, p) PROVE Gone(rec'[t], task'[t])
  <2>1. task'[t] = At(task[t], p)
    BY <1>t, <1>1 DEF Goto
  <2>2. task'[t].op = "discardResult" /\ task'[t].pc = p
    BY <1>t, <2>1, TaskFields
  <2> QED BY <2>2 DEF Gone
<1>2. CASE StopVM(t)
  BY <1>1, <1>2 DEF StopVM, ReleasePcs
<1>3. CASE RemoveFails(t)
  <2>1. CASE task[t].pc = "remove"
    BY <1>1, <1>3, <2>1 DEF RemoveFails, ReleasePcs
  <2>2. CASE task[t].pc # "remove"
    <3>1. rec'[t] = Retained(task[t], rec[t])
      BY <1>t, <1>s, <1>3, <2>2 DEF RemoveFails
    <3> QED BY <3>1, DiscardRejects DEF Gone
  <2> QED BY <2>1, <2>2
<1>4. CASE RemoveVM(t)
  BY <1>s, <1>4, DiscardFrees DEF RemoveVM, Gone
<1> QED BY <1>2, <1>3, <1>4 DEF SharedStep, CommitTree, ExportBundle, ExportFails, ReleasePcs

(* A step of an actor other than the session leaves its discard alone.      *)
LEMMA DiscardElsewhere ==
  ASSUME TypeOK, NEW a \in Actor, OthersStay(a), NEW t \in Session, t # a,
         task[t].op = "discardResult", task[t].pc \in ReleasePcs
  PROVE  Gone(rec'[t], task'[t])
<1>1. task'[t] = task[t]
  BY DEF OthersStay, ReleasePcs, Actor
<1> QED BY <1>1 DEF Gone

LEMMA SessionGone ==
  ASSUME TypeOK, PoolInv, WorkerInv, NEW s \in Session,
         \/ ClientRequest(s) \/ QueueTimeout(s) \/ CancelParked(s)
         \/ CreationStep(s) \/ ClientStep(s) \/ Age(s)
  PROVE  GoneStays
<1> SUFFICES ASSUME NEW t \in Session, Gone(rec[t], task[t])
             PROVE  Gone(rec'[t], task'[t])
  BY DEF GoneStays
<1>1. CASE rec[t].state = "REJECTED"
  <2>1. [Next]_vars
    BY DEF Next
  <2> QED BY <1>1, <2>1, RejectedStays DEF Gone
<1>2. CASE task[t].op = "discardResult" /\ task[t].pc \in ReleasePcs
  <2>1. CASE s # t
    BY <1>2, <2>1, SessionMovesOne, DiscardElsewhere DEF Actor
  <2>2. CASE s = t
    <3>1. task[s] # NoTask
      BY <1>2, <2>2, NewTaskFields
    <3>2. ~ClientRequest(s)
      BY <3>1 DEF ClientRequest, EnsureNoCreation, EnsureDirect, EnsurePark, NeedsWorker,
         ExecStart, PrepareStart, ApplyStart, KeepStartActive, KeepStart, DiscardStart,
         DestroyStart, CanStart, Locked
    <3>3. ~QueueTimeout(s) /\ ~CancelParked(s)
      BY <1>2, <2>2 DEF QueueTimeout, CancelParked, ReleasePcs
    <3>4. ~CreationStep(s)
      BY <1>2, <2>2 DEF CreationStep, CreationEnds, CreateVM, CreateFails, WorkerReady,
         PrepFails, CreationFailed, ReleasePcs
    <3>5. ~ClientStep(s)
      BY <1>2, <2>2 DEF ClientStep, ExecDone, ExecFails, PrepareDone, KeepExported,
         DiscardUnref, DiscardFails, ApplyPatch, ApplyRefused, ApplyThrows, ApplyDone, ReleasePcs
    <3>6. Age(s)
      BY <3>2, <3>3, <3>4, <3>5
    <3> QED BY <1>2, <3>6 DEF Age, Gone
  <2> QED BY <2>1, <2>2
<1> QED BY <1>1, <1>2 DEF Gone

LEMMA SharedGone ==
  ASSUME TypeOK, PoolInv, WorkerInv, NEW a \in Actor, SharedStep(a)
  PROVE  GoneStays
<1> SUFFICES ASSUME NEW t \in Session, Gone(rec[t], task[t])
             PROVE  Gone(rec'[t], task'[t])
  BY DEF GoneStays
<1>1. CASE rec[t].state = "REJECTED"
  <2>1. [Next]_vars
    BY DEF Next
  <2> QED BY <1>1, <2>1, RejectedStays DEF Gone
<1>2. CASE task[t].op = "discardResult" /\ task[t].pc \in ReleasePcs
  BY <1>2, SharedMovesOne, DiscardElsewhere, DiscardReleases
<1> QED BY <1>1, <1>2 DEF Gone

LEMMA ReaperGone ==
  ASSUME TypeOK, NEW r \in Reaper,
         SweepStart(r) \/ ReaperStep(r) \/ \E s \in Session : DisconnectReap(r, s)
  PROVE  GoneStays
<1> SUFFICES ASSUME NEW t \in Session, Gone(rec[t], task[t])
             PROVE  Gone(rec'[t], task'[t])
  BY DEF GoneStays
<1>1. CASE rec[t].state = "REJECTED"
  <2>1. [Next]_vars
    BY DEF Next
  <2> QED BY <1>1, <2>1, RejectedStays DEF Gone
<1>2. CASE task[t].op = "discardResult" /\ task[t].pc \in ReleasePcs
  <2>1. r \in Actor /\ t # r
    BY ConstantsAssumption DEF Actor
  <2> QED BY <1>2, <2>1, ReaperMovesOne, DiscardElsewhere
<1> QED BY <1>1, <1>2 DEF Gone

-----------------------------------------------------------------------------
(* Steps that touch no tree, commit, bundle or result                      *)

Quiet == UNCHANGED <<tree, head, bundle, ref, made, lost>>

LEMMA ExportQuiet ==
  ASSUME TypeOK, WorkerInv, ExportInv, NEW a \in Actor, OthersStay(a), GoneStays, Quiet,
         SeesNow(a)
  PROVE  ExportInv'
<1>1. OthersKeep(None) /\ Changes(a, None)
  BY DEF Quiet, OthersKeep, Changes, Exports
<1>2. made \subseteq made' /\ None \notin Session /\ ReapKeepsDirty'
  BY ConstantsAssumption DEF Quiet, ExportInv, ReapKeepsDirty
<1> QED BY <1>1, <1>2, ExportStep

(* The task an operation, a step of a creation or an end leaves.            *)
LEMMA SessionSeesNothing ==
  ASSUME TypeOK, WorkerInv', NEW s \in Session, task'[s].pc \notin {"bundle", "fetch"}
  PROVE  SeesNow(s)
<1>1. task'[s].op \notin ExportFirst
  <2>1. SessionTask(s, task'[s])
    BY DEF WorkerInv, ActorInv
  <2> QED BY <2>1, OpNames, NewTaskFields DEF SessionTask
<1> QED BY <1>1, SeesNothing

LEMMA QuietSession ==
  ASSUME TypeOK, PoolInv, WorkerInv, WorkerInv', ExportInv, NEW s \in Session,
         \/ ClientRequest(s) \/ QueueTimeout(s) \/ CancelParked(s)
         \/ CreationStep(s) \/ ClientStep(s) \/ Age(s),
         Quiet, task'[s].pc \notin {"bundle", "fetch"}
  PROVE  ExportInv'
<1>1. s \in Actor
  BY DEF Actor
<1>2. OthersStay(s) /\ GoneStays
  BY SessionMovesOne, SessionGone
<1>3. SeesNow(s)
  BY SessionSeesNothing
<1> QED BY <1>1, <1>2, <1>3, ExportQuiet

(* An actor that stays where it is, or goes on with its release.            *)
LEMMA GoesOn ==
  ASSUME TypeOK, WorkerInv, ExportInv, NEW a \in Actor, GoneStays, Quiet,
         task'[a].op = task[a].op, task'[a].sid = task[a].sid, task'[a].cut = task[a].cut,
         \/ task'[a].pc = task[a].pc
         \/ task'[a].pc \in ReleasePcs /\ task[a].pc \in ReleasePcs
  PROVE  SeesNow(a)
<1> SUFFICES ASSUME task'[a].pc \in OnSession
             PROVE  LET t == task'[a].sid
                    IN  Sees(task'[a], tree'[t], head'[t], bundle'[t], ref'[t], made',
                             Gone(rec'[t], task'[t]))
  BY DEF SeesNow
<1>1. task[a].pc \in OnSession
  BY DEF OnSession, ReleasePcs
<1> DEFINE k == task[a]
           j == task'[a]
           t == k.sid
           g == Gone(rec[t], task[t])
           h == Gone(rec'[t], task'[t])
<1>2. Sees(k, tree[t], head[t], bundle[t], ref[t], made, g)
  BY <1>1 DEF ExportInv, SeesAll
<1>3. g => h
  <2>1. t \in Session
    BY <1>1, ActorFacts
  <2> QED BY <2>1 DEF GoneStays
<1>4. j.op = k.op /\ j.cut = k.cut /\ (j.pc = k.pc \/ (j.pc \in ReleasePcs /\ k.pc \in ReleasePcs))
  OBVIOUS
<1>5. ReleasePcs \cap {"bundle", "fetch"} = {}
  BY DEF ReleasePcs
<1> HIDE DEF g, h, j, k, t
<1>6. Sees(j, tree[t], head[t], bundle[t], ref[t], made, h)
  BY <1>2, <1>3, <1>4, <1>5 DEF Sees, Saw
<1> QED BY <1>6 DEF Quiet, h, j, k, t

LEMMA ExportRequest ==
  ASSUME TypeOK, PoolInv, WorkerInv, WorkerInv', ExportInv, NEW s \in Session,
         ClientRequest(s)
  PROVE  ExportInv'
<1>1. Quiet
  BY DEF ClientRequest, EnsureNoCreation, EnsureDirect, EnsurePark, ExecStart, PrepareStart,
     ApplyStart, KeepStartActive, KeepStart, DiscardStart, DestroyStart, workerVars,
     resultVars, Quiet
<1>2. task \in [Actor -> Task] /\ s \in Actor
  BY DEF TypeOK, PoolType, Actor
<1>3. task[s] = NoTask
  BY DEF ClientRequest, EnsureNoCreation, EnsureDirect, EnsurePark, NeedsWorker, ExecStart,
     PrepareStart, ApplyStart, KeepStartActive, KeepStart, DiscardStart, DestroyStart,
     CanStart, Locked
<1>4. \/ UNCHANGED task \/ task' = [task EXCEPT ![s] = NoTask]
      \/ \E o : \E p \in {"creating", "parked", "exec", "commit", "stop", "unref", "check"} :
           \/ task' = [task EXCEPT ![s] = Begin(o, p, s)]
           \/ task' = [task EXCEPT ![s] = BeginWith(o, p, s, rec[s])]
  BY DEF ClientRequest, EnsureNoCreation, EnsureDirect, EnsurePark, ExecStart, PrepareStart,
     ApplyStart, KeepStartActive, KeepStart, KeepRelease, DiscardStart, DestroyStart
<1>5. task'[s].pc \in {"idle", "creating", "parked", "exec", "commit", "stop", "unref", "check"}
  BY <1>2, <1>3, <1>4, NewTaskFields
<1> QED BY <1>1, <1>5, QuietSession

LEMMA ExportUnpark ==
  ASSUME TypeOK, PoolInv, WorkerInv, WorkerInv', ExportInv, NEW s \in Session,
         QueueTimeout(s) \/ CancelParked(s)
  PROVE  ExportInv'
<1>1. Quiet
  BY DEF QueueTimeout, CancelParked, workerVars, resultVars, Quiet
<1>2. task'[s].pc = "idle"
  <2>0. task \in [Actor -> Task] /\ s \in Actor /\ NoTask \in Task /\ NoTask.pc = "idle"
        /\ rec \in [Session -> SessionRecord] /\ allocations \in Seq(Session)
    BY TaskType, NewTaskFields DEF TypeOK, PoolType, Actor
  <2>1. CASE QueueTimeout(s)
    <3>1. task'[s] = After(task[s])
      BY <2>0, <2>1 DEF QueueTimeout, Finish
    <3>2. After(task[s]) = NoTask
      BY SessionFacts, SessionMoves
    <3> QED BY <2>0, <3>1, <3>2
  <2>2. CASE CancelParked(s)
    <3> DEFINE q == RemoveFirst(queue, s)
    <3>1. DrainQueue(allocations, q, inFlight, rec, [task EXCEPT ![s] = NoTask])
      BY <2>2 DEF CancelParked
    <3>2. q \in Seq(Session) /\ ToSet(q) = ToSet(queue) \ {s} /\ inFlight \in Nat
      BY PoolFacts
    <3>3. ToSet(q) \subseteq ToSet(queue) /\ s \notin ToSet(q)
      BY <3>2
    <3> HIDE DEF q
    <3>4. task'[s] = NoTask
      BY <2>0, <3>1, <3>2, <3>3, DrainMoves
    <3> QED BY <2>0, <3>4
  <2> QED BY <2>1, <2>2
<1> QED BY <1>1, <1>2, QuietSession

LEMMA ExportAge ==
  ASSUME TypeOK, PoolInv, WorkerInv, ExportInv, NEW s \in Session, Age(s)
  PROVE  ExportInv'
<1>1. Quiet /\ task' = task /\ s \in Actor
  BY DEF Age, workerVars, resultVars, Quiet, Actor
<1>2. OthersStay(s) /\ GoneStays
  BY SessionMovesOne, SessionGone
<1>3. SeesNow(s)
  BY <1>1, <1>2, GoesOn
<1> QED BY <1>1, <1>2, <1>3, ExportQuiet

(* The end of a creation, and the record it leaves.                         *)
LEMMA EndQuiet ==
  ASSUME TypeOK, PoolInv, WorkerInv, NEW s \in Session, CreationEnds(s) \/ WorkerReady(s)
  PROVE  task'[s] = NoTask /\ Quiet
<1>s. rec \in [Session -> SessionRecord] /\ rec[s] \in SessionRecord
      /\ allocations \in Seq(Session)
  BY DEF TypeOK, PoolType
<1>q. Quiet
  BY DEF CreationEnds, WorkerReady, workerVars, resultVars, Quiet
<1>1. CASE CreationEnds(s)
  BY <1>s, <1>q, <1>1, EndMoves DEF CreationEnds, CreationPcs
<1>2. CASE WorkerReady(s)
  <2> DEFINE rs == [rec EXCEPT ![s] = WorkerActive(@)]
             al == Append(allocations, s)
  <2>1. EndCreation(s, al, rs) /\ task[s].pc \in CreationPcs
    BY <1>2 DEF WorkerReady, CreationPcs
  <2>2. al \in Seq(Session) /\ rs \in [Session -> SessionRecord]
    BY <1>s, RecordType
  <2> HIDE DEF rs, al
  <2> QED BY <1>q, <2>1, <2>2, EndMoves
<1> QED BY <1>1, <1>2

(* A step to p by the session's own operation.                              *)
LEMMA GotoPc ==
  ASSUME TypeOK, NEW a \in Actor, NEW p, Goto(a, p)
  PROVE  task'[a] = At(task[a], p) /\ task'[a].pc = p /\ task'[a].op = task[a].op
         /\ task'[a].sid = task[a].sid /\ task'[a].cut = task[a].cut
<1>1. task'[a] = At(task[a], p) /\ task[a] \in Task
  BY DEF Goto, TypeOK, PoolType
<1> QED BY <1>1, TaskFields

LEMMA FinishPc ==
  ASSUME TypeOK, WorkerInv, NEW a \in Actor, Finish(a)
  PROVE  task'[a] = After(task[a]) /\ task'[a].pc \in {"idle", "sweep"}
<1>1. task'[a] = After(task[a])
  BY DEF Finish, TypeOK, PoolType
<1>2. \A k : After(k).pc \in {"idle", "sweep"}
  BY NewTaskFields DEF After
<1> QED BY <1>1, <1>2

-----------------------------------------------------------------------------
(* Steps of a session's own operation                                      *)

LEMMA SessionChanges ==
  ASSUME TypeOK, PoolInv, WorkerInv, WorkerInv', ExportInv, NEW s \in Session,
         CreationStep(s) \/ ClientStep(s), task'[s].pc \notin {"bundle", "fetch"},
         OthersKeep(s), Changes(s, s), made \subseteq made',
         tree'[s] \subseteq made', ref'[s] \subseteq made', lost' = lost
  PROVE  ExportInv'
<1>1. s \in Actor
  BY DEF Actor
<1>2. OthersStay(s) /\ GoneStays
  BY SessionMovesOne, SessionGone
<1>3. SeesNow(s) /\ ReapKeepsDirty'
  BY SessionSeesNothing DEF ExportInv, ReapKeepsDirty
<1> QED BY <1>1, <1>2, <1>3, ExportStep

LEMMA ExportCreation ==
  ASSUME TypeOK, PoolInv, WorkerInv, WorkerInv', ExportInv, NEW s \in Session,
         CreationStep(s)
  PROVE  ExportInv'
<1>t. /\ tree \in [Session -> SUBSET Edit] /\ head \in [Session -> SUBSET Edit]
      /\ bundle \in [Session -> SUBSET SUBSET Edit] /\ s \in Actor
  BY DEF TypeOK, WorkerType, ResultType, Actor
<1>m. tree[s] \subseteq made /\ ref[s] \subseteq made
  BY DEF ExportInv, AllMade
<1>1. CASE CreationEnds(s) \/ WorkerReady(s)
  BY <1>1, EndQuiet, NewTaskFields, QuietSession
<1>2. CASE CreateFails(s) \/ PrepFails(s)
  <2>1. Quiet /\ Goto(s, "cleaning")
    BY <1>2 DEF CreateFails, PrepFails, Quiet, workerVars, resultVars
  <2> QED BY <1>t, <2>1, GotoPc, QuietSession
<1>3. CASE CreateVM(s)
  <2>1. PICK base \in {{}, ref[s]} : /\ tree' = [tree EXCEPT ![s] = base]
                                     /\ head' = [head EXCEPT ![s] = base]
    BY <1>3 DEF CreateVM
  <2>2. /\ bundle' = [bundle EXCEPT ![s] = {}] /\ UNCHANGED <<ref, made, lost>>
        /\ Goto(s, "prepping")
    BY <1>3 DEF CreateVM
  <2>3. OthersKeep(s)
    BY <1>t, <2>1, <2>2 DEF OthersKeep
  <2>4. tree'[s] = base /\ head'[s] = base /\ bundle'[s] = {} /\ ref'[s] = ref[s]
    BY <1>t, <2>1, <2>2
  <2>5. Changes(s, s) /\ tree'[s] \subseteq made' /\ ref'[s] \subseteq made'
    BY <1>m, <2>2, <2>4 DEF Changes, Edits
  <2>6. task'[s].pc = "prepping"
    BY <1>t, <2>2, GotoPc
  <2> QED BY <2>2, <2>3, <2>5, <2>6, SessionChanges
<1>4. CASE CreationFailed(s)
  <2>1. PICK left : /\ tree' = [tree EXCEPT ![s] = IF left = "absent" THEN {} ELSE @]
                    /\ head' = [head EXCEPT ![s] = IF left = "absent" THEN {} ELSE @]
    BY <1>4 DEF CreationFailed
  <2>2. UNCHANGED <<bundle, ref, made, lost>> /\ Goto(s, "settling")
    BY <1>4 DEF CreationFailed, resultVars
  <2>3. OthersKeep(s)
    BY <1>t, <2>1, <2>2 DEF OthersKeep
  <2>4. \/ tree'[s] = {} /\ head'[s] = {}
        \/ tree'[s] = tree[s] /\ head'[s] = head[s]
    BY <1>t, <2>1
  <2>5. Changes(s, s) /\ tree'[s] \subseteq made' /\ ref'[s] \subseteq made'
    BY <1>m, <2>2, <2>4 DEF Changes, Exports
  <2>6. task'[s].pc = "settling"
    BY <1>t, <2>2, GotoPc
  <2> QED BY <2>2, <2>3, <2>5, <2>6, SessionChanges
<1> QED BY <1>1, <1>2, <1>3, <1>4 DEF CreationStep

(* The forced fetch of a bundle.                                            *)
LEMMA ImportChanges ==
  ASSUME TypeOK, ExportInv, NEW a, NEW t \in Session, ImportBundle(t), UNCHANGED <<tree, head, made>>
  PROVE  /\ OthersKeep(t) /\ Changes(a, t) /\ ref'[t] \in bundle[t] /\ bundle'[t] = {}
         /\ tree'[t] \subseteq made' /\ ref'[t] \subseteq made'
<1>t. /\ ref \in [Session -> SUBSET Edit] /\ bundle \in [Session -> SUBSET SUBSET Edit]
  BY DEF TypeOK, ResultType
<1>1. PICK c \in bundle[t] : ref' = [ref EXCEPT ![t] = c]
  BY DEF ImportBundle
<1>2. bundle' = [bundle EXCEPT ![t] = {}]
  BY DEF ImportBundle
<1>3. ref'[t] = c /\ bundle'[t] = {} /\ OthersKeep(t)
  BY <1>t, <1>1, <1>2 DEF OthersKeep
<1>4. Changes(a, t)
  BY <1>3 DEF Changes, Exports
<1>5. tree'[t] \subseteq made' /\ ref'[t] \subseteq made'
  BY <1>3 DEF ExportInv, AllMade
<1> QED BY <1>1, <1>3, <1>4, <1>5

LEMMA ExportClient ==
  ASSUME TypeOK, PoolInv, WorkerInv, WorkerInv', ExportInv, NEW s \in Session,
         ClientStep(s)
  PROVE  ExportInv'
<1>t. /\ tree \in [Session -> SUBSET Edit] /\ head \in [Session -> SUBSET Edit]
      /\ bundle \in [Session -> SUBSET SUBSET Edit] /\ ref \in [Session -> SUBSET Edit]
      /\ rec \in [Session -> SessionRecord] /\ task \in [Actor -> Task]
      /\ s \in Actor /\ task[s] \in Task /\ rec[s] \in SessionRecord
  BY DEF TypeOK, PoolType, WorkerType, ResultType, Actor
<1>m. tree[s] \subseteq made /\ ref[s] \subseteq made
  BY DEF ExportInv, AllMade
<1>1. CASE ExecFails(s) \/ DiscardFails(s) \/ ApplyRefused(s) \/ ApplyThrows(s)
  <2>1. Quiet /\ Finish(s)
    BY <1>1 DEF ExecFails, DiscardFails, ApplyRefused, ApplyThrows, Quiet, workerVars, resultVars
  <2> QED BY <1>t, <2>1, FinishPc, QuietSession
<1>2. CASE ApplyPatch(s)
  <2>1. Quiet /\ task' = [task EXCEPT ![s] = AtWith(@, "apply", ref[s])]
    BY <1>2 DEF ApplyPatch, Quiet, workerVars, resultVars
  <2> DEFINE t == AtWith(task[s], "apply", ref[s])
  <2>k. task[s] \in Task
    BY <1>t
  <2>2. \A c : AtWith(task[s], "apply", c).pc = "apply"
    BY <2>k, TaskFields
  <2>4. t.pc = "apply"
    BY <2>2
  <2> HIDE DEF t
  <2>3. task'[s] = t
    BY <1>t, <2>1 DEF t
  <2> QED BY <2>1, <2>4, <2>3, QuietSession
<1>3. CASE ApplyDone(s)
  <2>1. Quiet
    BY <1>3 DEF ApplyDone, Quiet, workerVars
  <2> DEFINE r == WithResult(rec[s], "APPLIED")
             rs == [rec EXCEPT ![s] = Destroyed(r)]
             al == RemoveFirst(allocations, s)
  <2>2. \/ Goto(s, "stop")
        \/ DrainQueue(al, queue, inFlight, rs, [task EXCEPT ![s] = NoTask])
    BY <1>3 DEF ApplyDone
  <2>3. al \in Seq(Session) /\ queue \in Seq(Session) /\ inFlight \in Nat /\ s \notin ToSet(queue)
    BY <1>t, <1>3, PoolFacts DEF ApplyDone
  <2>4. rs \in [Session -> SessionRecord]
    <3>1. Destroyed(r) \in SessionRecord
      BY <1>t, Names, RecordType
    <3> QED BY <1>t, <3>1
  <2>5. NoTask \in Task /\ NoTask.pc = "idle"
    BY TaskType, NewTaskFields
  <2> HIDE DEF rs, al
  <2>6. task'[s].pc \in {"idle", "stop"}
    BY <1>t, <2>2, <2>3, <2>4, <2>5, GotoPc, DrainMoves
  <2> QED BY <2>1, <2>6, QuietSession
<1>4. CASE ExecDone(s)
  <2>1. PICK e \in Edit \ made : /\ tree' = [tree EXCEPT ![s] = @ \cup {e}]
                                 /\ made' = made \cup {e}
    BY <1>4 DEF ExecDone
  <2>2. /\ head' = head \/ head' = [head EXCEPT ![s] = tree'[s]]
        /\ UNCHANGED <<bundle, ref, lost>> /\ Finish(s)
    BY <1>4 DEF ExecDone, resultVars
  <2>3. OthersKeep(s)
    BY <1>t, <2>1, <2>2 DEF OthersKeep
  <2>4. /\ tree'[s] = tree[s] \cup {e} /\ head'[s] \in {head[s], tree'[s]}
        /\ bundle'[s] = bundle[s] /\ ref'[s] = ref[s]
    BY <1>t, <2>1, <2>2
  <2>5. Changes(s, s)
    BY <2>1, <2>4 DEF Changes, Edits
  <2>6. /\ made \subseteq made' /\ tree'[s] \subseteq made' /\ ref'[s] \subseteq made'
    BY <1>m, <2>1, <2>4
  <2>7. task'[s].pc \in {"idle", "sweep"}
    BY <1>t, <2>2, FinishPc
  <2> QED BY <2>2, <2>3, <2>5, <2>6, <2>7, SessionChanges
<1>5. CASE PrepareDone(s) \/ KeepExported(s)
  <2>1. ImportBundle(s) /\ UNCHANGED <<tree, head, made, lost>>
    BY <1>5 DEF PrepareDone, KeepExported, workerVars
  <2>2. \/ Finish(s) \/ task' = [task EXCEPT ![s] = Begin("keepResult", "stop", s)]
        \/ task' = [task EXCEPT ![s] = NoTask]
    BY <1>5 DEF PrepareDone, KeepExported, KeepRelease
  <2>3. task'[s].pc \in {"idle", "sweep", "stop"}
    BY <1>t, <2>2, FinishPc, NewTaskFields
  <2>4. /\ OthersKeep(s) /\ Changes(s, s) /\ tree'[s] \subseteq made' /\ ref'[s] \subseteq made'
    BY <2>1, ImportChanges
  <2> QED BY <2>1, <2>3, <2>4, SessionChanges
<1>6. CASE DiscardUnref(s)
  <2>1. /\ ref' = [ref EXCEPT ![s] = IF s \in HomeSession THEN {} ELSE @]
        /\ UNCHANGED <<tree, head, made, lost, bundle>>
        /\ task[s].pc = "unref" /\ (Goto(s, "stop") \/ FreeAllocation(s, task[s]))
    BY <1>6 DEF DiscardUnref, workerVars
  <2>2. task[s].op = "discardResult" /\ task[s].pc \in OnSession
    BY <2>1, SessionFacts DEF SessionTask, OnSession
  <2>3. Gone(rec'[s], task'[s]) /\ task'[s].pc \in {"idle", "sweep", "stop"}
    <3>1. CASE Goto(s, "stop")
      BY <1>t, <2>2, <3>1, GotoPc DEF Gone, ReleasePcs
    <3>2. CASE FreeAllocation(s, task[s])
      <4>1. task'[s] = After(task[s]) /\ \A k : After(k).pc \in {"idle", "sweep"}
        BY <1>t, <2>2, <3>2, FreeMoves, NewTaskFields DEF After
      <4> QED BY <2>2, <3>2, <4>1, DiscardFrees DEF Gone
    <3> QED BY <2>1, <3>1, <3>2
  <2>4. OthersKeep(s) /\ ref'[s] \subseteq ref[s]
    BY <1>t, <2>1 DEF OthersKeep
  <2>5. Changes(s, s)
    BY <2>1, <2>3 DEF Changes, Exports
  <2> QED BY <1>m, <2>1, <2>3, <2>4, <2>5, SessionChanges
<1> QED BY <1>1, <1>2, <1>3, <1>4, <1>5, <1>6 DEF ClientStep

-----------------------------------------------------------------------------
(* Steps of an export and of a release                                     *)

(* A step to p of an actor, which answers for what it saw there.            *)
LEMMA SharedChanges ==
  ASSUME TypeOK, PoolInv, WorkerInv, ExportInv, NEW a \in Actor,
         SharedStep(a), task[a].pc \in OnSession, NEW t, t = task[a].sid, OthersKeep(t),
         Exports(tree[t], head[t], bundle[t], ref[t],
                 tree'[t], head'[t], bundle'[t], ref'[t], Gone(rec'[t], task'[t])),
         ref'[t] = ref[t], tree'[t] \subseteq tree[t], made' = made,
         SeesNow(a), ReapKeepsDirty'
  PROVE  ExportInv'
<1>1. OthersStay(a) /\ GoneStays
  BY SharedMovesOne, SharedGone
<1>2. t \in Session
  BY ActorFacts
<1>3. tree'[t] \subseteq made' /\ ref'[t] \subseteq made'
  BY <1>2 DEF ExportInv, AllMade
<1> QED BY <1>1, <1>3, ExportStep DEF Changes

(* Nothing is lost that a reap saw: it is in the result, or the result is   *)
(* thrown away by the client.                                               *)
LEMMA DropKeeps ==
  ASSUME TypeOK, WorkerInv, ExportInv, NEW a \in Actor, task[a].pc \in ReleasePcs,
         DropVM(task[a])
  PROVE  ReapKeepsDirty'
<1> DEFINE k == task[a]
           t == k.sid
<1>1. Sees(k, tree[t], head[t], bundle[t], ref[t], made, Gone(rec[t], task[t]))
  BY DEF ExportInv, SeesAll, ReleasePcs, OnSession
<1>2. CASE k.op \in ExportFirst /\ task[t].op # "discardResult" /\ rec[t].state # "REJECTED"
  <2>1. lost' = lost \cup {<<e, IF e \in k.cut THEN "seen" ELSE "raced">> : e \in tree[t] \ ref[t]}
    BY <1>2 DEF DropVM
  <2>2. k.cut \cap tree[t] \subseteq ref[t]
    BY <1>1, <1>2 DEF Sees, Saw, Gone
  <2>3. \A e \in Edit : <<e, "seen">> \notin lost
    BY DEF ExportInv, ReapKeepsDirty
  <2> HIDE DEF k, t
  <2>4. ASSUME NEW e \in Edit, <<e, "seen">> \in lost' PROVE FALSE
    <3>1. PICK x \in tree[t] \ ref[t] : <<e, "seen">> = <<x, IF x \in k.cut THEN "seen" ELSE "raced">>
      BY <2>1, <2>3, <2>4
    <3> QED BY <2>2, <3>1
  <2> QED BY <2>4 DEF ReapKeepsDirty
<1>3. CASE ~(k.op \in ExportFirst /\ task[t].op # "discardResult" /\ rec[t].state # "REJECTED")
  BY <1>3 DEF DropVM, ExportInv, ReapKeepsDirty
<1> QED BY <1>2, <1>3

LEMMA ExportShared ==
  ASSUME TypeOK, PoolInv, WorkerInv, ExportInv, NEW a \in Actor, SharedStep(a)
  PROVE  ExportInv'
<1> DEFINE k == task[a]
           t == k.sid
<1>t. /\ tree \in [Session -> SUBSET Edit] /\ head \in [Session -> SUBSET Edit]
      /\ bundle \in [Session -> SUBSET SUBSET Edit] /\ ref \in [Session -> SUBSET Edit]
  BY DEF TypeOK, WorkerType, ResultType
<1>p. k.pc \in ExportPcs \cup ReleasePcs
  BY DEF SharedStep, CommitTree, ExportBundle, ExportFails, StopVM, RemoveVM, RemoveFails,
     ExportPcs, ReleasePcs
<1>o. k.pc \in OnSession
  BY <1>p DEF ExportPcs, ReleasePcs, OnSession
<1>s. t \in Session
  BY <1>o, ActorFacts
<1>i. Sees(k, tree[t], head[t], bundle[t], ref[t], made, Gone(rec[t], task[t]))
  BY <1>o DEF ExportInv, SeesAll
<1>g. OthersStay(a) /\ GoneStays
  BY SharedMovesOne, SharedGone
<1>1. CASE CommitTree(a)
  <2>1. /\ head' = [head EXCEPT ![t] = tree[t]] /\ UNCHANGED <<tree, bundle, ref, made, lost>>
        /\ Goto(a, "bundle") /\ k.pc = "commit"
    BY <1>1 DEF CommitTree, resultVars
  <2>2. OthersKeep(t) /\ head'[t] = tree[t]
    BY <1>t, <1>s, <2>1 DEF OthersKeep
  <2>3. /\ task'[a].pc = "bundle" /\ task'[a].op = k.op /\ task'[a].sid = t
        /\ task'[a].cut = k.cut
    BY <2>1, GotoPc
  <2>4. k.op \in ExportFirst => k.cut \subseteq made
    BY <1>i, <2>1 DEF Sees, ExportPcs
  <2>5. SeesNow(a)
    BY <2>1, <2>2, <2>3, <2>4 DEF SeesNow, Sees, Saw, ReleasePcs
  <2>6. Exports(tree[t], head[t], bundle[t], ref[t],
                tree'[t], head'[t], bundle'[t], ref'[t], Gone(rec'[t], task'[t]))
    BY <2>1, <2>2 DEF Exports
  <2>7. ReapKeepsDirty' /\ tree'[t] \subseteq tree[t] /\ ref'[t] = ref[t] /\ made' = made
    BY <2>1 DEF ExportInv, ReapKeepsDirty
  <2> HIDE DEF t
  <2> QED BY <1>o, <2>2, <2>5, <2>6, <2>7, SharedChanges DEF t
<1>2. CASE ExportBundle(a)
  <2>1. /\ bundle' = [bundle EXCEPT ![t] = {head[t]}] /\ UNCHANGED <<tree, head, ref, made, lost>>
        /\ Goto(a, "fetch") /\ k.pc = "bundle"
    BY <1>2 DEF ExportBundle, workerVars
  <2>2. OthersKeep(t) /\ bundle'[t] = {head[t]}
    BY <1>t, <1>s, <2>1 DEF OthersKeep
  <2>3. /\ task'[a].pc = "fetch" /\ task'[a].op = k.op /\ task'[a].sid = t
        /\ task'[a].cut = k.cut
    BY <2>1, GotoPc
  <2>4. (k.op \in ExportFirst => k.cut \subseteq made) /\ Saw(k, tree[t]) \subseteq head[t]
    BY <1>i, <2>1 DEF Sees, ExportPcs
  <2>5. SeesNow(a)
    BY <2>1, <2>2, <2>3, <2>4 DEF SeesNow, Sees, Saw, ReleasePcs
  <2>6. Exports(tree[t], head[t], bundle[t], ref[t],
                tree'[t], head'[t], bundle'[t], ref'[t], Gone(rec'[t], task'[t]))
    BY <2>1, <2>2 DEF Exports
  <2>7. ReapKeepsDirty' /\ tree'[t] \subseteq tree[t] /\ ref'[t] = ref[t] /\ made' = made
    BY <2>1 DEF ExportInv, ReapKeepsDirty
  <2> HIDE DEF t
  <2> QED BY <1>o, <2>2, <2>5, <2>6, <2>7, SharedChanges DEF t
<1>3. CASE Quiet /\ Finish(a)
  <2>1. SeesNow(a)
    BY <1>3, FinishPc DEF SeesNow, OnSession
  <2> QED BY <1>3, <1>g, <2>1, ExportQuiet
<1>4. CASE Quiet /\ k.pc \in ReleasePcs /\ \E p \in ReleasePcs : Goto(a, p)
  <2>1. SeesNow(a)
    <3>1. PICK p \in ReleasePcs : Goto(a, p)
      BY <1>4
    <3> QED BY <1>4, <1>g, <3>1, GotoPc, GoesOn
  <2> QED BY <1>4, <1>g, <2>1, ExportQuiet
<1>5. CASE /\ k.pc \in ReleasePcs /\ DropVM(k) /\ UNCHANGED resultVars
           /\ \/ task'[a] = After(k)
              \/ \E p \in ReleasePcs : Goto(a, p)
  <2>1. /\ tree' = [tree EXCEPT ![t] = {}] /\ head' = [head EXCEPT ![t] = {}]
        /\ UNCHANGED <<bundle, ref, made>>
    BY <1>5 DEF DropVM, resultVars
  <2>2. OthersKeep(t) /\ tree'[t] = {} /\ head'[t] = {}
    BY <1>t, <1>s, <2>1 DEF OthersKeep
  <2>3. ReapKeepsDirty'
    BY <1>5, DropKeeps
  <2>4. SeesNow(a)
    <3>1. CASE task'[a] = After(k)
      <4>1. \A i : After(i).pc \notin OnSession
        BY NewTaskFields DEF After, OnSession
      <4> QED BY <3>1, <4>1 DEF SeesNow
    <3>2. CASE \E p \in ReleasePcs : Goto(a, p)
      <4>1. PICK p \in ReleasePcs : Goto(a, p)
        BY <3>2
      <4>2. /\ task'[a].pc \in ReleasePcs /\ task'[a].op = k.op /\ task'[a].sid = t
            /\ task'[a].cut = k.cut
        BY <4>1, GotoPc
      <4>3. k.op \in ExportFirst => k.cut \subseteq made
        BY <1>5, <1>i DEF Sees
      <4> QED BY <2>1, <2>2, <4>2, <4>3 DEF SeesNow, Sees, Saw, ReleasePcs
    <3> QED BY <1>5, <3>1, <3>2
  <2>5. Exports(tree[t], head[t], bundle[t], ref[t],
                tree'[t], head'[t], bundle'[t], ref'[t], Gone(rec'[t], task'[t]))
    BY <2>1, <2>2 DEF Exports
  <2>6. tree'[t] \subseteq tree[t] /\ ref'[t] = ref[t] /\ made' = made
    BY <2>1, <2>2
  <2> HIDE DEF t
  <2> QED BY <1>o, <2>2, <2>3, <2>4, <2>5, <2>6, SharedChanges DEF t
<1>6. CASE ExportFails(a)
  BY <1>3, <1>6 DEF ExportFails, Quiet, workerVars, resultVars
<1>7. CASE StopVM(a)
  BY <1>4, <1>7 DEF StopVM, Quiet, resultVars, ReleasePcs
<1>8. CASE RemoveVM(a)
  <2>1. task'[a] = After(k)
    BY <1>o, <1>8, FreeMoves DEF RemoveVM
  <2> QED BY <1>5, <1>8, <2>1 DEF RemoveVM, ReleasePcs
<1>9. CASE RemoveFails(a)
  <2>1. /\ k.pc \in ReleasePcs /\ UNCHANGED resultVars
        /\ Finish(a) \/ \E p \in ReleasePcs : Goto(a, p)
    BY <1>9 DEF RemoveFails, ReleasePcs
  <2>2. Finish(a) => task'[a] = After(k)
    BY FinishPc
  <2>3. UNCHANGED workerVars => Quiet
    BY <2>1 DEF Quiet, workerVars, resultVars
  <2>4. UNCHANGED workerVars \/ DropVM(k)
    BY <1>9 DEF RemoveFails
  <2> QED BY <1>3, <1>4, <1>5, <2>1, <2>2, <2>3, <2>4
<1> QED BY <1>1, <1>2, <1>6, <1>7, <1>8, <1>9 DEF SharedStep

-----------------------------------------------------------------------------
(* Steps of the reaper                                                     *)

LEMMA ReaperQuiet ==
  ASSUME TypeOK, WorkerInv, ExportInv, NEW r \in Reaper,
         SweepStart(r) \/ ReaperStep(r) \/ (\E s \in Session : DisconnectReap(r, s)),
         Quiet, SeesNow(r)
  PROVE  ExportInv'
<1>1. r \in Actor
  BY DEF Actor
<1>2. OthersStay(r)
  BY ReaperMovesOne
<1>3. GoneStays
  BY ReaperGone
<1> QED BY <1>1, <1>2, <1>3, ExportQuiet

(* A sweep that resumes looks at the status of a worker before it exports.  *)
LEMMA ResumeSees ==
  ASSUME NEW k \in Task, k.op \in SweepOp, NEW j \in Resume(k)
  PROVE  j.pc \in {"idle", "status", "stop"} /\ (j.op \in ExportFirst => j.pc = "status")
<1>1. ASSUME NEW i \in Task, i.op \in SweepOp, NEW y \in Takes(i)
      PROVE  y.pc \in {"idle", "status", "stop"} /\ (y.op \in ExportFirst => y.pc = "status")
  <2>1. PICK s \in {z \in i.todo : ~Busy(z)}, K \in SUBSET {z \in i.todo : Busy(z)} :
          y = Visit(i, s, i.todo \ (K \cup {s}))
    BY DEF Takes
  <2>2. i \in TaskRecord
    BY DEF Task
  <2>3. y.op = i.op /\ y.pc = IF i.op = "sweepUnfinished" THEN "status" ELSE "stop"
    BY <2>1, <2>2 DEF Visit, TaskRecord
  <2> QED BY <1>1, <2>3 DEF ExportFirst, SweepOp
<1>2. Phase("sweepIdle") \in Task /\ Phase("sweepIdle").op \in SweepOp
  BY TaskType, NewTaskFields DEF Phase, Listed, SweepOp
<1>3. NoTask.pc = "idle" /\ NoTask.op \notin ExportFirst
  BY NewTaskFields, OpNames
<1> QED BY <1>1, <1>2, <1>3 DEF Resume

LEMMA ExportReaper ==
  ASSUME TypeOK, WorkerInv, ExportInv, NEW r \in Reaper,
         SweepStart(r) \/ ReaperStep(r) \/ \E s \in Session : DisconnectReap(r, s)
  PROVE  ExportInv'
<1>t. /\ task \in [Actor -> Task] /\ r \in Actor /\ task[r] \in Task
      /\ tree \in [Session -> SUBSET Edit]
  BY DEF TypeOK, PoolType, WorkerType, Actor
<1>g. OthersStay(r) /\ GoneStays
  BY ReaperMovesOne, ReaperGone
<1>1. ASSUME Quiet, NEW j, task' = [task EXCEPT ![r] = j],
             j.pc \in {"idle", "status", "stop"},
             j.op \in ExportFirst /\ j.pc = "stop" => j.cut = {}
      PROVE  ExportInv'
  <2>1. task'[r] = j
    BY <1>t, <1>1
  <2>2. SeesNow(r)
    <3>1. ASSUME NEW T, NEW H, NEW B, NEW R, NEW M, NEW g
          PROVE  Sees(j, T, H, B, R, M, g)
      BY <1>1 DEF Sees, Saw, ExportPcs, ReleasePcs
    <3> QED BY <2>1, <3>1 DEF SeesNow
  <2> QED BY <1>1, <2>2, ReaperQuiet
<1>2. CASE SweepStart(r)
  <2> DEFINE k == Phase("sweepUnfinished")
  <2>1. PICK j \in Resume(k) : task' = [task EXCEPT ![r] = j]
    BY <1>2 DEF SweepStart
  <2>2. Quiet
    BY <1>2 DEF SweepStart, Quiet, workerVars, resultVars
  <2>3. k \in Task /\ k.op \in SweepOp
    BY TaskType, NewTaskFields DEF Phase, Listed, SweepOp
  <2> HIDE DEF k
  <2>4. j.pc \in {"idle", "status", "stop"} /\ (j.op \in ExportFirst => j.pc = "status")
    BY <2>1, <2>3, ResumeSees
  <2> QED BY <1>1, <2>1, <2>2, <2>4
<1>3. CASE \E s \in Session : DisconnectReap(r, s)
  <2>1. PICK s \in Session : DisconnectReap(r, s)
    BY <1>3
  <2>2. Quiet /\ task' = [task EXCEPT ![r] = Begin("reapOnDisconnect", "status", s)]
    BY <2>1 DEF DisconnectReap, Quiet, workerVars, resultVars
  <2> DEFINE j == Begin("reapOnDisconnect", "status", s)
  <2>3. j.pc = "status"
    BY NewTaskFields
  <2> HIDE DEF j
  <2> QED BY <1>1, <2>2, <2>3 DEF j
<1>4. CASE StatusClean(r)
  <2> DEFINE c == {}
             j == AtWith(task[r], "stop", c)
  <2>1. Quiet /\ task' = [task EXCEPT ![r] = j]
    BY <1>4 DEF StatusClean, Quiet, workerVars, resultVars
  <2> HIDE DEF c
  <2>2. j.cut = c /\ j.pc = "stop"
    BY <1>t DEF AtWith, Task, TaskRecord
  <2> HIDE DEF j
  <2> QED BY <1>1, <2>1, <2>2 DEF c
<1>5. CASE StatusDirty(r)
  <2> DEFINE t == task[r].sid
  <2>1. Quiet
    BY <1>5 DEF StatusDirty, Quiet, workerVars, resultVars
  <2>2. CASE Finish(r)
    <3>1. SeesNow(r)
      BY <1>t, <2>2, FinishPc DEF SeesNow, OnSession
    <3> QED BY <1>5, <2>1, <3>1, ReaperQuiet DEF ReaperStep
  <2>3. CASE task' = [task EXCEPT ![r] = AtWith(task[r], "commit", tree[t])]
    <3>1. task'[r] = AtWith(task[r], "commit", tree[t])
      BY <1>t, <2>3
    <3>2. task'[r].pc = "commit" /\ task'[r].cut = tree[t] /\ task'[r].sid = t
      BY <1>t, <3>1, TaskFields
    <3>3. t \in Session
      BY <1>t, <1>5 DEF StatusDirty, Task, OnSession
    <3>4. tree[t] \subseteq made'
      BY <2>1, <3>3 DEF ExportInv, AllMade, Quiet
    <3>5. SeesNow(r)
      BY <3>2, <3>4 DEF SeesNow, Sees, ReleasePcs
    <3> QED BY <1>5, <2>1, <3>5, ReaperQuiet DEF ReaperStep
  <2> QED BY <1>5, <2>2, <2>3 DEF StatusDirty
<1>6. CASE ReapExported(r)
  <2> DEFINE k == task[r]
             t == k.sid
  <2>1. /\ k.op \in ExportFirst /\ k.pc = "fetch" /\ ImportBundle(t)
        /\ UNCHANGED <<tree, head, made, lost>> /\ task'[r] = Exported(k)
    BY <1>t, <1>6 DEF ReapExported, workerVars
  <2>2. t \in Session
    BY <1>t, <2>1 DEF Task, OnSession
  <2>3. /\ OthersKeep(t) /\ Changes(r, t) /\ ref'[t] \in bundle[t] /\ bundle'[t] = {}
        /\ tree'[t] \subseteq made' /\ ref'[t] \subseteq made'
    BY <2>1, <2>2, ImportChanges
  <2>4. /\ task'[r].pc = "stop" /\ task'[r].op = k.op /\ task'[r].sid = t
        /\ task'[r].cut = k.cut
    BY <1>t, <2>1, TaskFields
  <2>o. k.pc \in OnSession
    BY <2>1 DEF OnSession
  <2>5. Sees(k, tree[t], head[t], bundle[t], ref[t], made, Gone(rec[t], task[t]))
    BY <1>t, <2>o DEF ExportInv, SeesAll
  <2>6. /\ k.cut \subseteq made /\ k.cut \cap tree[t] \subseteq head[t]
        /\ \A c \in bundle[t] : k.cut \cap tree[t] \subseteq c
    BY <2>1, <2>5 DEF Sees, Saw, ExportPcs
  <2>7. SeesNow(r)
    BY <2>1, <2>3, <2>4, <2>6 DEF SeesNow, Sees, Saw
  <2>8. ReapKeepsDirty' /\ made \subseteq made'
    BY <2>1 DEF ExportInv, ReapKeepsDirty
  <2> HIDE DEF t
  <2> QED BY <1>t, <1>g, <2>3, <2>7, <2>8, ExportStep
<1>7. CASE SweepResume(r)
  <2>1. PICK j \in Resume(task[r]) : task' = [task EXCEPT ![r] = j]
    BY <1>7 DEF SweepResume
  <2>2. Quiet
    BY <1>7 DEF SweepResume, Quiet, workerVars, resultVars
  <2>3. task[r].op \in SweepOp
    BY <1>7 DEF SweepResume, WorkerInv, ActorInv, ReaperTask
  <2>4. j.pc \in {"idle", "status", "stop"} /\ (j.op \in ExportFirst => j.pc = "status")
    BY <1>t, <2>1, <2>3, ResumeSees
  <2> QED BY <1>1, <2>1, <2>2, <2>4
<1> QED BY <1>2, <1>3, <1>4, <1>5, <1>6, <1>7 DEF ReaperStep

-----------------------------------------------------------------------------
(* Crashes, and the invariant                                              *)

LEMMA ExportCrash ==
  ASSUME TypeOK, ExportInv, Crash
  PROVE  ExportInv'
<1>1. SeesAll'
  <2>1. \A a \in Actor : task'[a] = NoTask
    BY DEF Crash
  <2>2. NoTask.pc \notin OnSession
    BY NewTaskFields DEF OnSession
  <2> QED BY <2>1, <2>2 DEF SeesAll
<1>2. AllMade'
  <2> SUFFICES ASSUME NEW s \in Session
               PROVE  /\ tree'[s] \subseteq made' /\ head'[s] \subseteq made'
                      /\ ref'[s] \subseteq made' /\ \A c \in bundle'[s] : c \subseteq made'
    BY DEF AllMade
  <2>1. /\ tree[s] \subseteq made /\ head[s] \subseteq made /\ ref[s] \subseteq made
        /\ \A c \in bundle[s] : c \subseteq made
    BY DEF ExportInv, AllMade
  <2>2. bundle' = bundle /\ made' = made
    BY DEF Crash
  <2>3. /\ tree'[s] \in {{}, tree[s]} /\ head'[s] \in {{}, tree[s], head[s]}
        /\ ref'[s] \in {UNION bundle[s], ref[s]}
    BY DEF Crash
  <2> QED BY <2>1, <2>2, <2>3
<1>3. ReapKeepsDirty'
  BY DEF Crash, ExportInv, ReapKeepsDirty
<1> QED BY <1>1, <1>2, <1>3 DEF ExportInv

LEMMA ExportInit == Init => ExportInv
<1> SUFFICES ASSUME Init PROVE ExportInv
  OBVIOUS
<1>1. AllMade /\ ReapKeepsDirty
  BY DEF Init, AllMade, ReapKeepsDirty
<1>2. NoTask.pc \notin OnSession
  BY NewTaskFields DEF OnSession
<1>3. SeesAll
  BY <1>2 DEF Init, SeesAll
<1> QED BY <1>1, <1>3 DEF ExportInv

LEMMA ExportInvStep ==
  ASSUME TypeOK, PoolInv, WorkerInv, WorkerInv', ExportInv, [Next]_vars
  PROVE  ExportInv'
<1>1. CASE UNCHANGED vars
  <2>1. UNCHANGED <<rec, tree, head, made, lost, bundle, ref, task>>
    BY <1>1 DEF vars, workerVars, resultVars
  <2> QED BY <2>1 DEF ExportInv, AllMade, SeesAll, ReapKeepsDirty
<1> QED BY <1>1, ExportRequest, ExportUnpark, ExportCreation, ExportClient, ExportAge,
     ExportShared, ExportReaper, ExportCrash DEF Next

(* The invariant is inductive.                                              *)
LEMMA ExportCorrect == Spec => []ExportInv
<1>1. TypeOK /\ PoolInv /\ WorkerInv /\ WorkerInv' /\ ExportInv /\ [Next]_vars => ExportInv'
  BY ExportInvStep
<1> QED BY <1>1, ExportInit, TypeCorrect, PoolCorrect, WorkerCorrect, PTL DEF Spec

(* A reap that found a worker dirty never removes it with an edit it saw    *)
(* that is not in the result (finishOrReleaseActive, releaseWorker), unless *)
(* the client threw the result away.                                        *)
THEOREM ReapKeepsEdits == Spec => []ReapKeepsDirty
<1>1. ExportInv => ReapKeepsDirty
  BY DEF ExportInv
<1> QED BY <1>1, ExportCorrect, PTL

(* What a finish may do to session s: nothing in the worker is missing from *)
(* the result when the session becomes RESULT_READY.                        *)
FinishedWell(s) ==
  /\ task[s].op \in {"prepareResult", "keepResult"}
  /\ task[s].pc = "fetch" /\ task'[s] # task[s]
  /\ rec[s].state = "SANDBOX_ACTIVE" /\ rec'[s].state = "RESULT_READY"
  => tree[s] \subseteq ref'[s]

LEMMA FinishStep ==
  ASSUME TypeOK, PoolInv, WorkerInv, ExportInv, [Next]_vars, NEW s \in Session
  PROVE  FinishedWell(s)
<1> SUFFICES ASSUME task[s].op \in {"prepareResult", "keepResult"},
                    task[s].pc = "fetch", task'[s] # task[s],
                    rec[s].state = "SANDBOX_ACTIVE", rec'[s].state = "RESULT_READY"
             PROVE  tree[s] \subseteq ref'[s]
  BY DEF FinishedWell
<1>s. s \in Actor /\ task[s] # NoTask /\ task[s].sid = s /\ task[s].pc \in OnSession
  BY ActorFacts, NewTaskFields DEF Actor, OnSession
<1>1. ASSUME NEW a \in Actor, OthersStay(a) PROVE a = s
  BY <1>s, <1>1 DEF OthersStay
<1>2. rec' # rec /\ task' # task
  OBVIOUS
<1>3. ASSUME NEW u \in Session,
             \/ ClientRequest(u) \/ QueueTimeout(u) \/ CancelParked(u)
             \/ CreationStep(u) \/ ClientStep(u) \/ Age(u)
      PROVE  tree[s] \subseteq ref'[s]
  <2>1. u = s
    BY <1>1, <1>3, SessionMovesOne DEF Actor
  <2>2. ~ClientRequest(s)
    BY <1>s DEF ClientRequest, EnsureNoCreation, EnsureDirect, EnsurePark, NeedsWorker,
       ExecStart, PrepareStart, ApplyStart, KeepStartActive, KeepStart, DiscardStart,
       DestroyStart, CanStart, Locked
  <2>3. ~QueueTimeout(s) /\ ~CancelParked(s) /\ ~Age(s)
    BY <1>2 DEF QueueTimeout, CancelParked, Age
  <2>4. ~CreationStep(s)
    BY DEF CreationStep, CreationEnds, CreateVM, CreateFails, WorkerReady, PrepFails,
       CreationFailed
  <2>5. PrepareDone(s) \/ KeepExported(s)
    BY <1>3, <2>1, <2>2, <2>3, <2>4 DEF ClientStep, ExecDone, ExecFails, DiscardUnref,
       DiscardFails, ApplyPatch, ApplyRefused, ApplyThrows, ApplyDone
  <2>6. ImportBundle(s) /\ UNCHANGED <<tree, head, made>>
    BY <2>5 DEF PrepareDone, KeepExported, workerVars
  <2>7. ref'[s] \in bundle[s]
    BY <2>6, ImportChanges
  <2>8. Sees(task[s], tree[s], head[s], bundle[s], ref[s], made, Gone(rec[s], task[s]))
    BY <1>s DEF ExportInv, SeesAll
  <2>9. task[s].op \notin ExportFirst
    BY DEF ExportFirst
  <2>10. \A c \in bundle[s] : tree[s] \subseteq c
    BY <2>8, <2>9 DEF Sees, Saw
  <2> QED BY <2>7, <2>10
<1>4. ASSUME NEW a \in Actor, SharedStep(a) PROVE FALSE
  <2>1. a = s
    BY <1>1, <1>4, SharedMovesOne
  <2>2. ExportFails(s)
    BY <1>4, <2>1 DEF SharedStep, CommitTree, ExportBundle, StopVM, RemoveVM, RemoveFails
  <2> QED BY <1>2, <2>2 DEF ExportFails
<1>5. ASSUME NEW r \in Reaper,
             SweepStart(r) \/ ReaperStep(r) \/ \E u \in Session : DisconnectReap(r, u)
      PROVE  FALSE
  <2>1. r \in Actor /\ r # s
    BY ConstantsAssumption DEF Actor
  <2> QED BY <1>1, <1>5, <2>1, ReaperMovesOne
<1>6. CASE Crash \/ UNCHANGED vars
  BY <1>2, <1>6 DEF Crash, vars
<1> QED BY <1>3, <1>4, <1>5, <1>6 DEF Next

(* finish exports everything: when prepareResult, or keepResult on an       *)
(* active session, makes the session RESULT_READY, every edit in the worker *)
(* is in the result, whatever the reaper exported or removed meanwhile.     *)
THEOREM FinishExports == Spec => FinishExportsAll
<1>1. ASSUME TypeOK, PoolInv, WorkerInv, ExportInv, [Next]_vars
      PROVE  [\A s \in Session :
               /\ task[s].op \in {"prepareResult", "keepResult"}
               /\ task[s].pc = "fetch" /\ task'[s] # task[s]
               /\ rec[s].state = "SANDBOX_ACTIVE" /\ rec'[s].state = "RESULT_READY"
               => tree[s] \subseteq ref'[s]]_vars
  BY <1>1, FinishStep DEF FinishedWell
<1> QED BY <1>1, TypeCorrect, PoolCorrect, WorkerCorrect, ExportCorrect, PTL
        DEF Spec, FinishExportsAll

=============================================================================

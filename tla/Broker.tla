------------------------------- MODULE Broker -------------------------------
(***************************************************************************)
(* The broker core: the worker pool with its FIFO queue, the life of a     *)
(* session's worker and result, the reaper, client disconnects and broker  *)
(* crashes (broker/src/service.ts, queue.ts, policy.ts, reaper.ts,         *)
(* server.ts).                                                             *)
(*                                                                         *)
(* The broker is one event loop: a handler runs without interruption from  *)
(* one await to the next, so an action is the code between two awaits.     *)
(* An await is a command of msb or git in flight; its outcome (success,    *)
(* failure, failure after the effect landed) is chosen when it completes.  *)
(*                                                                         *)
(* An actor is a session (the client operation that holds that session's   *)
(* lock) or a reaper task, which takes no lock.                            *)
(***************************************************************************)
EXTENDS Naturals, SequencesExt, SessionState

CONSTANTS
  Session,      \* session ids
  Reaper,       \* reaper tasks that may be under way at once
  Edit,         \* edits clients make in workers
  Slots,        \* budget.maxWorkers of policy.ts
  QueueMax,     \* config.queueMaxLength
  ClientOps,    \* operations the clients of this instance issue
  Faults,       \* commands that may fail in this instance
  MaxCrashes,   \* bound on broker crashes
  HomeSession,  \* sessions whose project is the broker's own working directory
  None          \* no session

ASSUME ConstantsAssumption ==
  /\ Slots \in Nat
  /\ QueueMax \in Nat
  /\ MaxCrashes \in Nat
  /\ None \notin Session
  /\ Session \cap Reaper = {}

VARIABLES
  rec,          \* the persisted record of each session
  vm,           \* the msb VM named after the session
  tree, head,   \* edits in the worker's working tree / in its HEAD commit
  bundle,       \* transport bundle on the host: {} or {its edits}
  ref,          \* edits under refs/opencode-sandbox/result/<session>
  host,         \* edits of the session applied to the host project
  allocations,  \* ctx.pool.allocations, by sessionID
  queue,        \* PendingQueue.entries, by sessionID
  inFlight,     \* PendingQueue.inFlight
  task,         \* what each actor is doing
  made, lost,   \* edits acknowledged / dropped by a reap that exports first
  crashes

workerVars == <<vm, tree, head, made, lost>>
resultVars == <<bundle, ref, host>>
poolVars == <<allocations, queue, inFlight>>
vars == <<rec, workerVars, resultVars, poolVars, task, crashes>>

-----------------------------------------------------------------------------
(* Actors                                                                  *)

Actor == Session \cup Reaper

ClientOp == {"ensureWorker", "exec", "prepareResult", "applyResult",
             "keepResult", "discardResult", "destroyWorker"}
SweepOp == {"sweepUnfinished", "sweepIdle"}
(* The reaps that promise to export a dirty worker before releasing it.     *)
ExportFirst == {"sweepUnfinished", "reapOnDisconnect"}

(* snap: the record the operation read when it began, where it is used      *)
(* again later; todo: sessions a sweep has not visited yet; cut: the edits  *)
(* in the patch file of an apply, or in the tree a reap found dirty;        *)
(* exported: the reap exported a result.                                    *)
NoTask ==
  [op |-> "none", pc |-> "idle", sid |-> None, queued |-> FALSE,
   exported |-> FALSE, todo |-> {}, cut |-> {}, snap |-> NewRecord]

Begin(o, where, s) == [NoTask EXCEPT !.op = o, !.pc = where, !.sid = s]

BeginWith(o, where, s, r) == [Begin(o, where, s) EXCEPT !.snap = r]

Sweeping(o, S) == [NoTask EXCEPT !.op = o, !.pc = "sweep", !.todo = S]

(* A sweep goes on with its next session; anything else is finished.        *)
After(k) == IF k.op \in SweepOp THEN Sweeping(k.op, k.todo) ELSE NoTask

At(k, where) == [k EXCEPT !.pc = where]
AtWith(k, where, c) == [k EXCEPT !.pc = where, !.cut = c]

(* activeLocks.get(s) > 0                                                   *)
Locked(s) == task[s] # NoTask

CanStart(o, s) == o \in ClientOps /\ ~Locked(s)

Finish(a) == task' = [task EXCEPT ![a] = After(@)]
Goto(a, where) == task' = [task EXCEPT ![a] = At(@, where)]

-----------------------------------------------------------------------------
(* Admission and the queue drain                                           *)

(* admissionFor: drained creations under way count as allocations.          *)
FreeSlots(al, fl) == IF Len(al) + fl < Slots THEN Slots - (Len(al) + fl) ELSE 0

Reusable(r) == Usable(r)

(* The checks createWorkerForSession makes before its first await.          *)
Creatable(r) == ~Reusable(r) /\ "CREATING_SANDBOX" \in LegalTransitions[r.state]

(* drainQueue admits the longest prefix of the queue that fits.             *)
DrainCount(al, q, fl) ==
  IF Len(q) <= FreeSlots(al, fl) THEN Len(q) ELSE FreeSlots(al, fl)

Drained(al, q, fl) == {q[i] : i \in 1..DrainCount(al, q, fl)}

(* The records and tasks once the drained creations have started: each runs *)
(* up to its first await, which is where an inadmissible state is refused.  *)
DrainedRec(rs, D) ==
  [s \in Session |-> IF s \in D /\ Creatable(rs[s])
                     THEN MoveTo(rs[s], "CREATING_SANDBOX") ELSE rs[s]]

Promised(k, where) == [k EXCEPT !.queued = TRUE, !.pc = where]

DrainedTask(ts, rs, D) ==
  [a \in Actor |-> IF a \in D
                   THEN Promised(ts[a], IF Creatable(rs[a]) THEN "creating" ELSE "settling")
                   ELSE ts[a]]

(* Mutant: the newest requests are admitted first.                          *)
DrainQueueNewest(al, q, fl, rs, ts) ==
  LET n == DrainCount(al, q, fl)
  IN /\ allocations' = al
     /\ queue' = SubSeq(q, 1, Len(q) - n)
     /\ inFlight' = fl + n
     /\ task' = DrainedTask(ts, rs, {q[i] : i \in (Len(q) - n + 1)..Len(q)})

(* The pool part of drainQueue, run on the given pool and tasks.            *)
DrainQueue(al, q, fl, rs, ts) ==
  /\ allocations' = al
  /\ queue' = SubSeq(q, DrainCount(al, q, fl) + 1, Len(q))
  /\ inFlight' = fl + DrainCount(al, q, fl)
  /\ task' = DrainedTask(ts, rs, Drained(al, q, fl))

(* Mutant: the finally block does not give the promised slot back.          *)
EndCreationKeepsPromise(s, al, rs) ==
  /\ DrainQueue(al, queue, inFlight, rs, [task EXCEPT ![s] = NoTask])
  /\ rec' = DrainedRec(rs, Drained(al, queue, inFlight))

(* Mutant: direct creations run the same finally block.                     *)
EndCreationAlwaysCounts(s, al, rs) ==
  /\ DrainQueue(al, queue, inFlight - 1, rs, [task EXCEPT ![s] = NoTask])
  /\ rec' = DrainedRec(rs, Drained(al, queue, inFlight - 1))

(* The finally block of runQueuedCreation, or nothing for a direct one.     *)
EndCreation(s, al, rs) ==
  IF task[s].queued
  THEN LET fl == IF inFlight > 0 THEN inFlight - 1 ELSE 0
       IN /\ DrainQueue(al, queue, fl, rs, [task EXCEPT ![s] = NoTask])
          /\ rec' = DrainedRec(rs, Drained(al, queue, fl))
  ELSE /\ allocations' = al
       /\ task' = [task EXCEPT ![s] = NoTask]
       /\ rec' = rs
       /\ UNCHANGED <<queue, inFlight>>

-----------------------------------------------------------------------------
(* ensureWorker                                                            *)

(* Reuse of a live worker, or a refusal: only the record is touched.        *)
EnsureNoCreation(s) ==
  /\ CanStart("ensureWorker", s)
  /\ Reusable(rec[s]) \/ rec[s].state \in {"FAILED_CLOSED", "CREATING_SANDBOX"}
  /\ rec' = [rec EXCEPT ![s] = Touch(@)]
  /\ UNCHANGED <<workerVars, resultVars, poolVars, task, crashes>>

NeedsWorker(s) ==
  /\ CanStart("ensureWorker", s)
  /\ ~Reusable(rec[s])
  /\ rec[s].state \notin {"FAILED_CLOSED", "CREATING_SANDBOX"}

(* Direct admission.  Nothing is reserved in the pool while the worker is   *)
(* being created.  An illegal transition ends the request with an error.    *)
EnsureDirect(s) ==
  /\ NeedsWorker(s)
  /\ FreeSlots(allocations, inFlight) > 0
  /\ IF Creatable(rec[s])
     THEN /\ rec' = [rec EXCEPT ![s] = MoveTo(@, "CREATING_SANDBOX")]
          /\ task' = [task EXCEPT ![s] = Begin("ensureWorker", "creating", s)]
     ELSE /\ rec' = [rec EXCEPT ![s] = Touch(@)]
          /\ UNCHANGED task
  /\ UNCHANGED <<workerVars, resultVars, poolVars, crashes>>

(* parkAndWait: the request keeps its session lock while it is parked.      *)
EnsurePark(s) ==
  /\ NeedsWorker(s)
  /\ FreeSlots(allocations, inFlight) = 0
  /\ rec' = [rec EXCEPT ![s] = Touch(@)]
  /\ IF Len(queue) < QueueMax
     THEN /\ queue' = Append(queue, s)
          /\ task' = [task EXCEPT ![s] = Begin("ensureWorker", "parked", s)]
     ELSE UNCHANGED <<queue, task>>
  /\ UNCHANGED <<workerVars, resultVars, allocations, inFlight, crashes>>

(* Mutant: the timer removes the entry and never answers the request.       *)
QueueTimeoutSilent(s) ==
  /\ task[s].pc = "parked"
  /\ queue' = RemoveFirst(queue, s)
  /\ UNCHANGED <<rec, workerVars, resultVars, allocations, inFlight, task, crashes>>

(* The queue timer: the entry leaves the queue, nothing is drained.         *)
QueueTimeout(s) ==
  /\ task[s].pc = "parked"
  /\ queue' = RemoveFirst(queue, s)
  /\ Finish(s)
  /\ UNCHANGED <<rec, workerVars, resultVars, allocations, inFlight, crashes>>

(* onSocketClose for a parked session: queue.cancel, then drainQueue.  The  *)
(* reap that follows returns at once: the session lock is still counted.    *)
CancelParked(s) ==
  /\ task[s].pc = "parked"
  /\ LET q == RemoveFirst(queue, s)
     IN /\ DrainQueue(allocations, q, inFlight, rec, [task EXCEPT ![s] = NoTask])
        /\ rec' = DrainedRec(rec, Drained(allocations, q, inFlight))
  /\ UNCHANGED <<workerVars, resultVars, crashes>>

(* createWorkerForSession threw: it refused a drained request, or failed.   *)
CreationEnds(s) ==
  /\ task[s].pc = "settling"
  /\ EndCreation(s, allocations, rec)
  /\ UNCHANGED <<workerVars, resultVars, crashes>>

(* runSnapshot and adapter.createWorker.  The baseline is the host's tree   *)
(* or a result ref the request names; msb refuses a name that exists.       *)
CreateVM(s) ==
  /\ task[s].pc = "creating"
  /\ vm[s] = "absent"
  /\ \E base \in {{}, ref[s]} :
       /\ tree' = [tree EXCEPT ![s] = base]
       /\ head' = [head EXCEPT ![s] = base]
  /\ vm' = [vm EXCEPT ![s] = "running"]
  /\ bundle' = [bundle EXCEPT ![s] = {}]
  /\ Goto(s, "prepping")
  /\ UNCHANGED <<rec, ref, host, poolVars, made, lost, crashes>>

(* The snapshot, the creation or the readiness wait failed; a VM that did   *)
(* not become ready is left for the cleanup.                                *)
CreateFails(s) ==
  /\ task[s].pc = "creating"
  /\ "create" \in Faults \/ vm[s] # "absent"
  /\ vm' \in {vm, [vm EXCEPT ![s] = IF @ = "absent" THEN "running" ELSE @]}
  /\ Goto(s, "cleaning")
  /\ UNCHANGED <<rec, tree, head, made, lost, resultVars, poolVars, crashes>>

(* copyIn and the repository preparation succeeded: the allocation is       *)
(* pushed only now, in the same step as the transition to SANDBOX_ACTIVE.   *)
WorkerReady(s) ==
  /\ task[s].pc = "prepping"
  /\ vm[s] = "running"
  /\ Moves(rec[s], "CREATING_SANDBOX", "SANDBOX_ACTIVE")
  /\ EndCreation(s, Append(allocations, s), [rec EXCEPT ![s] = WorkerActive(@)])
  /\ UNCHANGED <<workerVars, resultVars, crashes>>

PrepFails(s) ==
  /\ task[s].pc = "prepping"
  /\ "create" \in Faults \/ vm[s] # "running"
  /\ Goto(s, "cleaning")
  /\ UNCHANGED <<rec, workerVars, resultVars, poolVars, crashes>>

(* Mutant: a failed creation whose cleanup fails too leaves the record.     *)
CreationFailedStays(s) ==
  /\ task[s].pc = "cleaning"
  /\ Goto(s, "settling")
  /\ UNCHANGED <<rec, workerVars, resultVars, poolVars, crashes>>

(* The catch block: stop and remove, best effort and never retried, then    *)
(* FAILED_CLOSED.  The artifacts are collected before the creation ends.    *)
CreationFailed(s) ==
  /\ task[s].pc = "cleaning"
  /\ \E left \in {"absent"} \cup (IF "remove" \in Faults THEN {vm[s], "stopped"} ELSE {}) :
       /\ vm[s] = "absent" => left = "absent"
       /\ vm' = [vm EXCEPT ![s] = left]
       /\ tree' = [tree EXCEPT ![s] = IF left = "absent" THEN {} ELSE @]
       /\ head' = [head EXCEPT ![s] = IF left = "absent" THEN {} ELSE @]
  /\ rec' = [rec EXCEPT ![s] =
               IF Moves(@, "CREATING_SANDBOX", "FAILED_CLOSED")
               THEN FailClosed(@) ELSE @]
  /\ Goto(s, "settling")
  /\ UNCHANGED <<resultVars, poolVars, made, lost, crashes>>

-----------------------------------------------------------------------------
(* exec, writeFile and applyPatch: an operation that edits the worker       *)

ExecStart(s) ==
  /\ CanStart("exec", s)
  /\ Usable(rec[s])
  /\ task' = [task EXCEPT ![s] = Begin("exec", "exec", s)]
  /\ UNCHANGED <<rec, workerVars, resultVars, poolVars, crashes>>

(* The edit is in the worker and acknowledged; the command may also have    *)
(* committed the working tree.  dispatchLine then touches the record.       *)
ExecDone(s) ==
  /\ task[s].pc = "exec"
  /\ vm[s] = "running"
  /\ \E e \in Edit \ made :
       /\ tree' = [tree EXCEPT ![s] = @ \cup {e}]
       /\ made' = made \cup {e}
  /\ \/ UNCHANGED head
     \/ "execCommit" \in ClientOps /\ head' = [head EXCEPT ![s] = tree'[s]]
  /\ rec' = [rec EXCEPT ![s] = Touch(@)]
  /\ Finish(s)
  /\ UNCHANGED <<vm, lost, resultVars, poolVars, crashes>>

ExecFails(s) ==
  /\ task[s].pc = "exec"
  /\ "exec" \in Faults \/ vm[s] # "running" \/ Edit \subseteq made
  /\ Finish(s)
  /\ UNCHANGED <<rec, workerVars, resultVars, poolVars, crashes>>

-----------------------------------------------------------------------------
(* runPrepare, for prepareResult, keepResult and the reaper                *)

PrepareStart(s) ==
  /\ CanStart("prepareResult", s)
  /\ Usable(rec[s])
  /\ task' = [task EXCEPT ![s] = BeginWith("prepareResult", "commit", s, rec[s])]
  /\ UNCHANGED <<rec, workerVars, resultVars, poolVars, crashes>>

(* Mutant: the export takes the worker's HEAD without committing first.     *)
CommitTreeSkipped(a) ==
  /\ task[a].pc = "commit"
  /\ vm[task[a].sid] = "running"
  /\ Goto(a, "bundle")
  /\ UNCHANGED <<rec, workerVars, resultVars, poolVars, crashes>>

(* git add -A, and a commit when something is staged.                       *)
CommitTree(a) ==
  LET t == task[a].sid IN
  /\ task[a].pc = "commit"
  /\ vm[t] = "running"
  /\ head' = [head EXCEPT ![t] = tree[t]]
  /\ Goto(a, "bundle")
  /\ UNCHANGED <<rec, vm, tree, made, lost, resultVars, poolVars, crashes>>

(* update-ref, bundle create, and the copy of the bundle to the host.       *)
ExportBundle(a) ==
  LET t == task[a].sid IN
  /\ task[a].pc = "bundle"
  /\ vm[t] = "running"
  /\ bundle' = [bundle EXCEPT ![t] = {head[t]}]
  /\ Goto(a, "fetch")
  /\ UNCHANGED <<rec, workerVars, ref, host, poolVars, crashes>>

(* bundle verify and the forced fetch into the result ref; the bundle is    *)
(* then redundant and removed.                                              *)
ImportBundle(t) ==
  /\ \E c \in bundle[t] : ref' = [ref EXCEPT ![t] = c]
  /\ bundle' = [bundle EXCEPT ![t] = {}]
  /\ UNCHANGED host

(* Mutant: a reap whose export fails goes on to release the worker.         *)
ExportFailsReleases(a) ==
  /\ task[a].pc \in {"commit", "bundle", "fetch"} /\ "export" \in Faults
  /\ IF task[a].op \in ExportFirst THEN Goto(a, "stop") ELSE Finish(a)
  /\ UNCHANGED <<rec, workerVars, resultVars, poolVars, crashes>>

ExportFails(a) ==
  LET t == task[a].sid IN
  /\ \/ task[a].pc \in {"commit", "bundle"} /\ ("export" \in Faults \/ vm[t] # "running")
     \/ task[a].pc = "fetch" /\ ("export" \in Faults \/ bundle[t] = {})
  /\ Finish(a)
  /\ UNCHANGED <<rec, workerVars, resultVars, poolVars, crashes>>

PrepareDone(s) ==
  LET k == task[s] IN
  /\ k.op = "prepareResult" /\ k.pc = "fetch"
  /\ ImportBundle(s)
  /\ rec' = [rec EXCEPT ![s] =
               IF k.snap.state # "SANDBOX_ACTIVE" THEN Touch(@)
               ELSE IF Moves(@, "SANDBOX_ACTIVE", "RESULT_READY")
               THEN WithResult(@, "RESULT_READY") ELSE @]
  /\ Finish(s)
  /\ UNCHANGED <<workerVars, poolVars, crashes>>

Exported(k) == [k EXCEPT !.pc = "stop", !.exported = TRUE]

(* The reaper goes on to release the worker it exported.                    *)
ReapExported(r) ==
  /\ task[r].op \in ExportFirst /\ task[r].pc = "fetch"
  /\ ImportBundle(task[r].sid)
  /\ task' = [task EXCEPT ![r] = Exported(@)]
  /\ UNCHANGED <<rec, workerVars, poolVars, crashes>>

-----------------------------------------------------------------------------
(* releaseWorker: stop, remove, one retry                                  *)

(* The record the caller of releaseWorker writes after a confirmed removal. *)
Released(k, r) ==
  CASE k.op = "keepResult" ->
         IF "RETAINED" \in LegalTransitions[r.state]
         THEN MoveTo(Destroyed(r), "RETAINED") ELSE Destroyed(r)
    [] k.op = "discardResult" ->
         IF Moves(r, "RESULT_READY", "REJECTED")
         THEN Rejected(r, FALSE, IF k.snap.worker THEN "DESTROYED" ELSE "NONE") ELSE r
    [] k.exported ->
         IF Moves(r, "SANDBOX_ACTIVE", "RESULT_READY")
         THEN WithResult(Destroyed(r), "RESULT_READY") ELSE r
    [] OTHER -> Destroyed(r)

(* Mutant: a failed removal is recorded like a confirmed one.               *)
RetainedAsReleased(k, r) == Released(k, r)

(* The record it writes when the removal failed twice: the worker stays     *)
(* named.  discardResult writes back the worker fields it read at its start.*)
Retained(k, r) ==
  CASE k.op = "keepResult" ->
         IF "RETAINED" \in LegalTransitions[r.state] THEN MoveTo(r, "RETAINED") ELSE r
    [] k.op = "discardResult" ->
         IF Moves(r, "RESULT_READY", "REJECTED")
         THEN Rejected(r, k.snap.worker, k.snap.workerState) ELSE r
    [] k.exported ->
         IF Moves(r, "SANDBOX_ACTIVE", "RESULT_READY")
         THEN WithResult(r, "RESULT_READY") ELSE r
    [] OTHER -> r

(* Mutant: the slot is freed and the queue is not drained.                  *)
FreeAllocationOnly(a, k) ==
  /\ allocations' = RemoveFirst(allocations, k.sid)
  /\ task' = [task EXCEPT ![a] = After(k)]
  /\ rec' = [rec EXCEPT ![k.sid] = Released(k, @)]
  /\ UNCHANGED <<queue, inFlight>>

(* removePoolAllocation, drainQueue and the caller's record update, which   *)
(* run in one step; k is the releasing task.                                *)
FreeAllocation(a, k) ==
  LET al == RemoveFirst(allocations, k.sid)
      D  == Drained(al, queue, inFlight)
  IN /\ DrainQueue(al, queue, inFlight, rec, [task EXCEPT ![a] = After(k)])
     /\ rec' = [DrainedRec(rec, D) EXCEPT ![k.sid] = Released(k, @)]

(* The VM and the edits in it are gone; a client that discards its result   *)
(* wants that.                                                              *)
DropVM(k) ==
  LET t == k.sid IN
  /\ vm' = [vm EXCEPT ![t] = "absent"]
  /\ tree' = [tree EXCEPT ![t] = {}]
  /\ head' = [head EXCEPT ![t] = {}]
  /\ lost' = IF k.op \in ExportFirst /\ task[t].op # "discardResult"
                  /\ rec[t].state # "REJECTED"
             THEN lost \cup {<<e, IF e \in k.cut THEN "seen" ELSE "raced">> :
                                e \in tree[t] \ ref[t]}
             ELSE lost
  /\ UNCHANGED made

(* Mutant: the allocation is freed once the worker is told to stop.         *)
StopVMFrees(a) ==
  /\ task[a].pc = "stop"
  /\ vm' = [vm EXCEPT ![task[a].sid] = IF @ = "running" THEN "stopped" ELSE @]
  /\ allocations' = RemoveFirst(allocations, task[a].sid)
  /\ Goto(a, "remove")
  /\ UNCHANGED <<rec, tree, head, made, lost, resultVars, queue, inFlight, crashes>>

(* adapter.stop; its errors are ignored.                                    *)
StopVM(a) ==
  LET t == task[a].sid IN
  /\ task[a].pc = "stop"
  /\ \/ vm' = [vm EXCEPT ![t] = IF @ = "running" THEN "stopped" ELSE @]
     \/ "remove" \in Faults /\ UNCHANGED vm
  /\ Goto(a, "remove")
  /\ UNCHANGED <<rec, tree, head, made, lost, resultVars, poolVars, crashes>>

(* adapter.remove confirmed.  msb does not remove a running VM; whether it  *)
(* accepts a name that no longer exists is left open.                       *)
RemoveVM(a) ==
  /\ task[a].pc \in {"remove", "retry"}
  /\ vm[task[a].sid] # "running"
  /\ DropVM(task[a])
  /\ FreeAllocation(a, task[a])
  /\ UNCHANGED <<resultVars, crashes>>

(* adapter.remove failed, perhaps after the VM was gone (a timeout).        *)
RemoveFails(a) ==
  LET t == task[a].sid IN
  /\ task[a].pc \in {"remove", "retry"}
  /\ "remove" \in Faults \/ vm[t] # "stopped"
  /\ \/ UNCHANGED workerVars
     \/ vm[t] = "stopped" /\ DropVM(task[a])
  /\ IF task[a].pc = "remove"
     THEN Goto(a, "retry") /\ UNCHANGED rec
     ELSE Finish(a) /\ rec' = [rec EXCEPT ![t] = Retained(task[a], @)]
  /\ UNCHANGED <<resultVars, poolVars, crashes>>

-----------------------------------------------------------------------------
(* destroyWorker, keepResult, discardResult                                *)

DestroyStart(s) ==
  /\ CanStart("destroyWorker", s)
  /\ Live(rec[s])
  /\ task' = [task EXCEPT ![s] = Begin("destroyWorker", "stop", s)]
  /\ UNCHANGED <<rec, workerVars, resultVars, poolVars, crashes>>

(* keepResult on a session that is still active exports first.              *)
KeepStartActive(s) ==
  /\ CanStart("keepResult", s)
  /\ rec[s].state = "SANDBOX_ACTIVE" /\ Usable(rec[s])
  /\ task' = [task EXCEPT ![s] = Begin("keepResult", "commit", s)]
  /\ UNCHANGED <<rec, workerVars, resultVars, poolVars, crashes>>

(* Release a named worker, or go straight to RETAINED.                      *)
KeepRelease(s, r) ==
  IF r.worker
  THEN /\ rec' = [rec EXCEPT ![s] = r]
       /\ task' = [task EXCEPT ![s] = Begin("keepResult", "stop", s)]
  ELSE /\ rec' = [rec EXCEPT ![s] = MoveTo(r, "RETAINED")]
       /\ task' = [task EXCEPT ![s] = NoTask]

KeepStart(s) ==
  /\ CanStart("keepResult", s)
  /\ rec[s].state \in {"RESULT_READY", "APPLIED"}
  /\ KeepRelease(s, rec[s])
  /\ UNCHANGED <<workerVars, resultVars, poolVars, crashes>>

KeepExported(s) ==
  /\ task[s].op = "keepResult" /\ task[s].pc = "fetch"
  /\ ImportBundle(s)
  /\ IF Moves(rec[s], "SANDBOX_ACTIVE", "RESULT_READY")
     THEN KeepRelease(s, WithResult(rec[s], "RESULT_READY"))
     ELSE Finish(s) /\ UNCHANGED rec
  /\ UNCHANGED <<workerVars, poolVars, crashes>>

DiscardStart(s) ==
  /\ CanStart("discardResult", s)
  /\ rec[s].state = "RESULT_READY"
  /\ task' = [task EXCEPT ![s] = BeginWith("discardResult", "unref", s, rec[s])]
  /\ UNCHANGED <<rec, workerVars, resultVars, poolVars, crashes>>

(* git update-ref -d runs without a cwd: in the broker's own working        *)
(* directory, where deleting a ref that does not exist also succeeds.  The  *)
(* release that follows uses the record read at the start.                  *)
DiscardUnref(s) ==
  LET k == task[s] IN
  /\ k.pc = "unref"
  /\ ref' = [ref EXCEPT ![s] = IF s \in HomeSession THEN {} ELSE @]
  /\ IF Live(k.snap) THEN Goto(s, "stop") /\ UNCHANGED <<rec, poolVars>>
                     ELSE FreeAllocation(s, k)
  /\ UNCHANGED <<workerVars, bundle, host, crashes>>

DiscardFails(s) ==
  /\ task[s].pc = "unref"
  /\ "discard" \in Faults
  /\ Finish(s)
  /\ UNCHANGED <<rec, workerVars, resultVars, poolVars, crashes>>

-----------------------------------------------------------------------------
(* applyResult                                                             *)

ApplyStart(s) ==
  /\ CanStart("applyResult", s)
  /\ Moves(rec[s], "RESULT_READY", "APPLY_PENDING")
  /\ rec' = [rec EXCEPT ![s] = MoveTo(@, "APPLY_PENDING")]
  /\ task' = [task EXCEPT ![s] = Begin("applyResult", "check", s)]
  /\ UNCHANGED <<workerVars, resultVars, poolVars, crashes>>

(* The divergence, protected-path and symlink checks passed and the patch   *)
(* was cut from the result ref.                                             *)
ApplyPatch(s) ==
  /\ task[s].pc = "check"
  /\ task' = [task EXCEPT ![s] = AtWith(@, "apply", ref[s])]
  /\ UNCHANGED <<rec, workerVars, resultVars, poolVars, crashes>>

(* Any refusal the code foresees, and a failed git apply, restore           *)
(* RESULT_READY; the host is unchanged.                                     *)
ApplyRefused(s) ==
  /\ task[s].pc \in {"check", "apply"}
  /\ Moves(rec[s], "APPLY_PENDING", "RESULT_READY")
  /\ rec' = [rec EXCEPT ![s] = MoveTo(@, "RESULT_READY")]
  /\ Finish(s)
  /\ UNCHANGED <<workerVars, resultVars, poolVars, crashes>>

(* A git command of the checks itself failed: hostDivergence,               *)
(* changedPathsBetween and rawChangesBetween throw, and the record stays.   *)
ApplyThrows(s) ==
  /\ task[s].pc = "check"
  /\ "apply" \in Faults
  /\ Finish(s)
  /\ UNCHANGED <<rec, workerVars, resultVars, poolVars, crashes>>

(* git apply succeeded: APPLIED, then the worker is released.               *)
ApplyDone(s) ==
  /\ task[s].pc = "apply"
  /\ Moves(rec[s], "APPLY_PENDING", "APPLIED")
  /\ host' = [host EXCEPT ![s] = task[s].cut]
  /\ LET r == WithResult(rec[s], "APPLIED")
     IN IF Live(r)
        THEN /\ rec' = [rec EXCEPT ![s] = r]
             /\ Goto(s, "stop")
             /\ UNCHANGED poolVars
        ELSE LET rs == [rec EXCEPT ![s] = Destroyed(r)]
                 al == RemoveFirst(allocations, s)
             IN /\ DrainQueue(al, queue, inFlight, rs, [task EXCEPT ![s] = NoTask])
                /\ rec' = DrainedRec(rs, Drained(al, queue, inFlight))
  /\ UNCHANGED <<workerVars, bundle, ref, crashes>>

-----------------------------------------------------------------------------
(* The reaper                                                              *)

(* sweepUnfinished and reapOnDisconnect: an idle active worker, not yet     *)
(* exported.                                                                *)
Unfinished(r) ==
  /\ r.state = "SANDBOX_ACTIVE" /\ Live(r) /\ r.workerState = "ACTIVE"
  /\ ~r.result /\ r.idle

(* Mutant: the idle sweep looks only at unfinished sessions.                *)
ReleasableUnfinished(r) ==
  Live(r) /\ r.state \in {"RESULT_READY", "SANDBOX_ACTIVE"} /\ r.idle

(* sweepIdle: a worker left on a finished session, or an idle one.          *)
Releasable(r) ==
  /\ Live(r)
  /\ \/ r.state \in TerminalStates
     \/ r.state \in {"RESULT_READY", "SANDBOX_ACTIVE"} /\ r.idle

(* A phase of a tick reads every record once, at its start, and decides on  *)
(* what it read; only the queue and the locks are looked at later.          *)
Listed(o) ==
  {s \in Session : IF o = "sweepUnfinished" THEN Unfinished(rec[s]) ELSE Releasable(rec[s])}

Busy(s) == Contains(queue, s) \/ Locked(s)

(* The loop runs on, past the sessions K that are busy, to the next one it  *)
(* takes: the rest of its list is visited only after that one is done.      *)
Visit(k, s, rest) ==
  [k EXCEPT !.pc = IF k.op = "sweepUnfinished" THEN "status" ELSE "stop",
            !.sid = s, !.todo = rest]

Takes(k) ==
  UNION {{Visit(k, s, k.todo \ (K \cup {s})) : K \in SUBSET {x \in k.todo : Busy(x)}} :
           s \in {x \in k.todo : ~Busy(x)}}

Phase(o) == Sweeping(o, Listed(o))

(* When a phase is through, the idle phase follows the unfinished phase and *)
(* ends the tick.                                                           *)
Resume(k) ==
  CASE Takes(k) # {} -> Takes(k)
    [] Takes(k) = {} /\ k.op = "sweepUnfinished" /\ Takes(Phase("sweepIdle")) # {} ->
         Takes(Phase("sweepIdle"))
    [] OTHER -> {NoTask}

(* The interval fires.                                                      *)
SweepStart(r) ==
  /\ task[r] = NoTask
  /\ \E k \in Resume(Phase("sweepUnfinished")) : task' = [task EXCEPT ![r] = k]
  /\ UNCHANGED <<rec, workerVars, resultVars, poolVars, crashes>>

SweepResume(r) ==
  /\ task[r].pc = "sweep"
  /\ \E k \in Resume(task[r]) : task' = [task EXCEPT ![r] = k]
  /\ UNCHANGED <<rec, workerVars, resultVars, poolVars, crashes>>

(* onSocketClose for a session with no operation in flight.                 *)
DisconnectReap(r, s) ==
  /\ task[r] = NoTask
  /\ ~Contains(queue, s) /\ ~Locked(s)
  /\ Unfinished(rec[s])
  /\ task' = [task EXCEPT ![r] = Begin("reapOnDisconnect", "status", s)]
  /\ UNCHANGED <<rec, workerVars, resultVars, poolVars, crashes>>

(* finishOrReleaseActive: git status came back clean.                       *)
StatusClean(r) ==
  LET t == task[r].sid IN
  /\ task[r].pc = "status"
  /\ vm[t] = "running" /\ tree[t] = head[t]
  /\ task' = [task EXCEPT ![r] = AtWith(@, "stop", {})]
  /\ UNCHANGED <<rec, workerVars, resultVars, poolVars, crashes>>

(* Dirty, or the status cannot be read: export first.  runPrepare reads the *)
(* record again and throws when the worker is no longer usable.             *)
StatusDirty(r) ==
  LET t == task[r].sid IN
  /\ task[r].pc = "status"
  /\ tree[t] # head[t] \/ vm[t] # "running" \/ "exec" \in Faults
  /\ IF Usable(rec[t])
     THEN task' = [task EXCEPT ![r] = AtWith(@, "commit", tree[t])]
     ELSE Finish(r)
  /\ UNCHANGED <<rec, workerVars, resultVars, poolVars, crashes>>

-----------------------------------------------------------------------------
(* Time and crashes                                                        *)

(* updatedAt grows old.  Only a record with a worker is ever compared.      *)
Age(s) ==
  /\ Live(rec[s]) /\ ~rec[s].idle
  /\ rec' = [rec EXCEPT ![s] = Aged(@)]
  /\ UNCHANGED <<workerVars, resultVars, poolVars, task, crashes>>

(* The commands whose effect lands although the broker is gone.             *)
LandsOn(landed, s, where) == \E a \in landed : task[a].sid = s /\ task[a].pc \in where

(* The broker dies and is started again: the pool, the queue, the locks and *)
(* every handler are gone; records, VMs and git refs stay.  The new broker  *)
(* starts with an empty pool.                                               *)
Crash ==
  /\ crashes < MaxCrashes
  /\ crashes' = crashes + 1
  /\ \E landed \in SUBSET {a \in Actor : task[a] # NoTask} :
       /\ vm' = [s \in Session |->
                   CASE vm[s] = "absent" /\ LandsOn(landed, s, {"creating"}) -> "running"
                     [] vm[s] = "running" /\ LandsOn(landed, s, {"stop"}) -> "stopped"
                     [] vm[s] = "stopped" /\ LandsOn(landed, s, {"remove", "retry"}) -> "absent"
                     [] OTHER -> vm[s]]
       /\ head' = [s \in Session |->
                     IF vm'[s] = "absent" THEN {}
                     ELSE IF LandsOn(landed, s, {"commit"}) THEN tree[s] ELSE head[s]]
       /\ tree' = [s \in Session |-> IF vm'[s] = "absent" THEN {} ELSE tree[s]]
       /\ ref' = [s \in Session |->
                    IF LandsOn(landed, s, {"fetch"}) /\ bundle[s] # {}
                    THEN UNION bundle[s] ELSE ref[s]]
       /\ host' = [s \in Session |->
                     IF LandsOn(landed, s, {"apply"}) THEN task[s].cut ELSE host[s]]
  /\ task' = [a \in Actor |-> NoTask]
  /\ allocations' = <<>> /\ queue' = <<>> /\ inFlight' = 0
  /\ UNCHANGED <<rec, bundle, made, lost>>

-----------------------------------------------------------------------------
Init ==
  /\ rec = [s \in Session |-> NewRecord]
  /\ vm = [s \in Session |-> "absent"]
  /\ tree = [s \in Session |-> {}]
  /\ head = [s \in Session |-> {}]
  /\ bundle = [s \in Session |-> {}]
  /\ ref = [s \in Session |-> {}]
  /\ host = [s \in Session |-> {}]
  /\ allocations = <<>> /\ queue = <<>> /\ inFlight = 0
  /\ task = [a \in Actor |-> NoTask]
  /\ made = {} /\ lost = {}
  /\ crashes = 0

ClientRequest(s) ==
  \/ EnsureNoCreation(s) \/ EnsureDirect(s) \/ EnsurePark(s)
  \/ ExecStart(s) \/ PrepareStart(s) \/ ApplyStart(s)
  \/ KeepStartActive(s) \/ KeepStart(s) \/ DiscardStart(s) \/ DestroyStart(s)

CreationStep(s) ==
  \/ CreationEnds(s) \/ CreateVM(s) \/ CreateFails(s)
  \/ WorkerReady(s) \/ PrepFails(s) \/ CreationFailed(s)

ClientStep(s) ==
  \/ ExecDone(s) \/ ExecFails(s) \/ PrepareDone(s) \/ KeepExported(s)
  \/ DiscardUnref(s) \/ DiscardFails(s)
  \/ ApplyPatch(s) \/ ApplyRefused(s) \/ ApplyThrows(s) \/ ApplyDone(s)

(* The steps of runPrepare and releaseWorker, whoever called them.          *)
SharedStep(a) ==
  \/ CommitTree(a) \/ ExportBundle(a) \/ ExportFails(a)
  \/ StopVM(a) \/ RemoveVM(a) \/ RemoveFails(a)

ReaperStep(r) ==
  \/ SweepResume(r) \/ StatusClean(r) \/ StatusDirty(r)
  \/ ReapExported(r)

Next ==
  \/ \E s \in Session :
       \/ ClientRequest(s) \/ QueueTimeout(s) \/ CancelParked(s)
       \/ CreationStep(s) \/ ClientStep(s) \/ Age(s)
  \/ \E a \in Actor : SharedStep(a)
  \/ \E r \in Reaper :
       \/ SweepStart(r) \/ ReaperStep(r)
       \/ \E s \in Session : DisconnectReap(r, s)
  \/ Crash

Spec == Init /\ [][Next]_vars

-----------------------------------------------------------------------------
(* Properties                                                              *)

Pcs == {"idle", "parked", "settling", "creating", "prepping", "cleaning", "exec",
        "commit", "bundle", "fetch", "stop", "remove", "retry", "unref", "check",
        "apply", "sweep", "status"}

(* Where a task works on the worker or the result of the session sid.       *)
OnSession == {"exec", "commit", "bundle", "fetch", "stop", "remove", "retry", "unref",
              "check", "apply", "status"}

TaskRecord ==
  [op : {"none", "reapOnDisconnect"} \cup ClientOp \cup SweepOp, pc : Pcs,
   sid : Session \cup {None}, queued : BOOLEAN, exported : BOOLEAN,
   todo : SUBSET Session, cut : SUBSET Edit, snap : SessionRecord]

Task == {k \in TaskRecord : k.pc \in OnSession => k.sid \in Session}

PoolType ==
  /\ rec \in [Session -> SessionRecord]
  /\ allocations \in Seq(Session) /\ queue \in Seq(Session) /\ inFlight \in Nat
  /\ task \in [Actor -> Task]

WorkerType ==
  /\ vm \in [Session -> {"absent", "running", "stopped"}]
  /\ tree \in [Session -> SUBSET Edit] /\ head \in [Session -> SUBSET Edit]
  /\ made \in SUBSET Edit /\ lost \in SUBSET (Edit \X {"seen", "raced"})

ResultType ==
  /\ bundle \in [Session -> SUBSET SUBSET Edit]
  /\ ref \in [Session -> SUBSET Edit] /\ host \in [Session -> SUBSET Edit]

(* The type of every variable.                                              *)
TypeOK == PoolType /\ WorkerType /\ ResultType /\ crashes \in Nat

(* No lost wakeup: a request is parked only while the pool, with the        *)
(* creations drainQueue has promised, is full.  Every path that frees a     *)
(* slot must drain; the queue timer does not, and need not.                 *)
NoLostWakeup == queue # <<>> => FreeSlots(allocations, inFlight) = 0

(* The sessions whose creation drainQueue has started.                      *)
Awaited(ts) == {s \in Session : ts[s].queued}

(* inFlight counts exactly the drained creations that have not ended, so    *)
(* admission never forgets a promised slot and never keeps one back; and    *)
(* the queue holds each parked request once, and nothing else, although     *)
(* the drain, the timer and a disconnect all take entries out of it.        *)
PromisesExact ==
  /\ inFlight = Cardinality(Awaited(task))
  /\ IsInjective(queue)
  /\ ToSet(queue) = {s \in Session : task[s].pc = "parked"}

(* No VM is orphaned: a VM is named by its session's record, except while   *)
(* it is being created or after a creation failed closed; and DESTROYED is  *)
(* recorded only once the removal is confirmed, after a failed creation too *)
(* (releaseWorker, and what its callers write).                             *)
VMIsOwned ==
  \A s \in Session :
    vm[s] # "absent" =>
      /\ Live(rec[s]) \/ rec[s].state \in {"CREATING_SANDBOX", "FAILED_CLOSED"}
      /\ rec[s].workerState = "DESTROYED" => rec[s].state = "CREATING_SANDBOX"

(* A worker is not taken away with its edits: what the tree held when a     *)
(* reap found it dirty is in the result before the VM is removed, although  *)
(* the export or the removal may fail and be tried again, and the client    *)
(* uses, finishes or rebuilds the session meanwhile (finishOrReleaseActive).*)
(* A tree that is clean because an earlier export failed after its commit   *)
(* is removed without an export and is not among them.                      *)
ReapKeepsDirty == \A e \in Edit : <<e, "seen">> \notin lost

(* A creation under way owns the record in CREATING_SANDBOX, so its final   *)
(* transition cannot fail after the allocation was pushed; and unless the   *)
(* broker has crashed no session is left in CREATING_SANDBOX.               *)
CreationOwnsRecord ==
  \A s \in Session :
    /\ task[s].pc \in {"creating", "prepping", "cleaning"}
         => rec[s].state = "CREATING_SANDBOX"
    /\ rec[s].state = "CREATING_SANDBOX" /\ crashes = 0
         => task[s].pc \in {"creating", "prepping", "cleaning"}

(* Until the broker restarts, the pool counts the workers that exist, once  *)
(* each: a VM that a record names is in the pool, and no session is in it   *)
(* twice, however releases by the client and by the reaper overlap with a   *)
(* new creation (removePoolAllocation, createWorkerForSession).             *)
PoolCountsWorkers ==
  /\ IsInjective(allocations)
  /\ \A s \in Session :
       crashes = 0 /\ Live(rec[s]) /\ vm[s] # "absent" => Contains(allocations, s)

(* The pool, its queue and the creations in flight implement the admission  *)
(* pool: slots are handed on in the step that frees them, in FIFO order.    *)
Pool == INSTANCE AdmissionPool WITH
          waiting <- queue, held <- Len(allocations) + inFlight, admitted <- Awaited(task)

(* parkAndWait, drainQueue, runQueuedCreation, releaseWorker and the queue  *)
(* timer together do what AdmissionPool promises.                           *)
PoolSpec == Pool!Spec

(* finish (prepareResult, or keepResult on an active session) exports every *)
(* edit acknowledged before it: nothing in the worker is missing from the   *)
(* result when the session becomes RESULT_READY.                            *)
FinishExportsAll ==
  [][\A s \in Session :
       /\ task[s].op \in {"prepareResult", "keepResult"}
       /\ task[s].pc = "fetch" /\ task'[s] # task[s]
       /\ rec[s].state = "SANDBOX_ACTIVE" /\ rec'[s].state = "RESULT_READY"
       => tree[s] \subseteq ref'[s]]_vars

(* Every command has a timeout, a parked request a timer, and the reaper's  *)
(* interval fires whatever else runs; and msb does not refuse for ever to   *)
(* stop or remove a worker that it keeps being asked to stop or remove.     *)
Fairness ==
  /\ \A s \in Session :
       WF_vars(CreationStep(s)) /\ WF_vars(ClientStep(s)) /\ WF_vars(QueueTimeout(s))
  /\ \A a \in Actor : WF_vars(SharedStep(a))
  /\ \A a \in Actor, s \in Session :
       /\ SF_vars(StopVM(a) /\ task[a].sid = s /\ vm'[s] # "running")
       /\ SF_vars(RemoveVM(a) /\ task[a].sid = s)
  /\ \A r \in Reaper : SF_vars(SweepStart(r)) /\ WF_vars(ReaperStep(r))

FairSpec == Spec /\ Fairness

(* Nobody waits for ever: every operation ends and frees its session lock,  *)
(* the parked ones, which hold the lock while they wait for others, too.    *)
LockReleased == \A s \in Session : Locked(s) ~> ~Locked(s)

(* A worker that a finished session could not release is released later,    *)
(* provided its clients eventually leave the session alone.                 *)
LeftoverReleased ==
  \A s \in Session :
    <>[]~Locked(s)
      => ((rec[s].state \in TerminalStates /\ Live(rec[s])) ~> ~Live(rec[s]))

=============================================================================

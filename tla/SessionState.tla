---------------------------- MODULE SessionState ----------------------------
(***************************************************************************)
(* The persisted session record of broker/src/state.ts and broker/src/     *)
(* types.ts: its states, the legal transition graph, and what the two      *)
(* writers of the store, touch and transition, do to a record.  Timestamps *)
(* are abstracted to one bit: idle is TRUE when updatedAt is older than    *)
(* the limit the reaper compares it with.                                  *)
(***************************************************************************)
EXTENDS Naturals

(* SessionState (types.ts) and the transition graph LEGAL_TRANSITIONS.     *)
LegalTransitions ==
  [ HOST_READ_ONLY   |-> {"CREATING_SANDBOX"},
    CREATING_SANDBOX |-> {"SANDBOX_ACTIVE", "FAILED_CLOSED", "HOST_READ_ONLY"},
    SANDBOX_ACTIVE   |-> {"CREATING_SANDBOX", "RESULT_READY", "FAILED_CLOSED",
                          "RETAINED"},
    RESULT_READY     |-> {"APPLY_PENDING", "REJECTED", "RETAINED",
                          "SANDBOX_ACTIVE", "CREATING_SANDBOX"},
    APPLY_PENDING    |-> {"APPLIED", "FAILED_CLOSED", "RESULT_READY"},
    APPLIED          |-> {"RETAINED"},
    REJECTED         |-> {},
    RETAINED         |-> {"RESULT_READY"},
    FAILED_CLOSED    |-> {} ]

SessionStates ==
  {"HOST_READ_ONLY", "CREATING_SANDBOX", "SANDBOX_ACTIVE", "RESULT_READY",
   "APPLY_PENDING", "APPLIED", "REJECTED", "RETAINED", "FAILED_CLOSED"}

TerminalStates == {"APPLIED", "REJECTED", "RETAINED", "FAILED_CLOSED"}

(* The worker states the broker ever stores; "NONE" is an absent field.    *)
WorkerStates == {"NONE", "ACTIVE", "DESTROYED", "FAILED"}

(* worker: workerName is set; result: resultRef is set.                    *)
SessionRecord ==
  [state : SessionStates, worker : BOOLEAN, workerState : WorkerStates,
   result : BOOLEAN, idle : BOOLEAN]

NewRecord ==
  [state |-> "HOST_READ_ONLY", worker |-> FALSE, workerState |-> "NONE",
   result |-> FALSE, idle |-> FALSE]

(* store.transition(from, to) succeeds on record r: r is still in the state *)
(* the caller saw and the edge is legal.                                    *)
Moves(r, from, to) == r.state = from /\ to \in LegalTransitions[from]

(* What a successful transition writes besides the caller's patch.          *)
MoveTo(r, to) == [r EXCEPT !.state = to, !.idle = FALSE]

(* store.touch for an operation that counts as activity.                    *)
Touch(r) == [r EXCEPT !.idle = FALSE]

(* The patches of the transitions: a worker became ready, could not be made, *)
(* a result was exported, a result was discarded.                            *)
WorkerActive(r) ==
  [MoveTo(r, "SANDBOX_ACTIVE") EXCEPT !.worker = TRUE, !.workerState = "ACTIVE",
                                      !.result = FALSE]

FailClosed(r) == [MoveTo(r, "FAILED_CLOSED") EXCEPT !.workerState = "FAILED"]

WithResult(r, to) == [MoveTo(r, to) EXCEPT !.result = TRUE]

Rejected(r, w, ws) == [MoveTo(r, "REJECTED") EXCEPT !.worker = w, !.workerState = ws]

(* updatedAt has grown older than the limit.                                *)
Aged(r) == [r EXCEPT !.idle = TRUE]

(* The patch recorded after a confirmed removal of the worker.              *)
Destroyed(r) ==
  [r EXCEPT !.worker = FALSE, !.workerState = "DESTROYED", !.idle = FALSE]

(* hasLiveWorker: the record names a worker that is not known to be gone.   *)
Live(r) == r.worker /\ r.workerState \notin {"DESTROYED", "FAILED"}

(* requireActiveWorker: worker operations run only on such a record.        *)
Usable(r) == r.state \in {"SANDBOX_ACTIVE", "RESULT_READY"} /\ Live(r)

=============================================================================

---------------------------- MODULE ResultCommit ----------------------------
(***************************************************************************)
(* The host side of a finished result: sandboxResultInstall, gitCommit and *)
(* gitClearCommitIntent of broker/src/service.ts.  An orchestrating        *)
(* session (a Caller) installs and commits the result of another session,  *)
(* under its own session lock only; the session the result belongs to      *)
(* (the Owner) may finish again, apply, keep or discard it meanwhile, and  *)
(* the user works in the same repository.                                  *)
(*                                                                         *)
(* The data is the content of the paths the result changes: 0 is the       *)
(* baseline, 1..MaxResult are the versions of the result, Edited is        *)
(* anything else.  A commit of the host's branch is its position in        *)
(* history, so HEAD is Len(history) and HEAD^ is Len(history) - 1.         *)
(***************************************************************************)
EXTENDS SessionState, Sequences, SequencesExt

CONSTANTS
  Caller,       \* sessions that may install and commit the result
  Owner,        \* the session the result belongs to
  MaxResult,    \* how many versions of the result the owner finishes
  MaxHistory,   \* bound on the commits of the host's branch
  MaxCrashes,   \* bound on the broker's crashes
  CallerOps,    \* the operations callers issue
  OwnerOps,     \* the operations the owner issues
  UserOps,      \* what the user does, at any time
  Faults        \* "read", "write", "commit": git commands that may fail

ASSUME ConstantsAssumption ==
  /\ MaxResult \in Nat \ {0}
  /\ MaxHistory \in Nat \ {0}
  /\ MaxCrashes \in Nat
  /\ CallerOps \subseteq {"install", "commit", "clear"}
  /\ OwnerOps \subseteq {"finish", "apply", "keep", "discard"}
  /\ UserOps \subseteq {"edit", "commit"}
  /\ Faults \subseteq {"read", "write", "commit"}

VARIABLES
  rec,          \* the owner's session record
  ref,          \* the version the result ref points to
  worktree,     \* the host's working tree
  history,      \* the host's branch
  task,         \* what each caller's operation is waiting for
  applying,     \* the owner's applyResult is under way
  landed,       \* history variable: the last commit gitCommit made, 0 if none
  cleared,      \* history variable: an intent was cleared by hand
  crossed,      \* history variable: a gitCommit met another caller's operation
  moved,        \* history variable: the user committed after gitCommit read HEAD
  crashes

ghosts == <<landed, cleared, crossed, moved>>
vars == <<rec, ref, worktree, history, task, applying, landed, cleared, crossed, moved,
          crashes>>

Edited == MaxResult + 1

HeadCommit == Len(history)

NoIntent == [res |-> 0, parent |-> 0]

(* installed, committed and pending are installedCommit, committedCommit    *)
(* and pendingCommit; 0 and NoIntent stand for an absent field.             *)
NewResult ==
  [state |-> "RESULT_READY", installed |-> 0, committed |-> 0, pending |-> NoIntent]

(* snap is the record as the operation read it before its first await.      *)
Idle == [pc |-> "idle", snap |-> NewResult, res |-> 0, head |-> 0]

Begin(pc, r, v) == [pc |-> pc, snap |-> r, res |-> v, head |-> 0]

At(k, pc) == [k EXCEPT !.pc = pc]
Proving(k, h) == [k EXCEPT !.pc = "proof", !.head = h]

Finish(c) == task' = [task EXCEPT ![c] = Idle]
Goto(c, pc) == task' = [task EXCEPT ![c] = At(@, pc)]

(* The patches of store.touch and store.transition.                         *)
InState(r, to) == [r EXCEPT !.state = to]
WithInstalled(r, v) == [r EXCEPT !.installed = v]
WithIntent(r, v, parent) == [r EXCEPT !.pending = [res |-> v, parent |-> parent]]
Committed(v, h) ==
  [state |-> "RETAINED", installed |-> v, committed |-> h, pending |-> NoIntent]

(* The steps of gitCommit, and those at which it has read HEAD.             *)
HeadRead == {"proof", "carries", "commit", "record"}
Committing == {"resolve", "parent", "pending"} \cup HeadRead

(* withSessionLock: one operation of a session at a time.  The operations   *)
(* of two sessions on one result overlap freely.                            *)
CallerFree(c) == task[c] = Idle /\ ~(c = Owner /\ applying)

Init ==
  /\ rec = NewResult
  /\ ref = 1
  /\ worktree = 0
  /\ history = <<0>>
  /\ task = [c \in Caller |-> Idle]
  /\ applying = FALSE
  /\ landed = 0
  /\ cleared = FALSE
  /\ crossed = FALSE
  /\ moved = FALSE
  /\ crashes = 0

-----------------------------------------------------------------------------
(* gitCommit                                                               *)

(* resolveCommitResult: applied, or installed and not yet rejected.         *)
CommitEligible(r) ==
  \/ r.state = "APPLIED"
  \/ r.installed # 0 /\ r.state \in {"RESULT_READY", "RETAINED"}

CommitStart(c) ==
  /\ "commit" \in CallerOps
  /\ CallerFree(c)
  /\ CommitEligible(rec)
  /\ task' = [task EXCEPT ![c] = Begin("resolve", rec, 0)]
  /\ crossed' = (crossed \/ \E d \in Caller \ {c} : task[d] # Idle)
  /\ UNCHANGED <<rec, ref, worktree, history, applying, landed, cleared, moved, crashes>>

(* The record and the resolved ref allow the commit to go on.               *)
Committable(r) ==
  /\ r.installed \in {0, ref}
  /\ r.committed = 0
  /\ r.pending = NoIntent \/ r.pending.res = ref

(* The result ref is resolved; an operation that may not go on, or finds    *)
(* the commit already recorded, ends here.                                  *)
CommitResolve(c) ==
  /\ task[c].pc = "resolve"
  /\ LET r == task[c].snap
     IN IF Committable(r)
        THEN task' = [task EXCEPT ![c] =
               Begin(IF r.pending = NoIntent THEN "parent" ELSE "pending", r, ref)]
        ELSE Finish(c)
  /\ UNCHANGED <<rec, ref, worktree, history, applying, ghosts, crashes>>

(* Mutant: the intent is not written before git commit runs.                *)
RecordIntentSkipped(c) ==
  /\ Goto(c, "commit")
  /\ UNCHANGED rec

(* HEAD is the parent of the commit to come: the intent is persisted before *)
(* git is asked to commit.                                                  *)
RecordIntent(c) ==
  /\ rec' = WithIntent(rec, task[c].res, HeadCommit)
  /\ Goto(c, "commit")

ReadParent(c) ==
  /\ task[c].pc = "parent"
  /\ RecordIntent(c)
  /\ UNCHANGED <<ref, worktree, history, applying, ghosts, crashes>>

(* Mutant: a leftover intent is taken for a commit that did not happen.     *)
ReadPendingHeadRetries(c) ==
  /\ task[c].pc = "pending"
  /\ RecordIntent(c)
  /\ UNCHANGED <<ref, worktree, history, applying, ghosts, crashes>>

(* An earlier attempt left an intent.  If HEAD is still its parent the      *)
(* commit is tried again; otherwise it must be proved to have landed.       *)
ReadPendingHead(c) ==
  /\ task[c].pc = "pending"
  /\ IF HeadCommit = task[c].snap.pending.parent
     THEN RecordIntent(c)
     ELSE /\ task' = [task EXCEPT ![c] = Proving(@, HeadCommit)]
          /\ UNCHANGED rec
  /\ UNCHANGED <<ref, worktree, history, applying, ghosts, crashes>>

(* HEAD^ must be the intent's parent.                                       *)
ReadPendingParent(c) ==
  /\ task[c].pc = "proof"
  /\ IF HeadCommit - 1 = task[c].snap.pending.parent THEN Goto(c, "carries") ELSE Finish(c)
  /\ UNCHANGED <<rec, ref, worktree, history, applying, ghosts, crashes>>

(* Mutant: the record is left in a state of its own.                        *)
RecordCommitOwnState(c, h) ==
  /\ rec' = InState(Committed(task[c].res, h), "COMMITTED")
  /\ Finish(c)

(* store.transition from the state the operation started from to RETAINED,  *)
(* which throws when the state has changed or the edge is illegal.          *)
RecordCommit(c, h) ==
  /\ rec' = IF Moves(rec, task[c].snap.state, "RETAINED")
            THEN Committed(task[c].res, h) ELSE rec
  /\ Finish(c)

(* Mutant: a recovered commit is not compared with the result.              *)
ReadCarriesAnything(c) ==
  /\ task[c].pc = "carries"
  /\ RecordCommit(c, task[c].head)
  /\ UNCHANGED <<ref, worktree, history, applying, ghosts, crashes>>

(* git diff --quiet between the result and HEAD.                            *)
ReadCarries(c) ==
  /\ task[c].pc = "carries"
  /\ IF Last(history) = task[c].res
     THEN RecordCommit(c, task[c].head)
     ELSE Finish(c) /\ UNCHANGED rec
  /\ UNCHANGED <<ref, worktree, history, applying, ghosts, crashes>>

(* git commit of the result's paths, as they are in the working tree.       *)
CommitLands ==
  /\ Len(history) < MaxHistory
  /\ worktree # Last(history)
  /\ history' = Append(history, worktree)
  /\ landed' = HeadCommit + 1

GitCommit(c) ==
  /\ task[c].pc = "commit"
  /\ CommitLands
  /\ Goto(c, "record")
  /\ UNCHANGED <<rec, ref, worktree, applying, cleared, crossed, moved, crashes>>

(* git add or git commit failed, had nothing to commit, or landed and was   *)
(* reported as failed (its timeout).                                        *)
GitCommitFails(c) ==
  /\ task[c].pc = "commit"
  /\ \/ /\ "commit" \in Faults \/ worktree = Last(history)
        /\ UNCHANGED <<history, landed>>
     \/ "commit" \in Faults /\ CommitLands
  /\ Finish(c)
  /\ UNCHANGED <<rec, ref, worktree, applying, cleared, crossed, moved, crashes>>

(* HEAD is read again and recorded as the result's commit.                  *)
ReadCommitted(c) ==
  /\ task[c].pc = "record"
  /\ RecordCommit(c, HeadCommit)
  /\ UNCHANGED <<ref, worktree, history, applying, ghosts, crashes>>

(* A read-only git command fails and the operation with it.                 *)
ReadFails(c) ==
  /\ "read" \in Faults
  /\ task[c].pc \in {"resolve", "parent", "pending", "proof", "carries", "record",
                     "verify", "check"}
  /\ Finish(c)
  /\ UNCHANGED <<rec, ref, worktree, history, applying, ghosts, crashes>>

(* gitClearCommitIntent: no await between its checks and its write.         *)
ClearIntent(c) ==
  /\ "clear" \in CallerOps
  /\ CallerFree(c)
  /\ CommitEligible(rec)
  /\ rec.pending # NoIntent
  /\ rec' = WithIntent(rec, 0, 0)
  /\ cleared' = TRUE
  /\ UNCHANGED <<ref, worktree, history, task, applying, landed, crossed, moved, crashes>>

-----------------------------------------------------------------------------
(* sandboxResultInstall                                                    *)

(* RESULT_READABLE_STATES                                                   *)
ResultReadable(r) == r.state \in {"RESULT_READY", "APPLIED", "RETAINED"}

(* v is the version the caller previewed and the user approved.             *)
InstallStart(c) ==
  /\ "install" \in CallerOps
  /\ CallerFree(c)
  /\ ResultReadable(rec)
  /\ \E v \in 1..ref :
       /\ rec.installed \in {0, v}
       /\ task' = [task EXCEPT ![c] = Begin("verify", rec, v)]
  /\ crossed' = (crossed \/ \E d \in Caller : task[d].pc \in Committing)
  /\ UNCHANGED <<rec, ref, worktree, history, applying, landed, cleared, moved, crashes>>

(* The ref must resolve to the approved version.  With an installed marker  *)
(* the operation only reports whether the working tree still matches it.    *)
InstallVerify(c) ==
  /\ task[c].pc = "verify"
  /\ IF task[c].res = ref /\ task[c].snap.installed = 0 THEN Goto(c, "check") ELSE Finish(c)
  /\ UNCHANGED <<rec, ref, worktree, history, applying, ghosts, crashes>>

(* The working tree must be at the baseline on the result's paths.          *)
InstallCheck(c) ==
  /\ task[c].pc = "check"
  /\ IF worktree = 0 THEN Goto(c, "restore") ELSE Finish(c)
  /\ UNCHANGED <<rec, ref, worktree, history, applying, ghosts, crashes>>

(* git restore by the name of the ref, rm, then the installed marker.       *)
InstallRestore(c) ==
  /\ task[c].pc = "restore"
  /\ worktree' = ref
  /\ rec' = WithInstalled(rec, task[c].res)
  /\ Finish(c)
  /\ UNCHANGED <<ref, history, applying, ghosts, crashes>>

(* One of the two commands failed: nothing, part or all of it is written.   *)
InstallFails(c) ==
  /\ "write" \in Faults
  /\ task[c].pc = "restore"
  /\ worktree' \in {worktree, Edited, ref}
  /\ Finish(c)
  /\ UNCHANGED <<rec, ref, history, applying, ghosts, crashes>>

-----------------------------------------------------------------------------
(* The owner's operations, each under the owner's session lock             *)

OwnerFree(op) == op \in OwnerOps /\ ~applying /\ (Owner \in Caller => task[Owner] = Idle)

(* prepareResult from RESULT_READY: the ref moves, the record stays.        *)
Refinish ==
  /\ OwnerFree("finish")
  /\ rec.state = "RESULT_READY"
  /\ ref < MaxResult
  /\ ref' = ref + 1
  /\ UNCHANGED <<rec, worktree, history, task, applying, ghosts, crashes>>

ApplyStart ==
  /\ OwnerFree("apply")
  /\ Moves(rec, "RESULT_READY", "APPLY_PENDING")
  /\ rec' = InState(rec, "APPLY_PENDING")
  /\ applying' = TRUE
  /\ UNCHANGED <<ref, worktree, history, task, ghosts, crashes>>

(* git apply succeeds only on a working tree still at the baseline.         *)
ApplyLands ==
  /\ applying
  /\ worktree = 0
  /\ worktree' = ref
  /\ rec' = InState(rec, "APPLIED")
  /\ applying' = FALSE
  /\ UNCHANGED <<ref, history, task, ghosts, crashes>>

(* A check refused the patch, or git apply failed or timed out.             *)
ApplyRefused ==
  /\ applying
  /\ \/ worktree' = worktree
     \/ "write" \in Faults /\ worktree = 0 /\ worktree' = ref
  /\ rec' = InState(rec, "RESULT_READY")
  /\ applying' = FALSE
  /\ UNCHANGED <<ref, history, task, ghosts, crashes>>

(* The check of the host tree or of the diff threw: nothing moves the       *)
(* record out of APPLY_PENDING again.                                       *)
ApplyThrows ==
  /\ applying
  /\ "read" \in Faults
  /\ applying' = FALSE
  /\ UNCHANGED <<rec, ref, worktree, history, task, ghosts, crashes>>

Keep ==
  /\ OwnerFree("keep")
  /\ rec.state \in {"RESULT_READY", "APPLIED"}
  /\ rec' = InState(rec, "RETAINED")
  /\ UNCHANGED <<ref, worktree, history, task, applying, ghosts, crashes>>

Discard ==
  /\ OwnerFree("discard")
  /\ Moves(rec, "RESULT_READY", "REJECTED")
  /\ rec' = InState(rec, "REJECTED")
  /\ UNCHANGED <<ref, worktree, history, task, applying, ghosts, crashes>>

-----------------------------------------------------------------------------
(* The user and the machine                                                *)

(* The user edits the result's paths, or puts HEAD's content back.          *)
UserEdits ==
  /\ "edit" \in UserOps
  /\ worktree' \in {Edited, Last(history)}
  /\ UNCHANGED <<rec, ref, history, task, applying, ghosts, crashes>>

(* The user commits other work, or the working tree.                        *)
UserCommits ==
  /\ "commit" \in UserOps
  /\ Len(history) < MaxHistory
  /\ history' \in {Append(history, Last(history)), Append(history, worktree)}
  /\ moved' = (moved \/ \E c \in Caller : task[c].pc \in HeadRead)
  /\ UNCHANGED <<rec, ref, worktree, task, applying, landed, cleared, crossed, crashes>>

(* The broker dies.  Its operations are gone; the git command each was      *)
(* waiting for may have done its work, in part or whole.                    *)
Crash ==
  /\ crashes < MaxCrashes
  /\ crashes' = crashes + 1
  /\ task' = [c \in Caller |-> Idle]
  /\ applying' = FALSE
  /\ \/ worktree' = worktree
     \/ (\E c \in Caller : task[c].pc = "restore") /\ worktree' \in {Edited, ref}
     \/ applying /\ worktree = 0 /\ worktree' = ref
  /\ \/ UNCHANGED <<history, landed>>
     \/ (\E c \in Caller : task[c].pc = "commit") /\ CommitLands
  /\ UNCHANGED <<rec, ref, cleared, crossed, moved>>

CallerStep(c) ==
  \/ CommitStart(c) \/ CommitResolve(c) \/ ReadParent(c) \/ ReadPendingHead(c)
  \/ ReadPendingParent(c) \/ ReadCarries(c) \/ GitCommit(c) \/ GitCommitFails(c)
  \/ ReadCommitted(c) \/ ReadFails(c) \/ ClearIntent(c)
  \/ InstallStart(c) \/ InstallVerify(c) \/ InstallCheck(c)
  \/ InstallRestore(c) \/ InstallFails(c)

OwnerStep ==
  \/ Refinish \/ ApplyStart \/ ApplyLands \/ ApplyRefused \/ ApplyThrows
  \/ Keep \/ Discard

Next ==
  \/ \E c \in Caller : CallerStep(c)
  \/ OwnerStep
  \/ UserEdits
  \/ UserCommits
  \/ Crash

Spec == Init /\ [][Next]_vars

-----------------------------------------------------------------------------
(* Properties                                                              *)

Intent == [res : Nat, parent : Nat]

ResultRecord ==
  [state : SessionStates, installed : Nat, committed : Nat, pending : Intent]

Pc == {"idle", "resolve", "parent", "pending", "proof", "carries", "commit", "record",
       "verify", "check", "restore"}

Task == [pc : Pc, snap : ResultRecord, res : Nat, head : Nat]

(* The type invariant of gitCommit, sandboxResultInstall and their record.  *)
TypeOK ==
  /\ rec \in ResultRecord
  /\ ref \in Nat
  /\ worktree \in Nat
  /\ history \in Seq(Nat) /\ history # <<>>
  /\ task \in [Caller -> Task]
  /\ applying \in BOOLEAN
  /\ landed \in Nat
  /\ cleared \in BOOLEAN
  /\ crossed \in BOOLEAN
  /\ moved \in BOOLEAN
  /\ crashes \in Nat

(* The commit that is recorded is the one gitCommit made, or one that        *)
(* carries the result, although HEAD is read apart from the commit and an    *)
(* intent that is left over may meet a HEAD that somebody else moved.  Two   *)
(* exceptions: the user committed after gitCommit had read HEAD, or another  *)
(* caller's operation on the result was under way beside the gitCommit,      *)
(* which holds the lock of its own caller only.                              *)
RecordedIsTheCommit ==
  rec.committed # 0 /\ ~crossed /\ ~moved =>
    rec.committed = landed \/ history[rec.committed] = rec.installed

(* Whatever fails or crashes after git commit has landed, the persisted      *)
(* pendingCommit is from before that commit, so that a later gitCommit can   *)
(* tell it from a commit that never happened; it names the commit's very     *)
(* parent unless the user committed after gitCommit had read HEAD.  It may   *)
(* be lost when the intent is cleared by hand or when another caller's       *)
(* operation on the result was under way beside a gitCommit.                 *)
IntentNamesCommit ==
  landed # 0 /\ rec.committed = 0 /\ ~cleared /\ ~crossed =>
    /\ rec.pending.parent \in 1..(landed - 1)
    /\ ~moved => rec.pending.parent = landed - 1

(* gitCommit never makes a second commit of a result, however often and by   *)
(* whichever session it is retried after a failure or a crash and whatever   *)
(* the user does meanwhile, unless an intent was cleared by hand or another  *)
(* caller's operation on the result was under way beside a gitCommit.        *)
NoSecondCommit == [][landed # 0 /\ ~cleared /\ ~crossed => landed' = landed]_vars

=============================================================================

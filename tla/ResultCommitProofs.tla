------------------------- MODULE ResultCommitProofs -------------------------
(***************************************************************************)
(* Proofs about ResultCommit: type correctness, and, for any number of     *)
(* callers and whatever the user does meanwhile, that gitCommit never      *)
(* commits a result twice, never forgets a commit that landed and records  *)
(* no other, up to the exceptions that the properties name.                *)
(***************************************************************************)
EXTENDS ResultCommit, TLAPS

(* A change of state, and the installed marker, leave a record that says    *)
(* the same of the commit.                                                  *)
LEMMA RecordPatches ==
  ASSUME NEW r \in ResultRecord, NEW s \in SessionStates, NEW v \in Nat
  PROVE  /\ InState(r, s) \in ResultRecord
         /\ InState(r, s).committed = r.committed /\ InState(r, s).pending = r.pending
         /\ WithInstalled(r, v) \in ResultRecord
         /\ WithInstalled(r, v).committed = r.committed
         /\ WithInstalled(r, v).pending = r.pending
BY DEF ResultRecord, InState, WithInstalled

(* An intent changes nothing but the intent; a recorded commit is a record. *)
LEMMA CommitPatches ==
  ASSUME NEW r \in ResultRecord, NEW v \in Nat, NEW h \in Nat
  PROVE  /\ WithIntent(r, v, h) \in ResultRecord
         /\ WithIntent(r, v, h).committed = r.committed
         /\ WithIntent(r, v, h).pending.parent = h
         /\ Committed(v, h) \in ResultRecord /\ Committed(v, h).committed = h
BY DEF ResultRecord, Intent, WithIntent, Committed, NoIntent, SessionStates

(* A change of state and an intent leave the marker of the installed        *)
(* version; a recorded commit sets it to the version that was committed.    *)
LEMMA StateKeepsInstalled ==
  ASSUME NEW r \in ResultRecord, NEW s \in SessionStates
  PROVE  InState(r, s).installed = r.installed
BY DEF ResultRecord, InState

LEMMA IntentKeeps ==
  ASSUME NEW r \in ResultRecord, NEW v \in Nat, NEW h \in Nat
  PROVE  /\ WithIntent(r, v, h).committed = r.committed
         /\ WithIntent(r, v, h).installed = r.installed
BY DEF ResultRecord, WithIntent

LEMMA CommitInstalls ==
  ASSUME NEW v \in Nat, NEW h \in Nat
  PROVE  Committed(v, h).committed = h /\ Committed(v, h).installed = v
BY DEF Committed

(* A task that goes on elsewhere keeps what it has read.                    *)
LEMMA TaskPatches ==
  ASSUME NEW k \in Task, NEW pc \in Pc
  PROVE  /\ At(k, pc) \in Task /\ At(k, pc).pc = pc /\ At(k, pc).snap = k.snap
         /\ At(k, pc).head = k.head /\ At(k, pc).res = k.res
BY DEF Task, Pc, At

(* A task that sets out to prove a commit remembers which one.              *)
LEMMA ProvingTask ==
  ASSUME NEW k \in Task, NEW h \in Nat
  PROVE  /\ Proving(k, h) \in Task /\ Proving(k, h).pc = "proof"
         /\ Proving(k, h).head = h /\ Proving(k, h).res = k.res
BY DEF Task, Pc, Proving

(* The tasks an operation begins with.                                      *)
LEMMA NewTasks ==
  /\ Idle \in Task /\ Idle.pc = "idle"
  /\ \A pc \in Pc, r \in ResultRecord, v \in Nat :
       /\ Begin(pc, r, v) \in Task /\ Begin(pc, r, v).pc = pc
       /\ Begin(pc, r, v).snap = r /\ Begin(pc, r, v).res = v
<1>1. NewResult \in ResultRecord
  BY DEF NewResult, ResultRecord, SessionStates, Intent, NoIntent
<1> QED BY <1>1 DEF Idle, Begin, Task, Pc

(* Every state is well typed at the start.                                  *)
LEMMA TypeInit == Init => TypeOK
<1>1. NewResult \in ResultRecord
  BY DEF NewResult, ResultRecord, SessionStates, Intent, NoIntent
<1>2. <<0>> \in Seq(Nat) /\ <<0>> # <<>>
  OBVIOUS
<1>3. Idle \in Task
  BY NewTasks
<1> SUFFICES ASSUME Init PROVE TypeOK
  OBVIOUS
<1>4. task \in [Caller -> Task]
  BY <1>3 DEF Init
<1>5. history \in Seq(Nat) /\ history # <<>>
  BY <1>2 DEF Init
<1>6. /\ ref \in Nat /\ worktree \in Nat /\ landed \in Nat /\ crashes \in Nat
      /\ applying \in BOOLEAN /\ cleared \in BOOLEAN /\ crossed \in BOOLEAN /\ moved \in BOOLEAN
  BY DEF Init
<1> QED BY <1>1, <1>4, <1>5, <1>6 DEF Init, TypeOK

(* A caller's step keeps the types.                                         *)
LEMMA TypeCaller ==
  ASSUME TypeOK, NEW c \in Caller, CallerStep(c)
  PROVE  TypeOK'
<1>t. /\ rec \in ResultRecord /\ ref \in Nat /\ worktree \in Nat
      /\ history \in Seq(Nat) /\ history # <<>> /\ task \in [Caller -> Task]
      /\ applying \in BOOLEAN /\ landed \in Nat /\ crashes \in Nat
      /\ cleared \in BOOLEAN /\ crossed \in BOOLEAN /\ moved \in BOOLEAN
  BY DEF TypeOK
<1>k. /\ task[c] \in Task /\ task[c].pc \in Pc /\ task[c].snap \in ResultRecord
      /\ task[c].res \in Nat /\ task[c].head \in Nat
  BY <1>t DEF Task
<1>h. HeadCommit \in Nat
  BY <1>t DEF HeadCommit
<1>f. Finish(c) => task' \in [Caller -> Task]
  BY <1>t, NewTasks DEF Finish
<1>g. ASSUME NEW pc \in Pc, Goto(c, pc) PROVE task' \in [Caller -> Task]
  BY <1>t, <1>k, <1>g, TaskPatches DEF Goto
<1>i. RecordIntent(c) => rec' \in ResultRecord /\ task' \in [Caller -> Task]
  <2> SUFFICES ASSUME RecordIntent(c) PROVE rec' \in ResultRecord /\ task' \in [Caller -> Task]
    OBVIOUS
  <2>1. rec' \in ResultRecord
    BY <1>t, <1>k, <1>h, CommitPatches DEF RecordIntent
  <2>2. Goto(c, "commit") /\ "commit" \in Pc
    BY DEF RecordIntent, Pc
  <2> QED BY <2>1, <2>2, <1>g
<1>r. ASSUME NEW h \in Nat, RecordCommit(c, h)
      PROVE  rec' \in ResultRecord /\ task' \in [Caller -> Task]
  BY <1>t, <1>k, <1>f, <1>r, CommitPatches DEF RecordCommit
<1>1. CASE CommitStart(c)
  <2>1. Begin("resolve", rec, 0) \in Task
    BY <1>t, NewTasks DEF Pc
  <2> QED BY <1>1, <1>t, <2>1 DEF CommitStart, ghosts, TypeOK
<1>2. CASE CommitResolve(c)
  <2>1. \A r \in ResultRecord :
          Begin(IF r.pending = NoIntent THEN "parent" ELSE "pending", r, ref) \in Task
    BY <1>t, NewTasks DEF Pc
  <2> QED BY <1>2, <1>t, <1>k, <1>f, <2>1 DEF CommitResolve, ghosts, TypeOK
<1>3. CASE ReadParent(c)
  BY <1>3, <1>t, <1>i DEF ReadParent, ghosts, TypeOK
<1>4. CASE ReadPendingHead(c)
  <2>1. CASE HeadCommit = task[c].snap.pending.parent
    BY <1>4, <2>1, <1>t, <1>i DEF ReadPendingHead, ghosts, TypeOK
  <2>2. CASE HeadCommit # task[c].snap.pending.parent
    <3>1. Proving(task[c], HeadCommit) \in Task
      BY <1>k, <1>h, ProvingTask
    <3> QED BY <1>4, <2>2, <1>t, <3>1 DEF ReadPendingHead, ghosts, TypeOK
  <2> QED BY <2>1, <2>2
<1>5. CASE ReadPendingParent(c)
  <2>1. task' \in [Caller -> Task]
    BY <1>5, <1>f, <1>g DEF ReadPendingParent, Pc
  <2> QED BY <1>5, <1>t, <2>1 DEF ReadPendingParent, ghosts, TypeOK
<1>6. CASE ReadCarries(c)
  <2>1. rec' \in ResultRecord /\ task' \in [Caller -> Task]
    BY <1>6, <1>k, <1>t, <1>f, <1>r DEF ReadCarries
  <2> QED BY <1>6, <1>t, <2>1 DEF ReadCarries, ghosts, TypeOK
<1>l. CommitLands => /\ history' \in Seq(Nat) /\ history' # <<>> /\ landed' \in Nat
  BY <1>t, <1>h DEF CommitLands
<1>7. CASE GitCommit(c)
  <2>1. task' \in [Caller -> Task]
    BY <1>7, <1>g DEF GitCommit, Pc
  <2> QED BY <1>7, <1>t, <1>l, <2>1 DEF GitCommit, TypeOK
<1>8. CASE GitCommitFails(c)
  BY <1>8, <1>t, <1>l, <1>f DEF GitCommitFails, TypeOK
<1>9. CASE ReadCommitted(c)
  BY <1>9, <1>t, <1>h, <1>r DEF ReadCommitted, ghosts, TypeOK
<1>10. CASE ReadFails(c)
  BY <1>10, <1>t, <1>f DEF ReadFails, ghosts, TypeOK
<1>11. CASE ClearIntent(c)
  <2>1. WithIntent(rec, 0, 0) \in ResultRecord
    BY <1>t, CommitPatches
  <2> QED BY <1>11, <1>t, <2>1 DEF ClearIntent, TypeOK
<1>12. CASE InstallStart(c)
  <2>1. \A v \in 1..ref : Begin("verify", rec, v) \in Task
    BY <1>t, NewTasks DEF Pc
  <2> QED BY <1>12, <1>t, <2>1 DEF InstallStart, ghosts, TypeOK
<1>13. CASE InstallVerify(c)
  <2>1. task' \in [Caller -> Task]
    BY <1>13, <1>f, <1>g DEF InstallVerify, Pc
  <2> QED BY <1>13, <1>t, <2>1 DEF InstallVerify, ghosts, TypeOK
<1>14. CASE InstallCheck(c)
  <2>1. task' \in [Caller -> Task]
    BY <1>14, <1>f, <1>g DEF InstallCheck, Pc
  <2> QED BY <1>14, <1>t, <2>1 DEF InstallCheck, ghosts, TypeOK
<1>15. CASE InstallRestore(c)
  <2>1. WithInstalled(rec, task[c].res) \in ResultRecord
    BY <1>t, <1>k, RecordPatches DEF SessionStates
  <2> QED BY <1>15, <1>t, <1>f, <2>1 DEF InstallRestore, ghosts, TypeOK
<1>16. CASE InstallFails(c)
  BY <1>16, <1>t, <1>f, ConstantsAssumption DEF InstallFails, Edited, ghosts, TypeOK
<1> QED
  BY <1>1, <1>2, <1>3, <1>4, <1>5, <1>6, <1>7, <1>8, <1>9, <1>10, <1>11, <1>12, <1>13,
     <1>14, <1>15, <1>16 DEF CallerStep

(* A step of the owner, the user or the machine keeps the types.            *)
LEMMA TypeOthers ==
  ASSUME TypeOK, OwnerStep \/ UserEdits \/ UserCommits \/ Crash
  PROVE  TypeOK'
<1>t. /\ rec \in ResultRecord /\ ref \in Nat /\ worktree \in Nat
      /\ history \in Seq(Nat) /\ history # <<>> /\ task \in [Caller -> Task]
      /\ applying \in BOOLEAN /\ landed \in Nat /\ crashes \in Nat
      /\ cleared \in BOOLEAN /\ crossed \in BOOLEAN /\ moved \in BOOLEAN
  BY DEF TypeOK
<1>s. \A s \in SessionStates : InState(rec, s) \in ResultRecord
  BY <1>t, RecordPatches
<1>l. Last(history) \in Nat
  BY <1>t DEF Last
<1>1. CASE OwnerStep
  <2>a. \A s \in {"RESULT_READY", "APPLY_PENDING", "APPLIED", "RETAINED", "REJECTED"} :
          InState(rec, s) \in ResultRecord
    BY <1>s DEF SessionStates
  <2>1. /\ rec' \in ResultRecord /\ ref' \in Nat /\ worktree' \in Nat
        /\ applying' \in BOOLEAN
    <3>1. CASE Refinish BY <3>1, <1>t DEF Refinish
    <3>2. CASE ApplyStart BY <3>2, <1>t, <2>a DEF ApplyStart
    <3>3. CASE ApplyLands BY <3>3, <1>t, <2>a DEF ApplyLands
    <3>4. CASE ApplyRefused BY <3>4, <1>t, <2>a DEF ApplyRefused
    <3>5. CASE ApplyThrows BY <3>5, <1>t DEF ApplyThrows
    <3>6. CASE Keep BY <3>6, <1>t, <2>a DEF Keep
    <3>7. CASE Discard BY <3>7, <1>t, <2>a DEF Discard
    <3> QED BY <1>1, <3>1, <3>2, <3>3, <3>4, <3>5, <3>6, <3>7 DEF OwnerStep
  <2>2. UNCHANGED <<history, task, ghosts, crashes>>
    BY <1>1 DEF OwnerStep, Refinish, ApplyStart, ApplyLands, ApplyRefused,
       ApplyThrows, Keep, Discard, ghosts
  <2> QED BY <1>t, <2>1, <2>2 DEF ghosts, TypeOK
<1>2. CASE UserEdits
  BY <1>2, <1>t, <1>l, ConstantsAssumption DEF UserEdits, Edited, ghosts, TypeOK
<1>3. CASE UserCommits
  <2>a. \A x \in Nat : Append(history, x) \in Seq(Nat) /\ Append(history, x) # <<>>
    BY <1>t
  <2>1. history' \in Seq(Nat) /\ history' # <<>>
    BY <1>3, <1>t, <1>l, <2>a DEF UserCommits
  <2> QED BY <1>3, <1>t, <2>1 DEF UserCommits, ghosts, TypeOK
<1>4. CASE Crash
  <2>e. Edited \in Nat
    BY ConstantsAssumption DEF Edited
  <2>b. worktree' \in {worktree, Edited, ref}
    BY <1>4 DEF Crash
  <2>c. crashes' \in Nat
    BY <1>4, <1>t DEF Crash
  <2>d. applying' \in BOOLEAN
    BY <1>4 DEF Crash
  <2>1. worktree' \in Nat /\ crashes' \in Nat /\ applying' \in BOOLEAN
    BY <1>t, <2>b, <2>c, <2>d, <2>e
  <2>a. CommitLands => history' \in Seq(Nat) /\ history' # <<>> /\ landed' \in Nat
    BY <1>t DEF CommitLands, HeadCommit
  <2>2. history' \in Seq(Nat) /\ history' # <<>> /\ landed' \in Nat
    BY <1>4, <1>t, <2>a DEF Crash
  <2>3. task' \in [Caller -> Task]
    BY <1>4, NewTasks DEF Crash
  <2> QED BY <1>4, <1>t, <2>1, <2>2, <2>3 DEF Crash, TypeOK
<1> QED BY <1>1, <1>2, <1>3, <1>4

(* The type invariant is inductive.                                         *)
LEMMA TypeStep == TypeOK /\ [Next]_vars => TypeOK'
<1> SUFFICES ASSUME TypeOK, [Next]_vars PROVE TypeOK'
  OBVIOUS
<1>1. CASE UNCHANGED vars
  BY <1>1 DEF vars, TypeOK
<1>2. CASE Next
  BY <1>2, TypeCaller, TypeOthers DEF Next
<1> QED BY <1>1, <1>2

(* TypeOK holds of every reachable state, for every value of the constants. *)
THEOREM ResultTypeCorrect == Spec => []TypeOK
BY TypeInit, TypeStep, PTL DEF Spec

-----------------------------------------------------------------------------
(* No second commit.  gitCommit takes the lock of its caller and not that   *)
(* of the result, so what it knows is known only while no other caller's    *)
(* operation meets it.                                                      *)

(* Until operations cross, a gitCommit is the only operation under way.     *)
Alone ==
  ~crossed => \A c, d \in Caller : task[c].pc \in Committing /\ task[d] # Idle => c = d

(* What the record knows of a commit that gitCommit made.                   *)
CommitKnown ==
  \/ landed = 0
  \/ cleared
  \/ rec.committed # 0
  \/ /\ rec.pending.parent # 0 /\ rec.pending.parent < landed
     /\ ~moved => rec.pending.parent = landed - 1

(* The record that gitCommit read is still the current one where it decides *)
(* by it, and git commit runs only if no commit has been made, after an     *)
(* intent whose parent is in the branch.                                    *)
TaskKnows(k) ==
  /\ k.pc \in {"resolve", "parent", "pending"} =>
       /\ k.snap.committed = rec.committed
       /\ ~cleared => k.snap.pending = rec.pending
  /\ k.pc \in {"parent", "pending"} => rec.committed = 0
  /\ k.pc = "parent" => cleared \/ rec.pending.parent = 0
  /\ k.pc \in {"proof", "carries"} => k.head # 0
  /\ k.pc = "commit" =>
       \/ cleared
       \/ /\ landed = 0
          /\ rec.pending.parent # 0 /\ rec.pending.parent <= Len(history)
          /\ ~moved => rec.pending.parent = Len(history)

Known == CommitKnown /\ \A c \in Caller : TaskKnows(task[c])

CommitInv ==
  /\ landed <= Len(history)
  /\ Alone
  /\ ~crossed => Known

(* A step of c's task that begins no operation keeps the others apart.      *)
LEMMA AloneTask ==
  ASSUME TypeOK, Alone, NEW c \in Caller, NEW k,
         task' = [task EXCEPT ![c] = k], crossed' = crossed,
         k # Idle => task[c] # Idle,
         k.pc \in Committing => task[c].pc \in Committing
  PROVE  Alone'
<1> SUFFICES ASSUME ~crossed', NEW d \in Caller, NEW e \in Caller,
                    task'[d].pc \in Committing, task'[e] # Idle
             PROVE  d = e
  BY DEF Alone
<1>1. /\ task'[d] = (IF d = c THEN k ELSE task[d])
      /\ task'[e] = (IF e = c THEN k ELSE task[e])
  BY DEF TypeOK
<1>2. task[d].pc \in Committing
  BY <1>1
<1>3. task[e] # Idle
  BY <1>1
<1> QED BY <1>2, <1>3 DEF Alone

(* No step lets a gitCommit and another operation overlap unnoticed.        *)
LEMMA AloneStep == TypeOK /\ Alone /\ [Next]_vars => Alone'
<1> SUFFICES ASSUME TypeOK, Alone, [Next]_vars PROVE Alone'
  OBVIOUS
<1>t. task \in [Caller -> Task] /\ \A c \in Caller : task[c] \in Task
  BY DEF TypeOK
<1>n. Idle.pc = "idle" /\ Idle.pc \notin Committing
  BY NewTasks DEF Committing, HeadRead
<1>u. ASSUME UNCHANGED <<task, crossed>> PROVE Alone'
  BY <1>u DEF Alone
<1>1. ASSUME NEW c \in Caller, CallerStep(c) PROVE Alone'
  <2>f. ASSUME Finish(c), crossed' = crossed PROVE Alone'
    BY <2>f, <1>n, AloneTask DEF Finish
  <2>g. ASSUME NEW pc \in Pc, Goto(c, pc), crossed' = crossed, task[c].pc # "idle",
               pc \in Committing => task[c].pc \in Committing
        PROVE  Alone'
    <3>1. At(task[c], pc).pc = pc
      BY <1>t, TaskPatches
    <3>2. task[c] # Idle
      BY <2>g, <1>n
    <3> QED BY <2>g, <3>1, <3>2, AloneTask DEF Goto
  <2>1. CASE CommitStart(c)
    <3> SUFFICES ASSUME ~crossed' PROVE Alone'
      BY DEF Alone
    <3>1. \A d \in Caller : d # c => task'[d] = Idle
      BY <2>1, <1>t DEF CommitStart
    <3> QED BY <3>1, <1>n DEF Alone
  <2>2. CASE CommitResolve(c)
    <3>u. task[c].pc = "resolve" /\ crossed' = crossed
      BY <2>2 DEF CommitResolve, ghosts
    <3>1. CASE Finish(c)
      BY <3>1, <3>u, <2>f
    <3>2. CASE Committable(task[c].snap)
      <4>1. task[c] # Idle /\ task[c].pc \in Committing
        BY <3>u, <1>n DEF Committing
      <4> DEFINE k == Begin(IF task[c].snap.pending = NoIntent THEN "parent" ELSE "pending",
                            task[c].snap, ref)
      <4>2. task' = [task EXCEPT ![c] = k]
        BY <2>2, <3>2 DEF CommitResolve
      <4> HIDE DEF k
      <4> QED BY <3>u, <4>1, <4>2, AloneTask
    <3> QED BY <2>2, <3>1, <3>2 DEF CommitResolve
  <2>i. ASSUME RecordIntent(c), crossed' = crossed, task[c].pc \in {"parent", "pending"}
        PROVE  Alone'
    BY <2>i, <2>g DEF RecordIntent, Pc, Committing, HeadRead
  <2>3. CASE ReadParent(c)
    BY <2>3, <2>i DEF ReadParent, ghosts
  <2>4. CASE ReadPendingHead(c)
    <3>u. task[c].pc = "pending" /\ crossed' = crossed
      BY <2>4 DEF ReadPendingHead, ghosts
    <3>1. CASE RecordIntent(c)
      BY <3>1, <3>u, <2>i
    <3>2. CASE task' = [task EXCEPT ![c] = Proving(task[c], HeadCommit)]
      <4>1. task[c] # Idle /\ task[c].pc \in Committing
        BY <3>u, <1>n DEF Committing
      <4> QED BY <3>u, <3>2, <4>1, AloneTask
    <3> QED BY <2>4, <3>1, <3>2 DEF ReadPendingHead
  <2>5. CASE ReadPendingParent(c)
    BY <2>5, <2>f, <2>g DEF ReadPendingParent, ghosts, Pc, Committing, HeadRead
  <2>6. CASE ReadCarries(c)
    BY <2>6, <2>f DEF ReadCarries, RecordCommit, ghosts
  <2>7. CASE GitCommit(c)
    BY <2>7, <2>g DEF GitCommit, Pc, Committing, HeadRead
  <2>8. CASE GitCommitFails(c)
    BY <2>8, <2>f DEF GitCommitFails
  <2>9. CASE ReadCommitted(c)
    BY <2>9, <2>f DEF ReadCommitted, RecordCommit, ghosts
  <2>10. CASE ReadFails(c)
    BY <2>10, <2>f DEF ReadFails, ghosts
  <2>11. CASE ClearIntent(c)
    BY <2>11, <1>u DEF ClearIntent
  <2>12. CASE InstallStart(c)
    <3> SUFFICES ASSUME ~crossed' PROVE Alone'
      BY DEF Alone
    <3>1. PICK v \in 1..ref : task' = [task EXCEPT ![c] = Begin("verify", rec, v)]
      BY <2>12 DEF InstallStart
    <3>2. Begin("verify", rec, v).pc = "verify"
      BY <3>1, NewTasks DEF Pc, TypeOK
    <3>3. \A d \in Caller : task[d].pc \notin Committing
      BY <2>12 DEF InstallStart
    <3>4. \A d \in Caller : task'[d].pc \notin Committing
      BY <1>t, <3>1, <3>2, <3>3 DEF Committing, HeadRead
    <3> QED BY <3>4 DEF Alone
  <2>13. CASE InstallVerify(c)
    BY <2>13, <2>f, <2>g DEF InstallVerify, ghosts, Pc, Committing, HeadRead
  <2>14. CASE InstallCheck(c)
    BY <2>14, <2>f, <2>g DEF InstallCheck, ghosts, Pc, Committing, HeadRead
  <2>15. CASE InstallRestore(c)
    BY <2>15, <2>f DEF InstallRestore, ghosts
  <2>16. CASE InstallFails(c)
    BY <2>16, <2>f DEF InstallFails, ghosts
  <2> QED
    BY <1>1, <2>1, <2>2, <2>3, <2>4, <2>5, <2>6, <2>7, <2>8, <2>9, <2>10, <2>11, <2>12,
       <2>13, <2>14, <2>15, <2>16 DEF CallerStep
<1>2. ASSUME OwnerStep \/ UserEdits \/ UserCommits \/ UNCHANGED vars PROVE Alone'
  BY <1>2, <1>u DEF OwnerStep, Refinish, ApplyStart, ApplyLands, ApplyRefused, ApplyThrows,
     Keep, Discard, UserEdits, UserCommits, ghosts, vars
<1>3. CASE Crash
  <2>1. \A c \in Caller : task'[c].pc \notin Committing
    BY <1>3, <1>n DEF Crash
  <2> QED BY <2>1 DEF Alone
<1> QED BY <1>1, <1>2, <1>3 DEF Next

(* A commit makes the branch one longer.                                    *)
LEMMA LandedLength ==
  ASSUME NEW h \in Seq(Nat), NEW x \in Nat
  PROVE  Len(Append(h, x)) = Len(h) + 1
OBVIOUS

(* A step that changes neither the branch nor what the record says of the   *)
(* commit, and leaves c's task with k.                                      *)
LEMMA QuietStep ==
  ASSUME TypeOK, Known, NEW c \in Caller, NEW k,
         rec'.committed = rec.committed, rec'.pending = rec.pending,
         UNCHANGED <<history, landed, cleared, moved>>,
         task' = [task EXCEPT ![c] = k],
         TaskKnows(k)
  PROVE  Known' /\ landed' = landed
<1>1. TaskKnows(k)' /\ \A d \in Caller : TaskKnows(task[d]) /\ task'[d] = task[d] => TaskKnows(task[d])'
  BY DEF TaskKnows
<1>2. \A d \in Caller : task'[d] = IF d = c THEN k ELSE task[d]
  BY DEF TypeOK
<1>3. CommitKnown'
  BY DEF Known, CommitKnown
<1>4. \A d \in Caller : TaskKnows(task[d])'
  <2> TAKE d \in Caller
  <2>1. CASE d = c
    <3>1. task'[d] = k
      BY <1>2, <2>1
    <3> QED BY <1>1, <3>1 DEF TaskKnows
  <2>2. CASE d # c
    BY <1>1, <1>2, <2>2 DEF Known
  <2> QED BY <2>1, <2>2
<1> QED BY <1>3, <1>4 DEF Known

(* An idle task and one that reads only about an installation know nothing. *)
LEMMA Ignorant ==
  ASSUME NEW k, k.pc \in {"idle", "verify", "check", "restore", "record"}
  PROVE  TaskKnows(k)
BY DEF TaskKnows

(* A caller's step keeps CommitInv, and makes a commit only if none was     *)
(* made or the intent was cleared.                                          *)
LEMMA CallerKnows ==
  ASSUME TypeOK, CommitInv, NEW c \in Caller, CallerStep(c), ~crossed'
  PROVE  Known' /\ (landed # 0 /\ ~cleared => landed' = landed)
<1>t. /\ rec \in ResultRecord /\ history \in Seq(Nat) /\ history # <<>>
      /\ task \in [Caller -> Task] /\ landed \in Nat /\ cleared \in BOOLEAN
  BY DEF TypeOK
<1>k. /\ task[c] \in Task /\ task[c].pc \in Pc /\ task[c].snap \in ResultRecord
      /\ task[c].res \in Nat /\ task[c].head \in Nat
  BY <1>t DEF Task
<1>h. HeadCommit \in Nat /\ HeadCommit # 0 /\ HeadCommit = Len(history)
  BY <1>t DEF HeadCommit
<1>c. ~crossed
  BY DEF CallerStep, CommitStart, CommitResolve, ReadParent, ReadPendingHead, ReadPendingParent,
     ReadCarries, GitCommit, GitCommitFails, ReadCommitted, ReadFails, ClearIntent,
     InstallStart, InstallVerify, InstallCheck, InstallRestore, InstallFails, ghosts, TypeOK
<1>i. /\ landed <= Len(history) /\ CommitKnown /\ TaskKnows(task[c]) /\ Known
      /\ rec.committed \in Nat /\ rec.pending \in Intent /\ rec.pending.parent \in Nat
  BY <1>t, <1>c DEF CommitInv, Known, ResultRecord, Intent
<1>o. task[c].pc \in Committing => \A d \in Caller : d = c \/ task[d] = Idle
  BY <1>c DEF CommitInv, Alone
<1>f. TaskKnows(Idle)
  BY NewTasks, Ignorant
<1>a. ASSUME Finish(c), rec'.committed = rec.committed, rec'.pending = rec.pending,
             UNCHANGED <<history, landed, cleared, moved>>
      PROVE  Known' /\ landed' = landed
  BY <1>a, <1>f, <1>i, QuietStep DEF Finish
<1>b. ASSUME NEW pc \in {"verify", "check", "restore", "record"}, Goto(c, pc),
             UNCHANGED <<rec, history, landed, cleared, moved>>
      PROVE  Known' /\ landed' = landed
  <2>1. At(task[c], pc).pc = pc
    BY <1>k, TaskPatches DEF Pc
  <2>2. TaskKnows(At(task[c], pc))
    BY <2>1, Ignorant
  <2> QED BY <1>b, <1>i, <2>2, QuietStep DEF Goto
<1>1. CASE CommitStart(c)
  <2> DEFINE k == Begin("resolve", rec, 0)
  <2>1. k.pc = "resolve" /\ k.snap = rec
    BY <1>t, NewTasks DEF Pc
  <2> HIDE DEF k
  <2>2. TaskKnows(k)
    BY <2>1 DEF TaskKnows
  <2>3. task' = [task EXCEPT ![c] = k] /\ UNCHANGED <<rec, history, landed, cleared, moved>>
    BY <1>1 DEF CommitStart, ghosts, k
  <2> QED BY <1>i, <2>2, <2>3, QuietStep
<1>2. CASE CommitResolve(c)
  <2>u. UNCHANGED <<rec, history, landed, cleared, moved>>
    BY <1>2 DEF CommitResolve, ghosts
  <2>1. CASE ~Committable(task[c].snap)
    BY <1>2, <2>1, <2>u, <1>a DEF CommitResolve
  <2>2. CASE Committable(task[c].snap)
    <3> DEFINE r == task[c].snap
               w == IF r.pending = NoIntent THEN "parent" ELSE "pending"
               k == Begin(w, r, ref)
    <3>0. ref \in Nat
      BY DEF TypeOK
    <3>1. k.pc = w /\ k.snap = r /\ w \in {"parent", "pending"}
      BY <1>k, <3>0, NewTasks DEF Pc
    <3>2. task' = [task EXCEPT ![c] = k]
      BY <1>2, <2>2 DEF CommitResolve
    <3>3. /\ r.committed = rec.committed /\ r.committed = 0
          /\ cleared \/ r.pending = rec.pending
      BY <1>2, <1>i, <2>2 DEF CommitResolve, TaskKnows, Committable
    <3>4. w = "parent" => cleared \/ rec.pending.parent = 0
      BY <3>3 DEF NoIntent
    <3> HIDE DEF k, w, r
    <3>5. TaskKnows(k)
      BY <3>1, <3>3, <3>4 DEF TaskKnows
    <3> QED BY <1>i, <2>u, <3>2, <3>5, QuietStep
  <2> QED BY <2>1, <2>2
<1>n. ASSUME RecordIntent(c), landed = 0 \/ cleared, task[c].pc \in Committing,
             UNCHANGED <<history, landed, cleared, moved>>
      PROVE  Known' /\ landed' = landed
  <2> DEFINE v == task[c].res
             h == HeadCommit
  <2>i. rec' = WithIntent(rec, v, h)
    BY <1>n DEF RecordIntent
  <2>r. rec \in ResultRecord /\ v \in Nat /\ h \in Nat
    BY <1>t, <1>k, <1>h
  <2> HIDE DEF v, h
  <2>p. rec'.committed = rec.committed /\ rec'.pending.parent = h
    BY <2>i, <2>r, CommitPatches
  <2>1. rec'.committed = rec.committed /\ rec'.pending.parent = HeadCommit
    BY <2>p DEF h
  <2>2. At(task[c], "commit").pc = "commit"
    BY <1>k, TaskPatches DEF Pc
  <2>3. \A d \in Caller : task'[d].pc \in {"commit", "idle"}
    BY <1>n, <1>o, <1>t, <2>2, NewTasks DEF RecordIntent, Goto
  <2>4. \A d \in Caller : TaskKnows(task[d])'
    BY <1>n, <1>h, <2>1, <2>3 DEF TaskKnows
  <2>5. CommitKnown'
    BY <1>n DEF CommitKnown
  <2> QED BY <1>n, <2>4, <2>5 DEF Known
<1>3. CASE ReadParent(c)
  <2>1. landed = 0 \/ cleared
    BY <1>3, <1>i DEF ReadParent, TaskKnows, CommitKnown
  <2> QED BY <1>3, <1>n, <2>1 DEF ReadParent, ghosts, Committing
<1>4. CASE ReadPendingHead(c)
  <2>u. UNCHANGED <<history, landed, cleared, moved>>
    BY <1>4 DEF ReadPendingHead, ghosts
  <2>p. (cleared \/ task[c].snap.pending = rec.pending) /\ rec.committed = 0
    BY <1>4, <1>i DEF ReadPendingHead, TaskKnows
  <2>1. CASE HeadCommit = task[c].snap.pending.parent
    <3>1. landed = 0 \/ cleared
      BY <1>i, <1>h, <1>t, <2>1, <2>p DEF CommitKnown
    <3> QED BY <1>4, <1>n, <2>1, <2>u, <3>1 DEF ReadPendingHead, Committing
  <2>2. CASE HeadCommit # task[c].snap.pending.parent
    <3>1. /\ Proving(task[c], HeadCommit).pc = "proof"
          /\ Proving(task[c], HeadCommit).head = HeadCommit
      BY <1>k, <1>h, ProvingTask
    <3>2. TaskKnows(Proving(task[c], HeadCommit))
      BY <1>h, <3>1 DEF TaskKnows
    <3>3. task' = [task EXCEPT ![c] = Proving(task[c], HeadCommit)] /\ rec' = rec
      BY <1>4, <2>2 DEF ReadPendingHead
    <3> QED BY <1>i, <2>u, <3>2, <3>3, QuietStep
  <2> QED BY <2>1, <2>2
<1>5. CASE ReadPendingParent(c)
  <2>u. UNCHANGED <<rec, history, landed, cleared, moved>>
    BY <1>5 DEF ReadPendingParent, ghosts
  <2>1. CASE Finish(c)
    BY <2>1, <2>u, <1>a
  <2>2. CASE Goto(c, "carries")
    <3>1. At(task[c], "carries").pc = "carries" /\ At(task[c], "carries").head = task[c].head
      BY <1>k, TaskPatches DEF Pc
    <3>2. TaskKnows(At(task[c], "carries"))
      BY <1>5, <1>i, <3>1 DEF TaskKnows, ReadPendingParent
    <3> QED BY <1>i, <2>u, <2>2, <3>2, QuietStep DEF Goto
  <2> QED BY <1>5, <2>1, <2>2 DEF ReadPendingParent
<1>r. ASSUME NEW h \in Nat, h # 0, RecordCommit(c, h), task[c].pc \in Committing,
             UNCHANGED <<history, landed, cleared, moved>>
      PROVE  Known' /\ landed' = landed
  <2>1. CASE rec' = rec
    BY <1>r, <2>1, <1>a DEF RecordCommit
  <2>2. CASE rec' = Committed(task[c].res, h)
    <3>1. rec'.committed # 0
      BY <1>r, <2>2, <1>t, <1>k, CommitPatches
    <3>2. CommitKnown'
      BY <3>1 DEF CommitKnown
    <3>3. \A d \in Caller : task'[d] = Idle
      BY <1>r, <1>o, <1>t DEF RecordCommit, Finish
    <3>4. \A d \in Caller : TaskKnows(task[d])'
      BY <3>3, NewTasks DEF TaskKnows
    <3> QED BY <1>r, <3>2, <3>4 DEF Known
  <2> QED BY <1>r, <2>1, <2>2 DEF RecordCommit
<1>6. CASE ReadCarries(c)
  <2>u. UNCHANGED <<history, landed, cleared, moved>>
    BY <1>6 DEF ReadCarries, ghosts
  <2>1. task[c].head # 0
    BY <1>6, <1>i DEF ReadCarries, TaskKnows
  <2>2. CASE RecordCommit(c, task[c].head)
    BY <1>6, <1>k, <1>r, <2>u, <2>1, <2>2 DEF ReadCarries, Committing, HeadRead
  <2>3. CASE Finish(c) /\ UNCHANGED rec
    BY <1>a, <2>u, <2>3
  <2> QED BY <1>6, <2>2, <2>3 DEF ReadCarries
<1>l. ASSUME CommitLands, task[c].pc = "commit", UNCHANGED <<rec, cleared, moved>>,
             \A d \in Caller : task'[d].pc \in {"idle", "record"}
      PROVE  Known' /\ (landed # 0 /\ ~cleared => landed' = landed)
  <2>1. \/ cleared
        \/ /\ landed = 0
           /\ rec.pending.parent # 0 /\ rec.pending.parent <= Len(history)
           /\ ~moved => rec.pending.parent = Len(history)
    BY <1>l, <1>i DEF TaskKnows
  <2>2. Len(history') = Len(history) + 1 /\ landed' = Len(history) + 1
    BY <1>l, <1>t, <1>h, LandedLength DEF CommitLands
  <2>3. CommitKnown'
    BY <1>l, <1>i, <1>h, <2>1, <2>2 DEF CommitKnown
  <2>5. \A d \in Caller : TaskKnows(task[d])'
    BY <1>l DEF TaskKnows
  <2> QED BY <2>1, <2>3, <2>5 DEF Known
<1>7. CASE GitCommit(c)
  <2>1. At(task[c], "record").pc = "record"
    BY <1>k, TaskPatches DEF Pc
  <2>2. \A d \in Caller : task'[d].pc \in {"record", "idle"}
    BY <1>7, <1>o, <1>t, <2>1, NewTasks DEF GitCommit, Goto, Committing, HeadRead
  <2> QED BY <1>7, <1>l, <2>2 DEF GitCommit
<1>8. CASE GitCommitFails(c)
  <2>1. CASE UNCHANGED <<history, landed>>
    BY <1>8, <2>1, <1>a DEF GitCommitFails
  <2>2. CASE CommitLands
    <3>1. \A d \in Caller : task'[d].pc = "idle"
      BY <1>8, <1>o, <1>t, NewTasks DEF GitCommitFails, Finish, Committing, HeadRead
    <3> QED BY <1>8, <1>l, <2>2, <3>1 DEF GitCommitFails
  <2> QED BY <1>8, <2>1, <2>2 DEF GitCommitFails
<1>9. CASE ReadCommitted(c)
  BY <1>9, <1>h, <1>r DEF ReadCommitted, ghosts, Committing, HeadRead
<1>10. CASE ReadFails(c)
  BY <1>10, <1>a DEF ReadFails, ghosts
<1>11. CASE ClearIntent(c)
  <2>1. cleared' /\ landed' = landed /\ task' = task
    BY <1>11 DEF ClearIntent
  <2>2. rec'.committed = rec.committed
    <3>1. rec' = WithIntent(rec, 0, 0)
      BY <1>11 DEF ClearIntent
    <3> QED BY <1>t, <3>1, IntentKeeps
  <2>3. \A d \in Caller : TaskKnows(task[d])'
    BY <1>i, <2>1, <2>2 DEF Known, TaskKnows
  <2> QED BY <2>1, <2>3 DEF Known, CommitKnown
<1>12. CASE InstallStart(c)
  <2>0. \A v \in 1..ref : Begin("verify", rec, v).pc = "verify"
    BY <1>t, NewTasks DEF TypeOK, Pc
  <2>1. PICK v \in 1..ref : task' = [task EXCEPT ![c] = Begin("verify", rec, v)]
    BY <1>12 DEF InstallStart
  <2>2. TaskKnows(Begin("verify", rec, v))
    BY <2>0, Ignorant
  <2>3. UNCHANGED <<rec, history, landed, cleared, moved>>
    BY <1>12 DEF InstallStart, ghosts
  <2> QED BY <1>i, <2>1, <2>2, <2>3, QuietStep
<1>13. CASE InstallVerify(c)
  BY <1>13, <1>a, <1>b DEF InstallVerify, ghosts
<1>14. CASE InstallCheck(c)
  BY <1>14, <1>a, <1>b DEF InstallCheck, ghosts
<1>15. CASE InstallRestore(c)
  <2>1. rec'.committed = rec.committed /\ rec'.pending = rec.pending
    BY <1>15, <1>t, <1>k, RecordPatches DEF InstallRestore, SessionStates
  <2> QED BY <1>15, <1>a, <2>1 DEF InstallRestore, ghosts
<1>16. CASE InstallFails(c)
  BY <1>16, <1>a DEF InstallFails, ghosts
<1> QED
  BY <1>1, <1>2, <1>3, <1>4, <1>5, <1>6, <1>7, <1>8, <1>9, <1>10, <1>11, <1>12, <1>13,
     <1>14, <1>15, <1>16 DEF CallerStep

(* A step of the owner or the user commits nothing for gitCommit; a crash   *)
(* may let a git commit land that was under way.                            *)
LEMMA OthersKnow ==
  ASSUME TypeOK, CommitInv, OwnerStep \/ UserEdits \/ UserCommits \/ Crash, ~crossed'
  PROVE  Known' /\ (landed # 0 /\ ~cleared => landed' = landed)
<1>t. /\ rec \in ResultRecord /\ history \in Seq(Nat) /\ history # <<>>
      /\ task \in [Caller -> Task] /\ landed \in Nat /\ cleared \in BOOLEAN
      /\ Len(history) \in Nat
  BY DEF TypeOK
<1>c. ~crossed
  BY DEF OwnerStep, Refinish, ApplyStart, ApplyLands, ApplyRefused, ApplyThrows, Keep,
     Discard, UserEdits, UserCommits, Crash, ghosts
<1>i. /\ landed <= Len(history) /\ CommitKnown
      /\ \A c \in Caller : TaskKnows(task[c])
      /\ rec.committed \in Nat /\ rec.pending.parent \in Nat
  BY <1>t, <1>c DEF CommitInv, Known, ResultRecord, Intent
<1>1. CASE OwnerStep
  <2>s. \A s \in {"RESULT_READY", "APPLY_PENDING", "APPLIED", "RETAINED", "REJECTED"} :
          /\ InState(rec, s).committed = rec.committed
          /\ InState(rec, s).pending = rec.pending
    BY <1>t, RecordPatches DEF SessionStates
  <2>1. UNCHANGED <<history, task, landed, cleared, moved>>
    BY <1>1 DEF OwnerStep, Refinish, ApplyStart, ApplyLands, ApplyRefused,
       ApplyThrows, Keep, Discard, ghosts
  <2>2. rec'.committed = rec.committed /\ rec'.pending = rec.pending
    BY <1>1, <2>s DEF OwnerStep, Refinish, ApplyStart, ApplyLands, ApplyRefused,
       ApplyThrows, Keep, Discard
  <2> QED BY <1>i, <2>1, <2>2 DEF Known, CommitKnown, TaskKnows
<1>2. CASE UserEdits
  BY <1>2, <1>i DEF UserEdits, ghosts, Known, CommitKnown, TaskKnows
<1>3. CASE UserCommits
  <2>1. UNCHANGED <<rec, task, landed, cleared>> /\ (moved => moved')
    BY <1>3 DEF UserCommits
  <2>2. Len(history') = Len(history) + 1
    <3>1. Last(history) \in Nat /\ worktree \in Nat
      BY <1>t DEF Last, TypeOK
    <3> QED BY <1>3, <1>t, <3>1, LandedLength DEF UserCommits
  <2>3. CommitKnown'
    BY <1>t, <1>i, <2>1 DEF CommitKnown
  <2>w. ~moved' => \A c \in Caller : task[c].pc # "commit"
    BY <1>3 DEF UserCommits, HeadRead
  <2>4. \A c \in Caller : TaskKnows(task[c])'
    BY <1>t, <1>i, <2>1, <2>2, <2>w DEF TaskKnows
  <2> QED BY <2>1, <2>3, <2>4 DEF Known
<1>4. CASE Crash
  <2>1. /\ rec' = rec /\ cleared' = cleared /\ moved' = moved
        /\ \A c \in Caller : task'[c] = Idle
    BY <1>4 DEF Crash
  <2>2. \A c \in Caller : TaskKnows(task[c])'
    BY <2>1, NewTasks DEF TaskKnows
  <2>3. CASE UNCHANGED <<history, landed>>
    BY <1>i, <2>1, <2>2, <2>3 DEF Known, CommitKnown
  <2>4. CASE CommitLands /\ \E c \in Caller : task[c].pc = "commit"
    <3>1. PICK c \in Caller : task[c].pc = "commit"
      BY <2>4
    <3>2. \/ cleared
          \/ /\ landed = 0
             /\ rec.pending.parent # 0 /\ rec.pending.parent <= Len(history)
             /\ ~moved => rec.pending.parent = Len(history)
      BY <1>i, <3>1 DEF TaskKnows
    <3>3. landed' = Len(history) + 1
      BY <2>4 DEF CommitLands, HeadCommit
    <3>4. CommitKnown'
      BY <1>t, <1>i, <2>1, <3>2, <3>3 DEF CommitKnown
    <3> QED BY <2>2, <3>2, <3>4 DEF Known
  <2> QED BY <1>4, <2>3, <2>4 DEF Crash
<1> QED BY <1>1, <1>2, <1>3, <1>4

(* The commit that landed is in the branch.                                 *)
LEMMA LandedStep == TypeOK /\ landed <= Len(history) /\ [Next]_vars => landed' <= Len(history')
<1> SUFFICES ASSUME TypeOK, landed <= Len(history), [Next]_vars PROVE landed' <= Len(history')
  OBVIOUS
<1>t. /\ history \in Seq(Nat) /\ history # <<>> /\ landed \in Nat /\ worktree \in Nat
      /\ Len(history) \in Nat /\ Last(history) \in Nat
  BY DEF TypeOK, Last
<1>1. CASE CommitLands
  BY <1>1, <1>t, LandedLength DEF CommitLands, HeadCommit
<1>2. CASE UserCommits
  <2>1. landed' = landed /\ Len(history') = Len(history) + 1
    BY <1>2, <1>t, LandedLength DEF UserCommits
  <2> QED BY <1>t, <2>1
<1>3. CASE UNCHANGED <<history, landed>>
  BY <1>3
<1>4. CommitLands \/ UserCommits \/ UNCHANGED <<history, landed>>
  <2>1. ASSUME NEW c \in Caller, CallerStep(c)
        PROVE  CommitLands \/ UNCHANGED <<history, landed>>
    BY <2>1 DEF CallerStep, CommitStart, CommitResolve, ReadParent, ReadPendingHead,
       ReadPendingParent, ReadCarries, GitCommit, GitCommitFails, ReadCommitted, ReadFails,
       ClearIntent, InstallStart, InstallVerify, InstallCheck, InstallRestore,
       InstallFails, ghosts
  <2>2. OwnerStep \/ UserEdits \/ UNCHANGED vars => UNCHANGED <<history, landed>>
    BY DEF OwnerStep, Refinish, ApplyStart, ApplyLands, ApplyRefused, ApplyThrows, Keep,
       Discard, UserEdits, ghosts, vars
  <2>3. Crash => CommitLands \/ UNCHANGED <<history, landed>>
    BY DEF Crash
  <2> QED BY <2>1, <2>2, <2>3 DEF Next
<1> QED BY <1>1, <1>2, <1>3, <1>4

(* CommitInv holds of every reachable state, and only a result without a    *)
(* known commit gets one.                                                   *)
LEMMA CommitInit == Init => CommitInv
<1> SUFFICES ASSUME Init PROVE CommitInv
  OBVIOUS
<1>1. landed = 0 /\ \A c \in Caller : task[c] = Idle
  BY DEF Init
<1>2. landed <= Len(history)
  BY <1>1 DEF Init
<1>3. \A c \in Caller : TaskKnows(task[c])
  BY <1>1, NewTasks, Ignorant
<1>4. Alone
  BY <1>1, NewTasks DEF Alone
<1> QED BY <1>1, <1>2, <1>3, <1>4 DEF CommitInv, Known, CommitKnown

LEMMA CommitNext ==
  ASSUME TypeOK, CommitInv, [Next]_vars
  PROVE  CommitInv' /\ (landed # 0 /\ ~cleared /\ ~crossed' => landed' = landed)
<1>1. CASE UNCHANGED vars
  BY <1>1 DEF vars, CommitInv, Alone, Known, CommitKnown, TaskKnows
<1>2. CASE Next
  <2>1. ~crossed' => Known' /\ (landed # 0 /\ ~cleared => landed' = landed)
    BY <1>2, CallerKnows, OthersKnow DEF Next
  <2>2. landed' <= Len(history') /\ Alone'
    BY <1>2, LandedStep, AloneStep DEF CommitInv
  <2> QED BY <2>1, <2>2 DEF CommitInv
<1> QED BY <1>1, <1>2

(* gitCommit makes at most one commit of a result: whatever fails, whatever *)
(* the owner and the user do meanwhile and whichever caller retries, unless *)
(* an intent is cleared by hand or two callers' operations have crossed.    *)
THEOREM AtMostOneCommit == Spec => NoSecondCommit
<1>1. TypeOK /\ CommitInv /\ [Next]_vars => CommitInv'
  BY CommitNext
<1>2. TypeOK /\ CommitInv /\ [Next]_vars
        => [landed # 0 /\ ~cleared /\ ~crossed => landed' = landed]_vars
  <2> SUFFICES ASSUME TypeOK, CommitInv, [Next]_vars, landed # 0, ~cleared, ~crossed
               PROVE  landed' = landed
    OBVIOUS
  <2>1. CASE ~crossed'
    BY <2>1, CommitNext
  <2>2. CASE crossed'
    BY <2>2 DEF Next, CallerStep, CommitStart, CommitResolve, ReadParent, ReadPendingHead,
       ReadPendingParent, ReadCarries, GitCommit, GitCommitFails, ReadCommitted, ReadFails,
       ClearIntent, InstallStart, InstallVerify, InstallCheck, InstallRestore,
       InstallFails, OwnerStep, Refinish, ApplyStart, ApplyLands, ApplyRefused, ApplyThrows,
       Keep, Discard, UserEdits, UserCommits, Crash, ghosts, vars
  <2> QED BY <2>1, <2>2
<1> QED BY CommitInit, <1>1, <1>2, ResultTypeCorrect, PTL DEF Spec, NoSecondCommit

(* The persisted pendingCommit is from before a commit that landed, until   *)
(* it is recorded, cleared by hand or two callers' operations cross: after  *)
(* any crash or failed command gitCommit can tell it from one that never    *)
(* happened.  It names the very parent unless the user committed after      *)
(* gitCommit had read HEAD.                                                 *)
THEOREM CommitNotForgotten == Spec => []IntentNamesCommit
<1>1. TypeOK /\ CommitInv /\ [Next]_vars => CommitInv'
  BY CommitNext
<1>2. TypeOK /\ CommitInv => IntentNamesCommit
  <2> SUFFICES ASSUME TypeOK, CommitInv PROVE IntentNamesCommit
    OBVIOUS
  <2>1. rec.pending.parent \in Nat /\ landed \in Nat
    BY DEF TypeOK, ResultRecord, Intent
  <2> QED BY <2>1 DEF CommitInv, Known, CommitKnown, IntentNamesCommit
<1> QED BY CommitInit, <1>1, <1>2, ResultTypeCorrect, PTL DEF Spec

-----------------------------------------------------------------------------
(* The recorded commit.                                                    *)

(* What an operation under way knows of the record and of HEAD.  It is      *)
(* about a result that has no commit recorded, HEAD is the one it set out   *)
(* to prove or has just made, and so is an install that found no marker.    *)
TaskSees(k) ==
  /\ k.pc \in {"parent", "pending", "proof", "carries", "commit", "record"} =>
       rec.committed = 0 /\ k.res # 0
  /\ k.pc \in {"proof", "carries"} => k.head = Len(history)
  /\ k.pc = "record" => landed = Len(history)
  /\ k.pc = "verify" => k.snap.installed # 0 \/ rec.committed = 0
  /\ k.pc \in {"check", "restore"} => rec.committed = 0

Sees ==
  /\ rec.committed # 0 =>
       /\ rec.committed <= Len(history) /\ rec.installed # 0
       /\ rec.committed = landed \/ history[rec.committed] = rec.installed
  /\ \A c \in Caller : TaskSees(task[c])

RecordedInv == ref # 0 /\ (~crossed /\ ~moved => Sees)

(* A step that leaves the branch and what the record says of the result.    *)
LEMMA StillStep ==
  ASSUME TypeOK, Sees, NEW c \in Caller, NEW k,
         rec'.committed = rec.committed, rec'.installed = rec.installed,
         UNCHANGED <<history, landed>>,
         task' = [task EXCEPT ![c] = k],
         TaskSees(k)
  PROVE  Sees'
<1>1. TaskSees(k)'
  BY DEF TaskSees
<1>2. \A d \in Caller : task'[d] = IF d = c THEN k ELSE task[d]
  BY DEF TypeOK
<1>3. \A d \in Caller : TaskSees(task[d])'
  <2> TAKE d \in Caller
  <2>1. CASE d = c
    <3>1. task'[d] = k
      BY <1>2, <2>1
    <3> QED BY <1>1, <3>1 DEF TaskSees
  <2>2. CASE d # c
    <3>1. task'[d] = task[d] /\ TaskSees(task[d])
      BY <1>2, <2>2 DEF Sees
    <3> QED BY <3>1 DEF TaskSees
  <2> QED BY <2>1, <2>2
<1> QED BY <1>3 DEF Sees

(* The branch grows by a commit, with none recorded.                        *)
LEMMA UnrecordedStep ==
  ASSUME rec.committed = 0, rec' = rec, \A d \in Caller : TaskSees(task[d])'
  PROVE  Sees'
BY DEF Sees

(* A caller's step keeps RecordedInv.                                       *)
LEMMA CallerSees ==
  ASSUME TypeOK, CommitInv, RecordedInv, NEW c \in Caller, CallerStep(c),
         ~crossed', ~moved'
  PROVE  Sees'
<1>t. /\ rec \in ResultRecord /\ ref \in Nat /\ history \in Seq(Nat) /\ history # <<>>
      /\ task \in [Caller -> Task] /\ landed \in Nat
  BY DEF TypeOK
<1>k. /\ task[c] \in Task /\ task[c].pc \in Pc /\ task[c].snap \in ResultRecord
      /\ task[c].res \in Nat /\ task[c].head \in Nat
  BY <1>t DEF Task
<1>h. HeadCommit \in Nat /\ HeadCommit # 0 /\ HeadCommit = Len(history)
  BY <1>t DEF HeadCommit
<1>c. ~crossed /\ ~moved
  BY DEF CallerStep, CommitStart, CommitResolve, ReadParent, ReadPendingHead, ReadPendingParent,
     ReadCarries, GitCommit, GitCommitFails, ReadCommitted, ReadFails, ClearIntent,
     InstallStart, InstallVerify, InstallCheck, InstallRestore, InstallFails, ghosts, TypeOK
<1>i. TaskKnows(task[c]) /\ TaskSees(task[c]) /\ ref # 0 /\ Sees
  BY <1>c DEF CommitInv, RecordedInv, Known, Sees
<1>o. task[c].pc \in Committing => \A d \in Caller : d = c \/ task[d] = Idle
  BY <1>c DEF CommitInv, Alone
<1>f. TaskSees(Idle)
  BY NewTasks DEF TaskSees
<1>a. ASSUME Finish(c), rec'.committed = rec.committed, rec'.installed = rec.installed,
             UNCHANGED <<history, landed>>
      PROVE  Sees'
  BY <1>i, <1>a, <1>f, StillStep DEF Finish
<1>b. ASSUME NEW pc \in Pc, Goto(c, pc), TaskSees(At(task[c], pc)),
             rec'.committed = rec.committed, rec'.installed = rec.installed,
             UNCHANGED <<history, landed>>
      PROVE  Sees'
  BY <1>i, <1>b, StillStep DEF Goto
<1>1. CASE CommitStart(c)
  <2> DEFINE k == Begin("resolve", rec, 0)
  <2>1. k.pc = "resolve"
    BY <1>t, NewTasks DEF Pc
  <2>2. task' = [task EXCEPT ![c] = k] /\ UNCHANGED <<rec, history, landed>>
    BY <1>1 DEF CommitStart, ghosts
  <2> HIDE DEF k
  <2>3. TaskSees(k)
    BY <2>1 DEF TaskSees
  <2> QED BY <1>i, <2>2, <2>3, StillStep
<1>2. CASE CommitResolve(c)
  <2>u. UNCHANGED <<rec, history, landed>>
    BY <1>2 DEF CommitResolve, ghosts
  <2>1. CASE ~Committable(task[c].snap)
    BY <1>2, <2>1, <2>u, <1>a DEF CommitResolve
  <2>2. CASE Committable(task[c].snap)
    <3> DEFINE r == task[c].snap
               w == IF r.pending = NoIntent THEN "parent" ELSE "pending"
               k == Begin(w, r, ref)
    <3>1. k.pc = w /\ k.res = ref /\ w \in {"parent", "pending"}
      BY <1>t, <1>k, NewTasks DEF Pc
    <3>2. task' = [task EXCEPT ![c] = k]
      BY <1>2, <2>2 DEF CommitResolve
    <3>3. rec.committed = 0
      BY <1>2, <1>i, <2>2 DEF CommitResolve, TaskKnows, Committable
    <3> HIDE DEF k, w, r
    <3>4. TaskSees(k)
      BY <1>i, <3>1, <3>3 DEF TaskSees
    <3> QED BY <1>i, <2>u, <3>2, <3>4, StillStep
  <2> QED BY <2>1, <2>2
<1>n. ASSUME RecordIntent(c), task[c].pc \in {"parent", "pending"},
             UNCHANGED <<history, landed>>
      PROVE  Sees'
  <2>1. rec'.committed = rec.committed /\ rec'.installed = rec.installed
    <3>1. rec' = WithIntent(rec, task[c].res, HeadCommit)
      BY <1>n DEF RecordIntent
    <3> QED BY <1>t, <1>k, <1>h, <3>1, IntentKeeps
  <2>2. At(task[c], "commit").pc = "commit" /\ At(task[c], "commit").res = task[c].res
    BY <1>k, TaskPatches DEF Pc
  <2>3. TaskSees(At(task[c], "commit"))
    BY <1>n, <1>i, <2>2 DEF TaskSees
  <2> QED BY <1>n, <1>b, <2>1, <2>3 DEF RecordIntent, Pc
<1>3. CASE ReadParent(c)
  BY <1>3, <1>n DEF ReadParent, ghosts
<1>4. CASE ReadPendingHead(c)
  <2>u. UNCHANGED <<history, landed>> /\ task[c].pc = "pending"
    BY <1>4 DEF ReadPendingHead, ghosts
  <2>1. CASE HeadCommit = task[c].snap.pending.parent
    BY <1>4, <1>n, <2>1, <2>u DEF ReadPendingHead
  <2>2. CASE HeadCommit # task[c].snap.pending.parent
    <3> DEFINE k == Proving(task[c], HeadCommit)
    <3>1. k.pc = "proof" /\ k.head = HeadCommit /\ k.res = task[c].res
      BY <1>k, <1>h, ProvingTask
    <3>2. task' = [task EXCEPT ![c] = k] /\ rec' = rec
      BY <1>4, <2>2 DEF ReadPendingHead
    <3> HIDE DEF k
    <3>3. TaskSees(k)
      BY <1>h, <1>i, <2>u, <3>1 DEF TaskSees
    <3> QED BY <1>i, <2>u, <3>2, <3>3, StillStep
  <2> QED BY <2>1, <2>2
<1>5. CASE ReadPendingParent(c)
  <2>u. UNCHANGED <<rec, history, landed>> /\ task[c].pc = "proof"
    BY <1>5 DEF ReadPendingParent, ghosts
  <2>1. CASE Finish(c)
    BY <2>1, <2>u, <1>a
  <2>2. CASE Goto(c, "carries")
    <3> DEFINE k == At(task[c], "carries")
    <3>1. k.pc = "carries" /\ k.head = task[c].head /\ k.res = task[c].res
      BY <1>k, TaskPatches DEF Pc
    <3> HIDE DEF k
    <3>2. TaskSees(k)
      BY <1>i, <2>u, <3>1 DEF TaskSees
    <3> QED BY <2>u, <2>2, <3>2, <1>b DEF Pc, k
  <2> QED BY <1>5, <2>1, <2>2 DEF ReadPendingParent
<1>r. ASSUME NEW h \in Nat, h # 0, h <= Len(history), RecordCommit(c, h),
             task[c].pc \in Committing, task[c].res # 0, h = landed \/ history[h] = task[c].res,
             UNCHANGED <<history, landed>>
      PROVE  Sees'
  <2>1. CASE rec' = rec
    BY <1>r, <2>1, <1>a DEF RecordCommit
  <2>2. CASE rec' = Committed(task[c].res, h)
    <3>1. rec'.committed = h /\ rec'.installed = task[c].res
      BY <1>r, <2>2, <1>k, CommitInstalls
    <3>3. \A d \in Caller : task'[d] = Idle
      BY <1>r, <1>o, <1>t DEF RecordCommit, Finish
    <3>4. \A d \in Caller : TaskSees(task[d])'
      BY <3>3, NewTasks DEF TaskSees
    <3> QED BY <1>r, <3>1, <3>4 DEF Sees
  <2> QED BY <1>r, <2>1, <2>2 DEF RecordCommit
<1>6. CASE ReadCarries(c)
  <2>u. UNCHANGED <<history, landed>> /\ task[c].pc = "carries"
    BY <1>6 DEF ReadCarries, ghosts
  <2>1. task[c].head = Len(history) /\ task[c].head # 0 /\ task[c].res # 0
    BY <1>i, <1>h, <2>u DEF TaskSees
  <2>2. CASE RecordCommit(c, task[c].head) /\ Last(history) = task[c].res
    <3>1. history[task[c].head] = task[c].res
      BY <2>1, <2>2 DEF Last
    <3> QED BY <1>k, <1>h, <1>r, <2>u, <2>1, <2>2, <3>1 DEF Committing, HeadRead
  <2>3. CASE Finish(c) /\ UNCHANGED rec
    BY <1>a, <2>u, <2>3
  <2> QED BY <1>6, <2>2, <2>3 DEF ReadCarries
<1>l. ASSUME CommitLands, task[c].pc = "commit", UNCHANGED rec,
             \A d \in Caller : task'[d].pc \in {"idle", "record"},
             \A d \in Caller : task'[d].pc = "record" => task'[d].res = task[c].res
      PROVE  Sees'
  <2>1. rec.committed = 0 /\ task[c].res # 0
    BY <1>l, <1>i DEF TaskSees
  <2>2. worktree \in Nat
    BY DEF TypeOK
  <2>3. landed' = Len(history')
    BY <1>l, <1>t, <1>h, <2>2, LandedLength DEF CommitLands
  <2>4. \A d \in Caller : TaskSees(task[d])'
    BY <1>l, <2>1, <2>3 DEF TaskSees
  <2> QED BY <1>l, <2>1, <2>4, UnrecordedStep
<1>7. CASE GitCommit(c)
  <2>1. At(task[c], "record").pc = "record" /\ At(task[c], "record").res = task[c].res
    BY <1>k, TaskPatches DEF Pc
  <2>2. \A d \in Caller : task'[d] \in {At(task[c], "record"), Idle}
    BY <1>7, <1>o, <1>t DEF GitCommit, Goto, Committing, HeadRead
  <2> QED BY <1>7, <1>l, <2>1, <2>2, NewTasks DEF GitCommit
<1>8. CASE GitCommitFails(c)
  <2>1. CASE UNCHANGED <<history, landed>>
    BY <1>8, <2>1, <1>a DEF GitCommitFails
  <2>2. CASE CommitLands
    <3>1. \A d \in Caller : task'[d].pc = "idle"
      BY <1>8, <1>o, <1>t, NewTasks DEF GitCommitFails, Finish, Committing, HeadRead
    <3> QED BY <1>8, <1>l, <2>2, <3>1 DEF GitCommitFails
  <2> QED BY <1>8, <2>1, <2>2 DEF GitCommitFails
<1>9. CASE ReadCommitted(c)
  <2>1. task[c].res # 0 /\ HeadCommit = landed
    BY <1>9, <1>h, <1>i DEF ReadCommitted, TaskSees
  <2> QED BY <1>9, <1>h, <1>r, <2>1 DEF ReadCommitted, ghosts, Committing, HeadRead
<1>10. CASE ReadFails(c)
  BY <1>10, <1>a DEF ReadFails, ghosts
<1>11. CASE ClearIntent(c)
  <2>1. rec'.committed = rec.committed /\ rec'.installed = rec.installed
    <3>1. rec' = WithIntent(rec, 0, 0)
      BY <1>11 DEF ClearIntent
    <3> QED BY <1>t, <3>1, IntentKeeps
  <2>2. task' = [task EXCEPT ![c] = Idle] /\ UNCHANGED <<history, landed>>
    BY <1>11, <1>t DEF ClearIntent, CallerFree
  <2> QED BY <1>i, <1>f, <2>1, <2>2, StillStep
<1>12. CASE InstallStart(c)
  <2>0. \A v \in 1..ref : /\ Begin("verify", rec, v).pc = "verify"
                           /\ Begin("verify", rec, v).snap = rec
    BY <1>t, NewTasks DEF Pc
  <2>1. PICK v \in 1..ref : task' = [task EXCEPT ![c] = Begin("verify", rec, v)]
    BY <1>12 DEF InstallStart
  <2>2. TaskSees(Begin("verify", rec, v))
    BY <2>0, <1>i DEF TaskSees, Sees
  <2>3. UNCHANGED <<rec, history, landed>>
    BY <1>12 DEF InstallStart, ghosts
  <2> QED BY <1>i, <2>1, <2>2, <2>3, StillStep
<1>13. CASE InstallVerify(c)
  <2>u. UNCHANGED <<rec, history, landed>> /\ task[c].pc = "verify"
    BY <1>13 DEF InstallVerify, ghosts
  <2>1. CASE Goto(c, "check") /\ task[c].snap.installed = 0
    <3> DEFINE k == At(task[c], "check")
    <3>1. k.pc = "check" /\ k.snap = task[c].snap
      BY <1>k, TaskPatches DEF Pc
    <3> HIDE DEF k
    <3>2. TaskSees(k)
      BY <1>i, <2>u, <2>1, <3>1 DEF TaskSees
    <3> QED BY <2>u, <2>1, <3>2, <1>b DEF Pc, k
  <2>2. CASE Finish(c)
    BY <2>2, <2>u, <1>a
  <2> QED BY <1>13, <2>1, <2>2 DEF InstallVerify
<1>14. CASE InstallCheck(c)
  <2>u. UNCHANGED <<rec, history, landed>> /\ task[c].pc = "check"
    BY <1>14 DEF InstallCheck, ghosts
  <2>1. CASE Goto(c, "restore")
    <3> DEFINE k == At(task[c], "restore")
    <3>1. k.pc = "restore" /\ k.snap = task[c].snap
      BY <1>k, TaskPatches DEF Pc
    <3> HIDE DEF k
    <3>2. TaskSees(k)
      BY <1>i, <2>u, <3>1 DEF TaskSees
    <3> QED BY <2>u, <2>1, <3>2, <1>b DEF Pc, k
  <2>2. CASE Finish(c)
    BY <2>2, <2>u, <1>a
  <2> QED BY <1>14, <2>1, <2>2 DEF InstallCheck
<1>15. CASE InstallRestore(c)
  <2>1. rec.committed = 0
    BY <1>15, <1>i DEF InstallRestore, TaskSees
  <2>2. rec'.committed = 0
    BY <1>15, <1>t, <1>k, <2>1, RecordPatches DEF InstallRestore, SessionStates
  <2>3. UNCHANGED <<history, landed>> /\ \A d \in Caller : task'[d] \in {Idle, task[d]}
    BY <1>15, <1>t DEF InstallRestore, Finish, ghosts
  <2>4. \A d \in Caller : TaskSees(task[d])'
    BY <1>i, <2>1, <2>2, <2>3, NewTasks DEF Sees, TaskSees
  <2> QED BY <2>2, <2>4 DEF Sees
<1>16. CASE InstallFails(c)
  BY <1>16, <1>a DEF InstallFails, ghosts
<1> QED
  BY <1>1, <1>2, <1>3, <1>4, <1>5, <1>6, <1>7, <1>8, <1>9, <1>10, <1>11, <1>12, <1>13,
     <1>14, <1>15, <1>16 DEF CallerStep

(* So does a step of the owner, of the user, and a crash.                   *)
LEMMA OthersSee ==
  ASSUME TypeOK, RecordedInv, OwnerStep \/ UserEdits \/ UserCommits \/ Crash,
         ~crossed', ~moved'
  PROVE  Sees'
<1>t. /\ rec \in ResultRecord /\ ref \in Nat /\ history \in Seq(Nat) /\ history # <<>>
      /\ task \in [Caller -> Task] /\ landed \in Nat /\ worktree \in Nat
      /\ Len(history) \in Nat /\ rec.committed \in Nat
  BY DEF TypeOK, ResultRecord
<1>c. ~crossed /\ ~moved
  <2>1. CASE UserCommits
    BY <2>1 DEF UserCommits
  <2>2. CASE OwnerStep \/ UserEdits \/ Crash
    BY <2>2 DEF OwnerStep, Refinish, ApplyStart, ApplyLands, ApplyRefused, ApplyThrows, Keep,
       Discard, UserEdits, Crash, ghosts
  <2> QED BY <2>1, <2>2
<1>i. /\ rec.committed # 0 =>
           /\ rec.committed <= Len(history) /\ rec.installed # 0
           /\ rec.committed = landed \/ history[rec.committed] = rec.installed
      /\ \A c \in Caller : TaskSees(task[c])
  BY <1>c DEF RecordedInv, Sees
<1>1. CASE OwnerStep
  <2>s. \A s \in {"RESULT_READY", "APPLY_PENDING", "APPLIED", "RETAINED", "REJECTED"} :
          /\ InState(rec, s).committed = rec.committed
          /\ InState(rec, s).installed = rec.installed
    <3>1. \A s \in {"RESULT_READY", "APPLY_PENDING", "APPLIED", "RETAINED", "REJECTED"} :
            s \in SessionStates
      BY DEF SessionStates
    <3>2. rec \in ResultRecord /\ 0 \in Nat
      BY <1>t
    <3>3. \A s \in SessionStates : InState(rec, s).committed = rec.committed
      BY <3>2, RecordPatches
    <3>4. \A s \in SessionStates : InState(rec, s).installed = rec.installed
      BY <3>2, StateKeepsInstalled
    <3> QED BY <3>1, <3>3, <3>4
  <2>1. UNCHANGED <<history, task, landed>>
    BY <1>1 DEF OwnerStep, Refinish, ApplyStart, ApplyLands, ApplyRefused,
       ApplyThrows, Keep, Discard, ghosts
  <2>2. rec'.committed = rec.committed /\ rec'.installed = rec.installed
    BY <1>1, <2>s DEF OwnerStep, Refinish, ApplyStart, ApplyLands, ApplyRefused,
       ApplyThrows, Keep, Discard
  <2> QED BY <1>i, <2>1, <2>2 DEF Sees, TaskSees
<1>2. CASE UserEdits
  BY <1>2, <1>i DEF UserEdits, ghosts, Sees, TaskSees
<1>3. CASE UserCommits
  <2>1. UNCHANGED <<rec, task, landed>>
    BY <1>3 DEF UserCommits, ghosts
  <2>2. PICK x \in Nat : history' = Append(history, x)
    <3>1. Last(history) \in Nat
      BY <1>t DEF Last
    <3> QED BY <1>3, <1>t, <3>1 DEF UserCommits
  <2>3. /\ Len(history') = Len(history) + 1
        /\ \A i \in 1..Len(history) : history'[i] = history[i]
    BY <1>t, <2>2
  <2>4. rec.committed # 0 =>
          /\ rec.committed <= Len(history')
          /\ rec.committed = landed \/ history'[rec.committed] = rec.installed
    BY <1>t, <1>i, <2>3
  <2>5. \A c \in Caller : task[c].pc \notin HeadRead
    BY <1>3 DEF UserCommits
  <2>6. \A c \in Caller : TaskSees(task[c])'
    BY <1>i, <2>1, <2>5 DEF TaskSees, HeadRead
  <2> QED BY <1>i, <2>1, <2>4, <2>6 DEF Sees
<1>4. CASE Crash
  <2>1. rec' = rec /\ \A c \in Caller : task'[c] = Idle
    BY <1>4 DEF Crash
  <2>2. \A c \in Caller : TaskSees(task[c])'
    BY <2>1, NewTasks DEF TaskSees
  <2>3. CASE UNCHANGED <<history, landed>>
    BY <1>i, <2>1, <2>2, <2>3 DEF Sees
  <2>4. CASE \E c \in Caller : task[c].pc = "commit"
    <3>1. rec.committed = 0
      BY <1>i, <2>4 DEF TaskSees
    <3> QED BY <2>1, <2>2, <3>1, UnrecordedStep
  <2> QED BY <1>4, <2>3, <2>4 DEF Crash
<1> QED BY <1>1, <1>2, <1>3, <1>4

(* The commit that is recorded for a result is the one gitCommit made, or   *)
(* one that carries the installed result, although HEAD is read apart from  *)
(* the commit and an intent may meet a HEAD that the user has moved, unless *)
(* the user committed after gitCommit had read HEAD or two callers'         *)
(* operations have crossed.                                                 *)
THEOREM RecordedCommitIsOurs == Spec => []RecordedIsTheCommit
<1>1. Init => RecordedInv
  <2> SUFFICES ASSUME Init PROVE RecordedInv
    OBVIOUS
  <2>1. ref = 1 /\ rec.committed = 0 /\ \A c \in Caller : task[c].pc = "idle"
    BY NewTasks DEF Init, NewResult
  <2> QED BY <2>1 DEF RecordedInv, Sees, TaskSees
<1>2. TypeOK /\ CommitInv /\ [Next]_vars => CommitInv'
  BY CommitNext
<1>3. TypeOK /\ CommitInv /\ RecordedInv /\ [Next]_vars => RecordedInv'
  <2> SUFFICES ASSUME TypeOK, CommitInv, RecordedInv, [Next]_vars PROVE RecordedInv'
    OBVIOUS
  <2>1. CASE UNCHANGED vars
    BY <2>1 DEF vars, RecordedInv, Sees, TaskSees
  <2>2. CASE Next
    <3>1. ~crossed' /\ ~moved' => Sees'
      BY <2>2, CallerSees, OthersSee DEF Next
    <3>2. ref' \in {ref, ref + 1}
      BY <2>2 DEF Next, CallerStep, CommitStart, CommitResolve, ReadParent, ReadPendingHead,
         ReadPendingParent, ReadCarries, GitCommit, GitCommitFails, ReadCommitted, ReadFails,
         ClearIntent, InstallStart, InstallVerify, InstallCheck, InstallRestore,
         InstallFails, OwnerStep, Refinish, ApplyStart, ApplyLands, ApplyRefused,
         ApplyThrows, Keep, Discard, UserEdits, UserCommits, Crash
    <3>3. ref' # 0
      BY <3>2 DEF RecordedInv, TypeOK
    <3> QED BY <3>1, <3>3 DEF RecordedInv
  <2> QED BY <2>1, <2>2
<1>4. RecordedInv => RecordedIsTheCommit
  BY DEF RecordedInv, Sees, RecordedIsTheCommit
<1> QED BY CommitInit, <1>1, <1>2, <1>3, <1>4, ResultTypeCorrect, PTL DEF Spec

=============================================================================

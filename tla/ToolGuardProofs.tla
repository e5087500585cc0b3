--------------------------- MODULE ToolGuardProofs ---------------------------
(***************************************************************************)
(* Proofs about the identity of a session and its tools, for any calls,    *)
(* agents and tools.                                                       *)
(***************************************************************************)
EXTENDS ToolGuard, TLAPS

(* The record the broker keeps: a session with an identity has not entered *)
(* the worker life cycle, one that has not entered it is still read-only,  *)
(* and only a creation under way has the state CREATING_SANDBOX.           *)
RecordInv ==
    /\ rec.agent # None => ~rec.entered
    /\ ~rec.entered => rec.state = "HOST_READ_ONLY"
    /\ busy => rec.state = "CREATING_SANDBOX"

(* While the session has no active worker, every call has seen that.       *)
QuietInv == ~Routed(rec) => quiet = Calls

GuardInv == TypeOK /\ RecordInv /\ QuietInv /\ ReadsRouted

Records == [agent : Agents \cup {None}, entered : BOOLEAN, state : SessionStates]
CallRecords == [tool : Tools \cup {None}, stage : Stages, external : BOOLEAN]

----------------------------------------------------------------------------
(* Calls. *)

(* The calls of one kind leave the record and the others' calls alone.      *)
LEMMA IdleType == Idle \in CallRecords
BY DEF Idle, CallRecords, Stages

LEMMA AdmittedStage ==
  ASSUME NEW t
  PROVE  Admitted(t) \in {"ran", "ask", "send"}
BY DEF Admitted

(* A call moves to a stage, or returns.                                     *)
LEMMA GotoType ==
  ASSUME NEW c \in Calls, NEW stage \in Stages, call \in [Calls -> CallRecords],
         Goto(c, stage) \/ Return(c)
  PROVE  call' \in [Calls -> CallRecords]
BY IdleType DEF Goto, Return, CallRecords

(* A step of a call that is not let through by the status request.          *)
LEMMA QuietStep ==
  ASSUME GuardInv, NEW c \in Calls, NEW stage \in Stages \ {"read"},
         Goto(c, stage) \/ Return(c), UNCHANGED <<chat, rec, busy, quiet>>,
         cache' \in [Tools -> {"none", "allow", "deny"}]
  PROVE  GuardInv'
<1>1. call \in [Calls -> CallRecords]
  BY DEF GuardInv, TypeOK, CallRecords
<1>2. call' \in [Calls -> CallRecords]
  BY <1>1, GotoType
<1>3. TypeOK'
  BY <1>2 DEF GuardInv, TypeOK, CallRecords, chat
<1>4. RecordInv' /\ QuietInv'
  BY DEF GuardInv, RecordInv, QuietInv, Routed
<1>5. ASSUME NEW d \in Calls, At(d, "read")', ~call'[d].external
      PROVE  d \in quiet
  <2>1. d # c
    BY <1>1, <1>5 DEF Goto, Return, At, CallRecords, Idle
  <2>2. call'[d] = call[d]
    BY <1>1, <2>1 DEF Goto, Return
  <2> QED BY <1>5, <2>2 DEF At, GuardInv, ReadsRouted
<1>6. ReadsRouted'
  BY <1>5 DEF ReadsRouted, At
<1> QED BY <1>3, <1>4, <1>6 DEF GuardInv

(* A call begins.                                                           *)
LEMMA BeginStep ==
  ASSUME GuardInv, NEW c \in Calls, NEW t \in Tools, NEW stage \in Stages \ {"read"},
         NEW e \in BOOLEAN, Begin(c, t, stage, e), UNCHANGED <<chat, rec, busy>>,
         cache' \in [Tools -> {"none", "allow", "deny"}]
  PROVE  GuardInv'
<1>1. call \in [Calls -> CallRecords] /\ quiet \subseteq Calls
  BY DEF GuardInv, TypeOK, CallRecords
<1>2. call' = [call EXCEPT ![c] = [tool |-> t, stage |-> stage, external |-> e]]
  BY DEF Begin
<1>3. [tool |-> t, stage |-> stage, external |-> e] \in CallRecords
  BY DEF CallRecords
<1>4. call' \in [Calls -> CallRecords] /\ quiet' \subseteq Calls
  BY <1>1, <1>2, <1>3 DEF Begin
<1>5. TypeOK'
  BY <1>4 DEF GuardInv, TypeOK, CallRecords, chat
<1>6. RecordInv'
  BY DEF GuardInv, RecordInv
<1>7. QuietInv'
  BY <1>1 DEF GuardInv, QuietInv, Routed, Begin
<1>8. ASSUME NEW d \in Calls, At(d, "read")', ~call'[d].external
      PROVE  d \in quiet'
  <2>1. d # c
    BY <1>1, <1>2, <1>8 DEF At
  <2>2. call'[d] = call[d]
    BY <1>1, <1>2, <2>1
  <2>3. d \in quiet
    BY <1>8, <2>2 DEF At, GuardInv, ReadsRouted
  <2> QED BY <2>1, <2>3 DEF Begin
<1>9. ReadsRouted'
  BY <1>8 DEF ReadsRouted, At
<1> QED BY <1>5, <1>6, <1>7, <1>9 DEF GuardInv

----------------------------------------------------------------------------
(* The record. *)

(* The record is replaced by a well-typed one that keeps RecordInv, and no  *)
(* call is let through.                                                     *)
LEMMA RecordStep ==
  ASSUME GuardInv, NEW r \in Records, SetRecord(r), RecordInv',
         busy' \in BOOLEAN, agent' \in Agents \cup {None}, hook' \in Agents \cup {None},
         late' \subseteq Agents, cache' = cache, call' \in [Calls -> CallRecords],
         \A d \in Calls : At(d, "read")' => call'[d] = call[d]
  PROVE  GuardInv'
<1>1. quiet \subseteq Calls
  BY DEF GuardInv, TypeOK
<1>2. rec' = r /\ (quiet' = quiet \/ quiet' = Calls) /\ QuietInv'
  BY DEF SetRecord, QuietInv, GuardInv, Routed
<1>3. TypeOK'
  BY <1>1, <1>2 DEF GuardInv, TypeOK, CallRecords, Records
<1>4. ASSUME NEW d \in Calls, At(d, "read")', ~call'[d].external
      PROVE  d \in quiet'
  <2>1. call'[d] = call[d]
    BY <1>4
  <2> QED BY <1>2, <1>4, <2>1 DEF At, GuardInv, ReadsRouted
<1>5. ReadsRouted'
  BY <1>4 DEF ReadsRouted, At
<1> QED BY <1>2, <1>3, <1>5 DEF GuardInv

(* A call that moves on is not let through, and the others stay.            *)
LEMMA OnlyCall ==
  ASSUME NEW c \in Calls, NEW stage \in Stages \ {"read"}, call \in [Calls -> CallRecords],
         Goto(c, stage) \/ Return(c)
  PROVE  /\ call' \in [Calls -> CallRecords]
         /\ \A d \in Calls : At(d, "read")' => call'[d] = call[d]
<1>1. call' \in [Calls -> CallRecords]
  BY GotoType
<1>2. ASSUME NEW d \in Calls, At(d, "read")' PROVE call'[d] = call[d]
  BY <1>2 DEF Goto, Return, At, CallRecords, Idle
<1> QED BY <1>1, <1>2

(* The first binding wins, and none follows a worker.                       *)
LEMMA BindRecord ==
  ASSUME NEW r \in Records, NEW a \in Agents
  PROVE  /\ bindSessionAgent(r, a) \in Records
         /\ bindSessionAgent(r, a).entered = r.entered
         /\ bindSessionAgent(r, a).state = r.state
         /\ bindSessionAgent(r, a) = r \/ (~r.entered /\ r.agent = None)
BY DEF bindSessionAgent, Records

(* A binding is handled, in its time or late.                               *)
LEMMA BindStep ==
  ASSUME GuardInv, NEW a \in Agents, SetRecord(bindSessionAgent(rec, a)),
         UNCHANGED <<agent, busy, cache, call>>, hook' \in Agents \cup {None},
         late' \subseteq Agents
  PROVE  GuardInv' /\ (rec.agent \in ReadOnlyAgents => rec' = rec)
<1> DEFINE r == bindSessionAgent(rec, a)
<1>1. rec \in Records /\ call \in [Calls -> CallRecords]
  BY DEF GuardInv, TypeOK, Records, CallRecords
<1>2. /\ r \in Records /\ r.entered = rec.entered /\ r.state = rec.state
      /\ r = rec \/ (~rec.entered /\ rec.agent = None)
  BY <1>1, BindRecord
<1>3. rec' = r
  BY DEF SetRecord
<1>4. SetRecord(r)
  OBVIOUS
<1> HIDE DEF r
<1>5. RecordInv'
  BY <1>2, <1>3 DEF GuardInv, RecordInv
<1>6. GuardInv'
  BY <1>1, <1>2, <1>4, <1>5, RecordStep DEF GuardInv, TypeOK
<1>7. rec.agent \in ReadOnlyAgents => rec' = rec
  BY <1>2, <1>3, NoneAssumption
<1> QED BY <1>6, <1>7

(* ensureWorker.                                                            *)
LEMMA EnsureStep ==
  ASSUME GuardInv, NEW c \in Calls, EnsureWorker(c)
  PROVE  GuardInv' /\ (rec.agent \in ReadOnlyAgents => rec' = rec)
<1>1. rec \in Records /\ call \in [Calls -> CallRecords]
  BY DEF GuardInv, TypeOK, Records, CallRecords
<1>t. /\ cache' = cache /\ agent' \in Agents \cup {None} /\ hook' \in Agents \cup {None}
      /\ late' \subseteq Agents /\ busy = FALSE
  BY DEF GuardInv, TypeOK, EnsureWorker, chat
<1>2. CASE Refused(rec) /\ Return(c) /\ UNCHANGED <<rec, busy, quiet>>
  <2>1. "idle" \in Stages \ {"read"} /\ cache' \in [Tools -> {"none", "allow", "deny"}]
    BY <1>t DEF Stages, GuardInv, TypeOK
  <2>2. UNCHANGED chat
    BY DEF EnsureWorker
  <2> QED BY <1>2, <2>1, <2>2, QuietStep
<1>3. CASE ~Refused(rec) /\ Return(c) /\ SetRecord(EnterLifecycle(rec)) /\ UNCHANGED busy
  <2> DEFINE r == EnterLifecycle(rec)
  <2>1. r \in Records /\ r.agent = None /\ r.entered
    BY <1>1 DEF EnterLifecycle, Records
  <2>2. rec' = r /\ SetRecord(r) /\ busy' = FALSE
    BY <1>3, <1>t DEF SetRecord
  <2> HIDE DEF r
  <2>3. RecordInv'
    BY <2>1, <2>2 DEF RecordInv
  <2>4. "idle" \in Stages \ {"read"}
    BY DEF Stages
  <2>5. /\ call' \in [Calls -> CallRecords]
        /\ \A d \in Calls : At(d, "read")' => call'[d] = call[d]
    BY <1>1, <1>3, <2>4, OnlyCall
  <2>6. GuardInv'
    BY <1>t, <2>1, <2>2, <2>3, <2>5, RecordStep
  <2> QED BY <1>3, <2>6 DEF Refused
<1>4. CASE /\ ~Refused(rec)
           /\ Goto(c, "ensure")
           /\ SetRecord([EnterLifecycle(rec) EXCEPT !.state = "CREATING_SANDBOX"])
           /\ busy' = TRUE
  <2> DEFINE r == [EnterLifecycle(rec) EXCEPT !.state = "CREATING_SANDBOX"]
  <2>1. r \in Records /\ r.agent = None /\ r.entered /\ r.state = "CREATING_SANDBOX"
    BY <1>1 DEF EnterLifecycle, Records, SessionStates
  <2>2. rec' = r /\ SetRecord(r) /\ busy' = TRUE
    BY <1>4 DEF SetRecord
  <2> HIDE DEF r
  <2>3. RecordInv'
    BY <2>1, <2>2 DEF RecordInv
  <2>4. "ensure" \in Stages \ {"read"}
    BY DEF Stages
  <2>5. /\ call' \in [Calls -> CallRecords]
        /\ \A d \in Calls : At(d, "read")' => call'[d] = call[d]
    BY <1>1, <1>4, <2>4, OnlyCall
  <2>6. GuardInv'
    BY <1>t, <2>1, <2>2, <2>3, <2>5, RecordStep
  <2> QED BY <1>4, <2>6 DEF Refused
<1> QED BY <1>2, <1>3, <1>4 DEF EnsureWorker

(* A creation ends.                                                         *)
LEMMA CreationStep ==
  ASSUME GuardInv, CreationEnds
  PROVE  GuardInv' /\ (rec.agent \in ReadOnlyAgents => rec' = rec)
<1>1. rec \in Records /\ call \in [Calls -> CallRecords]
  BY DEF GuardInv, TypeOK, Records, CallRecords
<1>t. /\ cache' = cache /\ agent' \in Agents \cup {None} /\ hook' \in Agents \cup {None}
      /\ late' \subseteq Agents /\ busy /\ busy' = FALSE /\ call' = call
  BY DEF GuardInv, TypeOK, CreationEnds, chat
<1>2. PICK to \in {"SANDBOX_ACTIVE", "FAILED_CLOSED"} : SetRecord([rec EXCEPT !.state = to])
  BY DEF CreationEnds
<1>3. rec.entered /\ rec.agent = None
  BY <1>t, <1>1 DEF GuardInv, RecordInv, Records
<1> DEFINE r == [rec EXCEPT !.state = to]
<1>4. r \in Records /\ r.agent = None /\ r.entered /\ rec' = r /\ SetRecord(r)
  BY <1>1, <1>2, <1>3 DEF Records, SessionStates, SetRecord
<1> HIDE DEF r
<1>5. RecordInv'
  BY <1>4, <1>t DEF RecordInv
<1>6. GuardInv'
  BY <1>1, <1>t, <1>4, <1>5, RecordStep
<1> QED BY <1>3, <1>6, NoneAssumption

(* An operation on a worker moves the state of a session that has one.      *)
LEMMA WorkerStep ==
  ASSUME GuardInv, NEW c \in Calls, WorkerOperation(c)
  PROVE  GuardInv' /\ (rec.agent \in ReadOnlyAgents => rec' = rec)
<1>1. rec \in Records /\ call \in [Calls -> CallRecords]
  BY DEF GuardInv, TypeOK, Records, CallRecords
<1>t. /\ cache' = cache /\ agent' \in Agents \cup {None} /\ hook' \in Agents \cup {None}
      /\ late' \subseteq Agents /\ busy = FALSE /\ busy' = FALSE /\ Return(c)
      /\ "idle" \in Stages \ {"read"}
  BY DEF GuardInv, TypeOK, WorkerOperation, chat, Stages
<1>2. CASE UNCHANGED <<rec, quiet>>
  <2>1. cache' \in [Tools -> {"none", "allow", "deny"}] /\ UNCHANGED <<chat, busy>>
    BY <1>t DEF GuardInv, TypeOK, WorkerOperation
  <2>2. GuardInv'
    BY <1>2, <1>t, <2>1, QuietStep
  <2> QED BY <1>2, <2>2
<1>3. CASE /\ rec.agent \notin ReadOnlyAgents
           /\ \E to \in LegalTransitions[rec.state] \ {"CREATING_SANDBOX"} :
                SetRecord([rec EXCEPT !.state = to])
  <2>1. PICK to \in LegalTransitions[rec.state] \ {"CREATING_SANDBOX"} :
               SetRecord([rec EXCEPT !.state = to])
    BY <1>3
  <2>2. rec.state # "HOST_READ_ONLY" /\ to \in SessionStates
    BY <1>1, <2>1 DEF Records, SessionStates, LegalTransitions
  <2>3. rec.entered /\ rec.agent = None
    BY <1>1, <2>2 DEF GuardInv, RecordInv, Records
  <2> DEFINE r == [rec EXCEPT !.state = to]
  <2>4. r \in Records /\ r.agent = None /\ r.entered /\ rec' = r /\ SetRecord(r)
    BY <1>1, <2>1, <2>2, <2>3 DEF Records, SetRecord
  <2> HIDE DEF r
  <2>5. RecordInv'
    BY <2>4, <1>t DEF RecordInv
  <2>6. /\ call' \in [Calls -> CallRecords]
        /\ \A d \in Calls : At(d, "read")' => call'[d] = call[d]
    BY <1>1, <1>t, OnlyCall
  <2>7. GuardInv'
    BY <1>t, <2>4, <2>5, <2>6, RecordStep
  <2> QED BY <1>3, <2>7
<1> QED BY <1>2, <1>3 DEF WorkerOperation

----------------------------------------------------------------------------
(* The calls. *)

(* The status request lets a read through only while no worker is active:   *)
(* the refusal of an orchestrating agent counts as well.                    *)
LEMMA StatusStep ==
  ASSUME GuardInv, NEW c \in Calls, StatusAnswered(c)
  PROVE  GuardInv'
<1>1. /\ rec \in Records /\ call \in [Calls -> CallRecords]
      /\ cache' \in [Tools -> {"none", "allow", "deny"}]
      /\ UNCHANGED <<chat, rec, busy, quiet>>
      /\ "idle" \in Stages \ {"read"} /\ "read" \in Stages
  BY DEF GuardInv, TypeOK, Records, CallRecords, StatusAnswered, Stages
<1>2. CASE Return(c)
  BY <1>1, <1>2, QuietStep
<1>3. CASE Goto(c, "read") /\ ~(rec.agent \notin ReadOnlyAgents /\ Routed(rec) /\ ~call[c].external)
  <2>1. rec.agent \in ReadOnlyAgents => ~Routed(rec)
    BY <1>1, NoneAssumption DEF GuardInv, RecordInv, Routed, Records
  <2>2. call' \in [Calls -> CallRecords]
    BY <1>1, <1>3, GotoType
  <2>3. TypeOK'
    BY <1>1, <2>2 DEF GuardInv, TypeOK, CallRecords, chat
  <2>4. RecordInv' /\ QuietInv'
    BY <1>1 DEF GuardInv, RecordInv, QuietInv, Routed
  <2>5. ASSUME NEW d \in Calls, At(d, "read")', ~call'[d].external
        PROVE  d \in quiet
    <3>1. CASE d = c
      <4>1. call'[d].external = call[c].external
        BY <1>1, <1>3, <3>1 DEF Goto, CallRecords
      <4>2. ~Routed(rec)
        BY <1>3, <2>1, <2>5, <4>1
      <4> QED BY <4>2 DEF GuardInv, QuietInv
    <3>2. CASE d # c
      <4>1. call'[d] = call[d]
        BY <1>1, <1>3, <3>2 DEF Goto
      <4> QED BY <2>5, <4>1 DEF At, GuardInv, ReadsRouted
    <3> QED BY <3>1, <3>2
  <2>6. ReadsRouted'
    BY <1>1, <2>5 DEF ReadsRouted, At
  <2> QED BY <2>3, <2>4, <2>6 DEF GuardInv
<1> QED BY <1>2, <1>3 DEF StatusAnswered

(* The other steps of a call, which leave the record alone.                 *)
QuietCall(c) ==
  \/ \E t \in Tools, e \in BOOLEAN : BeginRead(c, t, e)
  \/ \E t \in Tools : BeginSandbox(c, t) \/ BeginOther(c, t)
  \/ StatusFailed(c) \/ ReadReturns(c)
  \/ AdmissionAnswered(c) \/ AdmissionFailed(c) \/ AdmissionCached(c)
  \/ Asks(c) \/ HostDispatch(c) \/ SendFailed(c) \/ ToolReturns(c)
  \/ SandboxRefused(c) \/ EnsureReturns(c)

LEMMA QuietCallStep ==
  ASSUME GuardInv, NEW c \in Calls, QuietCall(c)
  PROVE  GuardInv' /\ rec' = rec
<1>c. /\ cache \in [Tools -> {"none", "allow", "deny"}]
      /\ call \in [Calls -> CallRecords]
  BY DEF GuardInv, TypeOK, CallRecords
<1>s. {"idle", "status", "blind", "admission", "allow", "deny", "ask", "send", "ran", "ensure"}
        = Stages \ {"read"}
  BY DEF Stages
<1>1. ASSUME NEW t \in Tools, NEW e \in BOOLEAN, BeginRead(c, t, e)
      PROVE  GuardInv' /\ rec' = rec
  <2>1. /\ Begin(c, t, "status", e) /\ UNCHANGED <<chat, rec, busy>>
        /\ cache' \in [Tools -> {"none", "allow", "deny"}]
    BY <1>1, <1>c DEF BeginRead
  <2> QED BY <1>s, <2>1, BeginStep
<1>2. ASSUME NEW t \in Tools, BeginSandbox(c, t) PROVE GuardInv' /\ rec' = rec
  <2>1. /\ Begin(c, t, "send", FALSE) /\ UNCHANGED <<chat, rec, busy>>
        /\ cache' \in [Tools -> {"none", "allow", "deny"}]
    BY <1>2, <1>c DEF BeginSandbox
  <2> QED BY <1>s, <2>1, BeginStep
<1>3. ASSUME NEW t \in Tools, BeginOther(c, t) PROVE GuardInv' /\ rec' = rec
  <2>1. UNCHANGED <<chat, rec, busy>> /\ cache' \in [Tools -> {"none", "allow", "deny"}]
    BY <1>3, <1>c DEF BeginOther
  <2>2. CASE UNCHANGED <<call, quiet>>
    <3>1. /\ TypeOK' /\ RecordInv'
      BY <2>1, <2>2 DEF GuardInv, TypeOK, RecordInv, chat
    <3>2. QuietInv' /\ ReadsRouted'
      BY <2>1, <2>2 DEF GuardInv, QuietInv, ReadsRouted, Routed, At
    <3> QED BY <2>1, <3>1, <3>2 DEF GuardInv
  <2>3. CASE Begin(c, t, "admission", FALSE)
    BY <1>s, <2>1, <2>3, BeginStep
  <2>4. CASE Begin(c, t, Admitted(t), FALSE)
    <3>1. Admitted(t) \in Stages \ {"read"}
      BY <1>s, AdmittedStage
    <3> QED BY <2>1, <2>4, <3>1, BeginStep
  <2> QED BY <1>3, <2>2, <2>3, <2>4 DEF BeginOther
<1>4. ASSUME UNCHANGED <<chat, rec, busy, quiet>>,
             cache' \in [Tools -> {"none", "allow", "deny"}],
             NEW stage \in Stages \ {"read"}, Goto(c, stage) \/ Return(c)
      PROVE  GuardInv' /\ rec' = rec
  BY <1>4, QuietStep
<1>5. CASE StatusFailed(c) \/ ReadReturns(c)
  BY <1>4, <1>5, <1>c, <1>s DEF StatusFailed, ReadReturns
<1>6. CASE AdmissionAnswered(c) \/ AdmissionFailed(c)
  BY <1>4, <1>6, <1>c, <1>s DEF AdmissionAnswered, AdmissionFailed
<1>7. CASE AdmissionCached(c)
  <2>1. cache' \in [Tools -> {"none", "allow", "deny"}] /\ UNCHANGED <<chat, rec, busy, quiet>>
    BY <1>7, <1>c DEF AdmissionCached, At
  <2>2. Goto(c, Admitted(call[c].tool)) \/ Return(c)
    BY <1>7 DEF AdmissionCached
  <2>3. Admitted(call[c].tool) \in Stages \ {"read"}
    BY <1>s, AdmittedStage
  <2> QED BY <1>4, <2>1, <2>2, <2>3
<1>8. CASE Asks(c) \/ HostDispatch(c) \/ SendFailed(c) \/ ToolReturns(c)
  BY <1>4, <1>8, <1>c, <1>s DEF Asks, HostDispatch, SendFailed, ToolReturns
<1>9. CASE SandboxRefused(c) \/ EnsureReturns(c)
  BY <1>4, <1>9, <1>c, <1>s DEF SandboxRefused, EnsureReturns
<1> QED BY <1>1, <1>2, <1>3, <1>5, <1>6, <1>7, <1>8, <1>9 DEF QuietCall

----------------------------------------------------------------------------
(* Every step. *)

LEMMA GuardInit == Init => GuardInv
<1> SUFFICES ASSUME Init PROVE GuardInv
  OBVIOUS
<1>1. TypeOK
  BY DEF Init, TypeOK, Idle, Stages, SessionStates
<1>2. RecordInv /\ QuietInv
  BY DEF Init, RecordInv, QuietInv
<1>3. ReadsRouted
  BY DEF Init, ReadsRouted, At, Idle
<1> QED BY <1>1, <1>2, <1>3 DEF GuardInv

LEMMA GuardNext ==
  ASSUME GuardInv, [Next]_vars
  PROVE  GuardInv' /\ (rec.agent \in ReadOnlyAgents => rec' = rec)
<1>t. /\ agent \in Agents \cup {None} /\ hook \in Agents \cup {None} /\ late \subseteq Agents
  BY DEF GuardInv, TypeOK
<1>1. ASSUME UNCHANGED <<rec, busy, cache, call, quiet>>, agent' \in Agents \cup {None},
             hook' \in Agents \cup {None}, late' \subseteq Agents
      PROVE  GuardInv' /\ rec' = rec
  <2>1. TypeOK' /\ RecordInv'
    BY <1>1 DEF GuardInv, TypeOK, RecordInv
  <2>2. QuietInv' /\ ReadsRouted'
    BY <1>1 DEF GuardInv, QuietInv, ReadsRouted, Routed, At
  <2> QED BY <1>1, <2>1, <2>2 DEF GuardInv
<1>2. CASE UNCHANGED vars
  BY <1>1, <1>2, <1>t DEF vars
<1>3. ASSUME NEW a \in Agents, Chat(a) PROVE GuardInv' /\ rec' = rec
  BY <1>1, <1>3, <1>t DEF Chat
<1>4. CASE BindGivenUp
  <2>1. late' \subseteq Agents /\ hook' = None /\ agent' = agent
    BY <1>4, <1>t DEF BindGivenUp
  <2> QED BY <1>1, <1>4, <1>t, <2>1 DEF BindGivenUp
<1>5. CASE BindHandled
  BY <1>5, <1>t, BindStep DEF BindHandled
<1>6. ASSUME NEW a \in Agents, LateBindHandled(a)
      PROVE  GuardInv' /\ (rec.agent \in ReadOnlyAgents => rec' = rec)
  BY <1>6, <1>t, BindStep DEF LateBindHandled
<1>7. CASE CreationEnds
  BY <1>7, CreationStep
<1>8. ASSUME NEW c \in Calls, StatusAnswered(c) PROVE GuardInv' /\ rec' = rec
  BY <1>8, StatusStep DEF StatusAnswered
<1>9. ASSUME NEW c \in Calls, EnsureWorker(c) \/ WorkerOperation(c)
      PROVE  GuardInv' /\ (rec.agent \in ReadOnlyAgents => rec' = rec)
  BY <1>9, EnsureStep, WorkerStep
<1>10. ASSUME NEW c \in Calls, QuietCall(c) PROVE GuardInv' /\ rec' = rec
  BY <1>10, QuietCallStep
<1> QED BY <1>2, <1>3, <1>4, <1>5, <1>6, <1>7, <1>8, <1>9, <1>10 DEF Next, QuietCall

----------------------------------------------------------------------------
(* Host mutations. *)

(* No operation that changes the host is authorized without an identity.    *)
LEMMA MutationNeedsIdentity ==
  ASSUME NEW op \in HostMutations \cup {"testRun"}, NEW trusted,
         authorizeHostDispatch(op, trusted)
  PROVE  trusted # None
<1>1. "testRun" \notin HostReads
  BY DEF HostReads, ReadHostTools
<1>2. op \notin HostReads
  BY <1>1 DEF HostMutations
<1>3. normalizeRoleKey(None) = None
  BY NoneAssumption DEF normalizeRoleKey, ReadOnlyAgents
<1>4. None \notin {"planner", "pm"} /\ None \notin ReadOnlyAgents
  BY NoneAssumption DEF Roles
<1> SUFFICES ASSUME trusted = None PROVE FALSE
  OBVIOUS
<1> QED BY <1>2, <1>3, <1>4 DEF authorizeHostDispatch

(* Only HostDispatch takes a call from its request to its effect.           *)
LEMMA OnlyDispatchRuns ==
  ASSUME GuardInv, Next, NEW c \in Calls, At(c, "send"), At(c, "ran")'
  PROVE  HostDispatch(c) /\ authorizeHostDispatch(Operation[call[c].tool], rec.agent)
<1>1. call \in [Calls -> CallRecords]
  BY DEF GuardInv, TypeOK, CallRecords
<1>2. call'[c] # call[c] /\ call[c] # Idle
  BY <1>1 DEF At, CallRecords, Idle
<1>3. PICK d \in Calls :
        \/ QuietCall(d) \/ StatusAnswered(d) \/ EnsureWorker(d) \/ WorkerOperation(d)
  BY <1>2 DEF Next, QuietCall, Chat, LateBindHandled, BindHandled, BindGivenUp, CreationEnds
<1>4. d = c
  <2>1. \A t, stage, e : Begin(d, t, stage, e) => d = c
    BY <1>1, <1>2 DEF Begin
  <2>2. \A stage : Goto(d, stage) \/ Return(d) => d = c
    BY <1>1, <1>2 DEF Goto, Return
  <2> QED BY <1>2, <1>3, <2>1, <2>2 DEF QuietCall, BeginRead, BeginSandbox, BeginOther,
        StatusAnswered, StatusFailed, ReadReturns, AdmissionAnswered, AdmissionFailed,
        AdmissionCached, Asks, HostDispatch, SendFailed, ToolReturns, SandboxRefused,
        EnsureWorker, EnsureReturns, WorkerOperation
<1>5. ~Return(c) /\ ~Goto(c, "ensure")
  BY <1>1 DEF Return, Goto, At, Idle, CallRecords
<1>6. HostDispatch(c)
  BY <1>2, <1>3, <1>4, <1>5 DEF QuietCall, BeginRead, BeginSandbox, BeginOther, Begin, At,
     StatusAnswered, StatusFailed, ReadReturns, AdmissionAnswered, AdmissionFailed,
     AdmissionCached, Asks, SendFailed, ToolReturns, SandboxRefused,
     EnsureWorker, EnsureReturns, WorkerOperation
<1> QED BY <1>5, <1>6 DEF HostDispatch

LEMMA MutationStep ==
  ASSUME GuardInv, [Next]_vars, NEW c \in Calls, At(c, "send"), At(c, "ran")',
         Operation[call[c].tool] \in HostMutations \cup {"testRun"}
  PROVE  rec.agent # None /\ ~rec.entered /\ ~Routed(rec)
<1>1. Next
  BY DEF At, vars
<1>2. rec.agent # None
  BY <1>1, OnlyDispatchRuns, MutationNeedsIdentity
<1> QED BY <1>2 DEF GuardInv, RecordInv, Routed

----------------------------------------------------------------------------

(* Every reachable state of the guard, the record and the calls is well     *)
(* typed (routing-guard.ts, bindSessionAgent, ensureWorker).                *)
THEOREM GuardTypeCorrect == Spec => []TypeOK
<1>1. Init => GuardInv
  BY GuardInit
<1>2. GuardInv /\ [Next]_vars => GuardInv'
  BY GuardNext
<1>3. GuardInv => TypeOK
  BY DEF GuardInv
<1> QED BY <1>1, <1>2, <1>3, PTL DEF Spec

(* A host read that the status request let through saw, or outlived, a      *)
(* session without an active worker (routing-guard.ts, tool.execute.before).*)
THEOREM ReadsAreRouted == Spec => []ReadsRouted
<1>1. Init => GuardInv
  BY GuardInit
<1>2. GuardInv /\ [Next]_vars => GuardInv'
  BY GuardNext
<1>3. GuardInv => ReadsRouted
  BY DEF GuardInv
<1> QED BY <1>1, <1>2, <1>3, PTL DEF Spec

(* A recorded orchestrating identity is final and keeps the session from    *)
(* ever having a worker (bindSessionAgent, ensureWorker).                   *)
THEOREM OrchestratorIsFinal == Spec => OrchestratorStays
<1>1. Init => GuardInv
  BY GuardInit
<1>2. GuardInv /\ [Next]_vars => GuardInv'
  BY GuardNext
<1>3. GuardInv /\ [Next]_vars => [rec.agent \in ReadOnlyAgents => rec' = rec]_vars
  BY GuardNext
<1> QED BY <1>1, <1>2, <1>3, PTL DEF Spec, OrchestratorStays

(* Whatever is cached, given up or late, a host mutation runs only under a  *)
(* recorded identity and never beside a worker (authorizeHostDispatch).     *)
THEOREM MutationsAuthorized == Spec => MutationIsAuthorized
<1> DEFINE Authorized ==
      \A c \in Calls :
         /\ At(c, "send") /\ At(c, "ran")'
         /\ Operation[call[c].tool] \in HostMutations \cup {"testRun"}
         => rec.agent # None /\ ~rec.entered /\ ~Routed(rec)
<1>1. Init => GuardInv
  BY GuardInit
<1>2. GuardInv /\ [Next]_vars => GuardInv'
  BY GuardNext
<1>3. GuardInv /\ [Next]_vars => [Authorized]_vars
  BY MutationStep
<1> QED BY <1>1, <1>2, <1>3, PTL DEF Spec, MutationIsAuthorized

=============================================================================

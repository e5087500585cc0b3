------------------------------ MODULE ToolGuard ------------------------------
(***************************************************************************)
(* Who a session is, and which tools it may use: the binding of the host's *)
(* agent to the session (the chat.params hook and bindSessionAgent), the   *)
(* routing guard (opencode/plugins/routing-guard.ts), the broker's tool    *)
(* admission (toolAdmission) and the authorization of host operations      *)
(* (authorizeHostDispatch), on the tables of RolePolicy.                   *)
(*                                                                         *)
(* One session is modelled: sessions share neither a record, nor a lock,   *)
(* nor an entry of the admission cache.  Calls are the tool calls one turn *)
(* of the chat makes in parallel.  A request is one step, taken under the  *)
(* session's lock; the creation of a worker holds the lock over several    *)
(* steps.  A session without a record is treated by every operation here   *)
(* as one in HOST_READ_ONLY that is not bound.                             *)
(***************************************************************************)
EXTENDS SessionState, RolePolicy

CONSTANTS Calls,     \* the tool calls of a turn
          Agents,    \* the agents the chat may be switched to
          Tools      \* the tools the model may call

VARIABLES
    agent,   \* the agent the host resolves for the chat, or None
    hook,    \* the agent chat.params is binding, or None
    late,    \* bind requests the client gave up on, still with the broker
    rec,     \* the session's record: identity, workerLifecycleEntered, state
    busy,    \* the creation of a worker holds the session's lock
    cache,   \* routing-guard.ts: admissionCache
    call,    \* the tool calls
    quiet    \* history: calls that began, or lived on, without an active worker

vars == <<agent, hook, late, rec, busy, cache, call, quiet>>
chat == <<agent, hook, late>>

----------------------------------------------------------------------------
(* The broker's record of the session. *)

Routed(r) == r.state \in {"SANDBOX_ACTIVE", "RESULT_READY"}

SetRecord(r) == /\ rec' = r
                /\ quiet' = IF Routed(r) THEN quiet ELSE Calls

\* bindSessionAgent: the first binding wins, and none follows a worker.
bindSessionAgent(r, a) ==
    IF /\ Bindable(a)
       /\ ~r.entered
       /\ r.state \in {"HOST_READ_ONLY", "FAILED_CLOSED"}
       /\ r.agent \in {None, a}
    THEN [r EXCEPT !.agent = a]
    ELSE r

\* Mutant: only the agent of the request, which the plugin leaves out, counts.
RefusesNobody(r) == FALSE

\* ensureWorker, and the creation again: orchestrating agents get no worker.
Refused(r) == r.agent \in ReadOnlyAgents

\* ensureWorker's touch: the plugin sends no agent, and the recorded one goes.
EnterLifecycle(r) == [r EXCEPT !.agent = None, !.entered = TRUE]

----------------------------------------------------------------------------
(* The chat turn and the binding. *)

Idle == [tool |-> None, stage |-> "idle", external |-> FALSE]

\* chat.params of the next turn; the calls of the last one have returned.
Chat(a) ==
    /\ hook = None
    /\ \A c \in Calls : call[c] = Idle
    /\ agent' = a /\ hook' = a
    /\ UNCHANGED <<late, rec, busy, cache, call, quiet>>

BindHandled ==
    /\ hook # None /\ ~busy
    /\ hook' = None
    /\ SetRecord(bindSessionAgent(rec, hook))
    /\ UNCHANGED <<agent, late, busy, cache, call>>

\* The request never reached the broker, or the client stopped waiting for it;
\* either way the error is swallowed.
BindGivenUp ==
    /\ hook # None
    /\ late' \in {late, late \cup {hook}}
    /\ hook' = None
    /\ UNCHANGED <<agent, rec, busy, cache, call, quiet>>

LateBindHandled(a) ==
    /\ a \in late /\ ~busy
    /\ late' = late \ {a}
    /\ SetRecord(bindSessionAgent(rec, a))
    /\ UNCHANGED <<agent, hook, busy, cache, call>>

----------------------------------------------------------------------------
(* The routing guard: tool.execute.before. *)

ReadTools == {"read", "grep", "glob", "list"}
SandboxTools == {"sandbox_write", "sandbox_edit", "sandbox_apply_patch", "sandbox_bash",
                 "sandbox_finish", "sandbox_apply", "sandbox_discard",
                 "sandbox_copy_in", "sandbox_copy_out", "sandbox_read"}
STATE_CHANGING_TOOLS == SandboxTools \ {"sandbox_read"}
Activating == {"sandbox_write", "sandbox_edit", "sandbox_apply_patch", "sandbox_bash",
               "sandbox_copy_in"}

Begin(c, t, stage, external) ==
    /\ hook = None /\ agent # None
    /\ call[c] = Idle
    /\ call' = [call EXCEPT ![c] = [tool |-> t, stage |-> stage, external |-> external]]
    /\ quiet' = IF Routed(rec) THEN quiet \ {c} ELSE quiet \cup {c}

At(c, stage) == call[c].stage = stage
Goto(c, stage) == call' = [call EXCEPT ![c].stage = stage]
\* The tool returns, or its error is shown to the model.
Return(c) == call' = [call EXCEPT ![c] = Idle]

BeginRead(c, t, external) ==
    /\ t \in ReadTools
    /\ Begin(c, t, "status", external)
    /\ UNCHANGED <<chat, rec, busy, cache>>

\* Mutant: a session whose result is ready is not redirected.
StatusOpenWhenReady(c) ==
    /\ At(c, "status") /\ ~busy
    /\ IF rec.state = "SANDBOX_ACTIVE" /\ ~call[c].external THEN Return(c) ELSE Goto(c, "read")
    /\ UNCHANGED <<chat, rec, busy, cache, quiet>>

\* The state decides; a refusal (a bound orchestrating agent may not ask) is
\* caught and taken for an unknown session.
StatusAnswered(c) ==
    /\ At(c, "status") /\ ~busy
    /\ IF rec.agent \notin ReadOnlyAgents /\ Routed(rec) /\ ~call[c].external
       THEN Return(c) ELSE Goto(c, "read")
    /\ UNCHANGED <<chat, rec, busy, cache, quiet>>

\* broker() fails, and the call with it; or the status request fails, by a
\* timeout or a lost connection, and the catch lets the read through.
StatusFailed(c) ==
    /\ At(c, "status")
    /\ Return(c) \/ Goto(c, "blind")
    /\ UNCHANGED <<chat, rec, busy, cache, quiet>>

ReadReturns(c) ==
    /\ At(c, "read") \/ At(c, "blind")
    /\ Return(c)
    /\ UNCHANGED <<chat, rec, busy, cache, quiet>>

BeginSandbox(c, t) ==
    /\ t \in SandboxTools
    /\ Begin(c, t, "send", FALSE)
    /\ cache' = IF t \in STATE_CHANGING_TOOLS THEN [u \in Tools |-> "none"] ELSE cache
    /\ UNCHANGED <<chat, rec, busy>>

\* Where an admitted tool goes on: a host mutation asks or sends, the rest runs.
Admitted(t) ==
    CASE t \notin HostTools  -> "ran"
      [] t \in AskingTools    -> "ask"
      [] OTHER                -> "send"

BeginOther(c, t) ==
    /\ t \notin ReadTools \cup SandboxTools
    /\ \/ cache[t] = "none"  /\ Begin(c, t, "admission", FALSE)
       \/ cache[t] = "allow" /\ Begin(c, t, Admitted(t), FALSE)
       \/ cache[t] = "deny"  /\ UNCHANGED <<call, quiet>>
    /\ UNCHANGED <<chat, rec, busy, cache>>

AdmissionAnswered(c) ==
    /\ At(c, "admission") /\ ~busy
    /\ Goto(c, IF toolAdmission(rec, call[c].tool) THEN "allow" ELSE "deny")
    /\ UNCHANGED <<chat, rec, busy, cache, quiet>>

AdmissionFailed(c) ==
    /\ At(c, "admission")
    /\ Return(c)
    /\ UNCHANGED <<chat, rec, busy, cache, quiet>>

\* Mutant: the classification is cached where the decision belongs.
ClassCached(c) ==
    /\ At(c, "allow") \/ At(c, "deny")
    /\ cache' = [cache EXCEPT ![call[c].tool] = classifyOperation(call[c].tool)]
    /\ IF At(c, "allow") THEN Goto(c, Admitted(call[c].tool)) ELSE Return(c)
    /\ UNCHANGED <<chat, rec, busy, quiet>>

\* The reply is in the plugin: it is cached, and obeyed.
AdmissionCached(c) ==
    /\ At(c, "allow") \/ At(c, "deny")
    /\ cache' = [cache EXCEPT ![call[c].tool] = call[c].stage]
    /\ IF At(c, "allow") THEN Goto(c, Admitted(call[c].tool)) ELSE Return(c)
    /\ UNCHANGED <<chat, rec, busy, quiet>>

----------------------------------------------------------------------------
(* The tools: host_* and the rest. *)

\* ctx.ask: the human approves, or the call ends.
Asks(c) ==
    /\ At(c, "ask")
    /\ Goto(c, "send") \/ Return(c)
    /\ UNCHANGED <<chat, rec, busy, cache, quiet>>

\* Mutant: the agent of the envelope authorizes.
EnvelopeAuthorizes(c) ==
    /\ At(c, "send") /\ call[c].tool \in HostTools /\ ~busy
    /\ IF authorizeHostDispatch(Operation[call[c].tool], agent) THEN Goto(c, "ran") ELSE Return(c)
    /\ UNCHANGED <<chat, rec, busy, cache, quiet>>

\* The host operation, authorized on the record alone.
HostDispatch(c) ==
    /\ At(c, "send") /\ call[c].tool \in HostTools /\ ~busy
    /\ IF authorizeHostDispatch(Operation[call[c].tool], rec.agent)
       THEN Goto(c, "ran") ELSE Return(c)
    /\ UNCHANGED <<chat, rec, busy, cache, quiet>>

\* The request fails on its way.
SendFailed(c) ==
    /\ At(c, "send")
    /\ Return(c)
    /\ UNCHANGED <<chat, rec, busy, cache, quiet>>

ToolReturns(c) ==
    /\ At(c, "ran")
    /\ Return(c)
    /\ UNCHANGED <<chat, rec, busy, cache, quiet>>

----------------------------------------------------------------------------
(* The sandbox_* tools. *)

\* assertNotOrchestrator, in the plugin, on the agent of the call.
SandboxRefused(c) ==
    /\ At(c, "send") /\ call[c].tool \in SandboxTools
    /\ agent \in ReadOnlyAgents
    /\ Return(c)
    /\ UNCHANGED <<chat, rec, busy, cache, quiet>>

\* ensureWorker up to its answer, or to the start of the creation.  The record
\* is touched before the state is looked at, so a refusal by the state, by the
\* budget or by the full queue has already entered the life cycle.
EnsureWorker(c) ==
    /\ At(c, "send") /\ call[c].tool \in Activating
    /\ agent \notin ReadOnlyAgents /\ ~busy
    /\ \/ Refused(rec) /\ Return(c) /\ UNCHANGED <<rec, busy, quiet>>
       \/ ~Refused(rec) /\ Return(c) /\ SetRecord(EnterLifecycle(rec)) /\ UNCHANGED busy
       \/ /\ ~Refused(rec)
          /\ "CREATING_SANDBOX" \in LegalTransitions[rec.state]
          /\ Goto(c, "ensure")
          /\ SetRecord([EnterLifecycle(rec) EXCEPT !.state = "CREATING_SANDBOX"])
          /\ busy' = TRUE
    /\ UNCHANGED <<chat, cache>>

\* The creation ends, whether or not the client still waits for it; a restart
\* of the broker closes it as failed.
CreationEnds ==
    /\ busy
    /\ busy' = FALSE
    /\ \E to \in {"SANDBOX_ACTIVE", "FAILED_CLOSED"} : SetRecord([rec EXCEPT !.state = to])
    /\ UNCHANGED <<chat, cache, call>>

EnsureReturns(c) ==
    /\ At(c, "ensure")
    /\ Return(c)
    /\ UNCHANGED <<chat, rec, busy, cache, quiet>>

\* SANDBOX_GUARD_CLASS: the tools whose first operation the dispatch guards;
\* ensureWorker has its guard in the handler.
Guarded == SandboxTools \ Activating

\* The operations on an existing worker: refused for a bound orchestrating
\* agent by the dispatch guard; finish, apply, discard and keep move the state.
WorkerOperation(c) ==
    /\ At(c, "send") /\ call[c].tool \in Guarded
    /\ agent \notin ReadOnlyAgents /\ ~busy
    /\ Return(c)
    /\ \/ rec.agent \in ReadOnlyAgents /\ UNCHANGED <<rec, quiet>>
       \/ /\ rec.agent \notin ReadOnlyAgents
          /\ \/ UNCHANGED <<rec, quiet>>
             \/ /\ call[c].tool # "sandbox_read"
                /\ \E to \in LegalTransitions[rec.state] \ {"CREATING_SANDBOX"} :
                     SetRecord([rec EXCEPT !.state = to])
    /\ UNCHANGED <<chat, busy, cache>>

----------------------------------------------------------------------------

Init ==
    /\ agent = None /\ hook = None /\ late = {}
    /\ rec = [agent |-> None, entered |-> FALSE, state |-> "HOST_READ_ONLY"]
    /\ busy = FALSE
    /\ cache = [t \in Tools |-> "none"]
    /\ call = [c \in Calls |-> Idle]
    /\ quiet = Calls

Next ==
    \/ \E a \in Agents : Chat(a) \/ LateBindHandled(a)
    \/ BindHandled \/ BindGivenUp \/ CreationEnds
    \/ \E c \in Calls :
         \/ \E t \in Tools, e \in BOOLEAN : BeginRead(c, t, e)
         \/ \E t \in Tools : BeginSandbox(c, t) \/ BeginOther(c, t)
         \/ StatusAnswered(c) \/ StatusFailed(c) \/ ReadReturns(c)
         \/ AdmissionAnswered(c) \/ AdmissionFailed(c) \/ AdmissionCached(c)
         \/ Asks(c) \/ HostDispatch(c) \/ SendFailed(c) \/ ToolReturns(c)
         \/ SandboxRefused(c) \/ EnsureWorker(c) \/ EnsureReturns(c) \/ WorkerOperation(c)

Spec == Init /\ [][Next]_vars

----------------------------------------------------------------------------
(* Properties. *)

Stages == {"idle", "status", "read", "blind", "admission", "allow", "deny", "ask",
           "send", "ran", "ensure"}

(* The type invariant of the chat, the record, the cache and the calls: what *)
(* admissionCache holds is an answer of toolAdmission.                      *)
TypeOK ==
    /\ agent \in Agents \cup {None} /\ hook \in Agents \cup {None}
    /\ late \subseteq Agents
    /\ rec \in [agent : Agents \cup {None}, entered : BOOLEAN, state : SessionStates]
    /\ busy \in BOOLEAN
    /\ cache \in [Tools -> {"none", "allow", "deny"}]
    /\ call \in [Calls -> [tool : Tools \cup {None}, stage : Stages, external : BOOLEAN]]
    /\ quiet \subseteq Calls

(* A host mutation runs only under the identity the broker has recorded,    *)
(* and never in a session that has entered the worker life cycle, whatever  *)
(* the order of bindings given up, late bindings, changes of the chat's     *)
(* agent and calls of ensureWorker, which erases a recorded role            *)
(* (authorizeHostDispatch, bindSessionAgent, ensureWorker).                 *)
MutationIsAuthorized ==
    [][\A c \in Calls :
         /\ At(c, "send") /\ At(c, "ran")'
         /\ Operation[call[c].tool] \in HostMutations \cup {"testRun"}
         => rec.agent # None /\ ~rec.entered /\ ~Routed(rec)]_vars

(* An orchestrating identity, once recorded, is neither replaced nor erased *)
(* and the session never gets a worker (ensureWorker's two refusals and the *)
(* first-binding rule).                                                     *)
OrchestratorStays ==
    [][rec.agent \in ReadOnlyAgents => rec' = rec]_vars

(* A host read of the project that the status request let through began, or *)
(* went on, at a moment when the session had no active worker; the refusal  *)
(* that the guard takes for an unknown session opens nothing (S5).          *)
ReadsRouted ==
    \A c \in Calls : At(c, "read") /\ ~call[c].external => c \in quiet

=============================================================================

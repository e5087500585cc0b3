--------------------------- MODULE ReviewerRelay ---------------------------
(***************************************************************************)
(* The reviewer relay of the agent host: the hooks that stand around a     *)
(* review Task, and the provider child each relay talks to.                *)
(*                                                                         *)
(* Several instances of the plugin may be loaded.  They share one registry *)
(* of relays; the instance whose before hook started a relay owns it, the  *)
(* others defer to it.  The host calls the hooks of a Task one instance    *)
(* after the other, in the order of loading, on the list as it stood when  *)
(* it began; hooks of different Tasks interleave at their awaits.  A       *)
(* promise that settles and the hook that awaits it run in one step: the   *)
(* event loop lets nothing else in between.                                *)
(*                                                                         *)
(* Of a Task's text (its prompt, later its output) only its origin is      *)
(* kept; the prompt a relay materializes is named by its Task, and so is   *)
(* the child session of a Task.                                            *)
(***************************************************************************)
EXTENDS Integers, Sequences, SequencesExt, FiniteSets

CONSTANTS Task,          \* the calls of review Tasks
          Instance,      \* the instances of the plugin
          First,         \* the one that is loaded from the start
          Session,       \* the sessions that call Tasks
          Agent,         \* the reviewer agents, among RELAY_AGENTS
          MaxRelays,     \* MAX_CONCURRENT_RELAYS
          None

Registrations ==
    [owner : Instance, completing : BOOLEAN, materialized : BOOLEAN, child : Task \cup {None}]

ASSUME RelayAssumption ==
    /\ None \notin Task /\ None \notin Registrations
    /\ First \in Instance
    /\ MaxRelays \in Nat

VARIABLES
    hooks,     \* the loaded instances, in order
    gone,      \* the disposed ones
    key,       \* the session and the agent of each Task
    relays,    \* the registry: the Tasks that are keys of the map, each with the
               \* ones inserted before it
    reg,       \* the registration of each Task, also after it left the map
    relay,     \* its relay: the state of startRelay's closure
    deferred, refused,   \* the maps of each instance
    materializedBySession,
    parentless,  \* history: the Tasks whose child an event without a parent bound
    call,      \* where the host is with each Task: stage, instances still to call
    text       \* what the Task carries

vars == <<hooks, gone, key, relays, reg, relay, deferred, refused,
          materializedBySession, parentless, call, text>>

bindings == <<materializedBySession, parentless>>
instanceVars == <<deferred, refused, bindings>>

NewRelay == [closed |-> FALSE, promptSeen |-> FALSE, resultSeen |-> FALSE, sent |-> None]

Registration(i) ==
    [owner |-> i, completing |-> FALSE, materialized |-> FALSE, child |-> None]

Registered(t) == t \in DOMAIN relays

\* The map after relays.delete of the Tasks of C, and after relays.set of t.
Deleted(C) == [t \in DOMAIN relays \ C |-> relays[t] \ C]
Inserted(t) == [u \in DOMAIN relays \cup {t} |-> IF u = t THEN DOMAIN relays ELSE relays[u]]

Current(t) == Head(call[t].todo)

\* The next instance's hook, in the same stage.
Returned(c, stage) == [stage |-> stage, todo |-> Tail(c.todo)]
Ended == [stage |-> "done", todo |-> <<>>]

----------------------------------------------------------------------------
(* The relays. *)

\* The relays of C are closed.  The before hook that awaits the prompt of one
\* refuses its Task; the after hook that awaits a result throws, and the host
\* ends the Task with the error.
Settle(C, noted) ==
    LET refusedIn == {t \in C : call[t].stage = "prompt"}
        thrownIn  == {t \in C : call[t].stage = "result"}
    IN /\ relay' = [t \in Task |-> IF t \in C THEN [relay[t] EXCEPT !.closed = TRUE] ELSE relay[t]]
       /\ call' = [t \in Task |-> CASE t \in refusedIn -> Returned(call[t], "before")
                                    [] t \in thrownIn -> Ended
                                    [] OTHER -> call[t]]
       /\ text' = [t \in Task |-> CASE t \in refusedIn -> "refusal"
                                    [] t \in thrownIn -> "error"
                                    [] OTHER -> text[t]]
       /\ refused' = [i \in Instance |-> noted[i] \cup {t \in refusedIn : Current(t) = i}]

\* The registrations of C leave the map and their relays are closed.
Close(C, noted) ==
    /\ relays' = Deleted(C)
    /\ Settle(C, noted)

Open(t) == relay[t] # None /\ ~relay[t].closed

\* Mutant: the child is killed and the promises are left pending.
FailSilently(t) ==
    /\ relay' = [relay EXCEPT ![t].closed = TRUE]
    /\ UNCHANGED <<hooks, gone, key, relays, reg, instanceVars, call, text>>

\* fail: a hook that awaits the relay also removes its registration; one that
\* is between the hooks stays registered.
Fail(t) ==
    /\ IF call[t].stage \in {"prompt", "result"}
       THEN Close({t}, refused)
       ELSE Settle({t}, refused) /\ UNCHANGED relays
    /\ UNCHANGED <<hooks, gone, key, reg, deferred, bindings>>

\* The provider's child sends the prompt frame, and the before hook goes on.
ProviderPrompt(t) ==
    /\ Open(t) /\ ~relay[t].promptSeen
    /\ relay' = [relay EXCEPT ![t].promptSeen = TRUE]
    /\ reg' = [reg EXCEPT ![t].materialized = TRUE]
    /\ text' = [text EXCEPT ![t] = "prompt"]
    /\ call' = [call EXCEPT ![t] = Returned(@, "before")]
    /\ UNCHANGED <<hooks, gone, key, relays, instanceVars>>

\* Its result frame, which answers the completion frame, is held back ...
ProviderResult(t) ==
    /\ Open(t) /\ relay[t].sent # None /\ ~relay[t].resultSeen
    /\ relay' = [relay EXCEPT ![t].resultSeen = TRUE]
    /\ UNCHANGED <<hooks, gone, key, relays, reg, instanceVars, call, text>>

\* ... until stdout ends: then the after hook delivers it.
ChildCloses(t) ==
    /\ Open(t) /\ relay[t].resultSeen
    /\ relay' = [relay EXCEPT ![t].closed = TRUE]
    /\ relays' = Deleted({t})
    /\ text' = [text EXCEPT ![t] = "result"]
    /\ call' = [call EXCEPT ![t] = Returned(@, "after")]
    /\ UNCHANGED <<hooks, gone, key, reg, instanceVars>>

\* A frame is malformed, unexpected, too long, or follows the result; stderr is
\* too long; the child cannot be spawned or exits early.
RelayFails(t) == Open(t) /\ Fail(t)

\* The timer, which also runs while a result is held back.
Deadline(t) == Open(t) /\ Fail(t)

----------------------------------------------------------------------------
(* The hooks of a Task. *)

\* The host begins with the before hooks; the prompt may be missing.
TaskCalled(t) ==
    /\ call[t].stage = "idle"
    /\ call' = [call EXCEPT ![t] = [stage |-> "before", todo |-> hooks]]
    /\ \E words \in {"binding", "none"} : text' = [text EXCEPT ![t] = words]
    /\ UNCHANGED <<hooks, gone, key, relays, reg, relay, instanceVars>>

InHook(t, stage) == call[t].stage = stage /\ call[t].todo # <<>>

\* The error for a Task without a prompt is returned and not noted.
BeforeFindsNoPrompt(t) ==
    /\ InHook(t, "before") /\ text[t] = "none"
    /\ call' = [call EXCEPT ![t] = Returned(@, "before")]
    /\ UNCHANGED <<hooks, gone, key, relays, reg, relay, instanceVars, text>>

\* refuseTaskBoundary, and the error the hook returns.
Refuse(t) ==
    /\ refused' = [refused EXCEPT ![Current(t)] = @ \cup {t}]
    /\ text' = [text EXCEPT ![t] = "refusal"]
    /\ call' = [call EXCEPT ![t] = Returned(@, "before")]
    /\ UNCHANGED <<hooks, gone, key, relays, reg, relay, deferred, bindings>>

\* Another instance has registered the Task.
BeforeDefers(t) ==
    /\ InHook(t, "before") /\ Registered(t)
    /\ deferred' = [deferred EXCEPT ![Current(t)] =
                      IF reg[t].owner # Current(t) THEN @ \cup {t} ELSE @]
    /\ call' = [call EXCEPT ![t] = Returned(@, "before")]
    /\ UNCHANGED <<hooks, gone, key, relays, reg, relay, refused, bindings, text>>

\* The cap is reached, or the prompt has no binding (classifyRelayTaskPrompt):
\* it is the refusal of an instance before this one, or already materialized.
BeforeRefuses(t) ==
    /\ InHook(t, "before") /\ ~Registered(t) /\ text[t] # "none"
    /\ Cardinality(DOMAIN relays) >= MaxRelays \/ text[t] # "binding"
    /\ Refuse(t)

BeforeLooksUp(t) ==
    /\ InHook(t, "before") /\ ~Registered(t)
    /\ Cardinality(DOMAIN relays) < MaxRelays /\ text[t] = "binding"
    /\ call' = [call EXCEPT ![t].stage = "root"]
    /\ UNCHANGED <<hooks, gone, key, relays, reg, relay, instanceVars, text>>

\* resolveSessionRoot or startRelay throws.
RootFails(t) == call[t].stage = "root" /\ Refuse(t)

\* startRelay and the registration.  Neither the cap nor whether the instance
\* has been disposed meanwhile is looked at again.
RelayStarts(t) ==
    /\ call[t].stage = "root"
    /\ relay' = [relay EXCEPT ![t] = NewRelay]
    /\ reg' = [reg EXCEPT ![t] = Registration(Current(t))]
    /\ relays' = Inserted(t)
    /\ call' = [call EXCEPT ![t].stage = "prompt"]
    /\ UNCHANGED <<hooks, gone, key, instanceVars, text>>

\* Mutant: a registration is bound to any number of children.
BindsAgain(t, c, orphan) == reg[t].materialized /\ key[t] = key[c]

\* The sessions are compared only if the event names the parent of the child.
Binds(t, c, orphan) ==
    /\ reg[t].materialized /\ reg[t].child = None
    /\ key[t][2] = key[c][2]
    /\ orphan \/ key[t][1] = key[c][1]

\* bindMaterializedToChild: the first registration that fits, or none.  The
\* other instances, which see the same event, find the child bound already.
BoundTo(c, orphan) ==
    LET fit == {t \in DOMAIN relays : Binds(t, c, orphan)}
    IN IF fit = {} THEN {None} ELSE {t \in fit : relays[t] \cap fit = {}}

\* The Task is launched: its child session is created, and every instance sees
\* the event.  A host that ignores the error of a hook launches a refused Task.
Launch(t) ==
    /\ call[t] = [stage |-> "before", todo |-> <<>>]
    /\ call' = [call EXCEPT ![t].stage = "running"]
    /\ \E orphan \in BOOLEAN : \E b \in BoundTo(t, orphan) :
         /\ reg' = IF b = None THEN reg ELSE [reg EXCEPT ![b].child = t]
         /\ materializedBySession' =
              [i \in Instance |-> IF Contains(hooks, i)
                                  THEN [materializedBySession[i] EXCEPT ![t] = b]
                                  ELSE materializedBySession[i]]
         /\ parentless' = IF orphan /\ b # None THEN parentless \cup {t} ELSE parentless
    /\ UNCHANGED <<hooks, gone, key, relays, relay, deferred, refused, text>>

\* The error of a before hook ends the Task.
TaskRefused(t) ==
    /\ call[t] = [stage |-> "before", todo |-> <<>>] /\ text[t] \in {"refusal", "none"}
    /\ call' = [call EXCEPT ![t] = Ended]
    /\ text' = [text EXCEPT ![t] = "refusal"]
    /\ UNCHANGED <<hooks, gone, key, relays, reg, relay, instanceVars>>

\* The child has answered: the host begins with the after hooks.
ChildAnswers(t) ==
    /\ call[t].stage = "running"
    /\ call' = [call EXCEPT ![t] = [stage |-> "after", todo |-> hooks]]
    /\ text' = [text EXCEPT ![t] = "raw"]
    /\ UNCHANGED <<hooks, gone, key, relays, reg, relay, instanceVars>>

\* The Task is cancelled: no after hook runs.
TaskAborted(t) ==
    /\ call[t].stage = "running"
    /\ call' = [call EXCEPT ![t] = Ended]
    /\ text' = [text EXCEPT ![t] = "error"]
    /\ UNCHANGED <<hooks, gone, key, relays, reg, relay, instanceVars>>

\* Mutant: a deferred Task is always left to its owner.
LeftToOwner(i, t) == t \in deferred[i]

\* The owner this instance deferred to is registered still, or has delivered.
OwnerDelivers(i, t) == t \in deferred[i] /\ (Registered(t) \/ reg[t].completing)

AfterPasses(t) ==
    /\ InHook(t, "after")
    /\ t \notin refused[Current(t)] /\ OwnerDelivers(Current(t), t)
    /\ deferred' = [deferred EXCEPT ![Current(t)] = @ \ {t}]
    /\ call' = [call EXCEPT ![t] = Returned(@, "after")]
    /\ UNCHANGED <<hooks, gone, key, relays, reg, relay, refused, bindings, text>>

Completes(i, t) == Registered(t) /\ reg[t].owner = i /\ ~reg[t].completing

\* A refused start, or a Task with no registration this instance may complete.
AfterRefuses(t) ==
    LET i == Current(t) IN
    /\ InHook(t, "after")
    /\ t \in refused[i] \/ ~(OwnerDelivers(i, t) \/ Completes(i, t))
    /\ refused' = [refused EXCEPT ![i] = @ \ {t}]
    /\ deferred' = IF t \in refused[i] THEN deferred ELSE [deferred EXCEPT ![i] = @ \ {t}]
    /\ text' = [text EXCEPT ![t] = "refusal"]
    /\ call' = [call EXCEPT ![t] = Returned(@, "after")]
    /\ UNCHANGED <<hooks, gone, key, relays, reg, relay, bindings>>

\* relay.complete sends the output and awaits the result; a relay that has
\* failed since the before hook makes it throw, and it is unregistered.
AfterCompletes(t) ==
    LET i == Current(t) IN
    /\ InHook(t, "after")
    /\ t \notin refused[i] /\ ~OwnerDelivers(i, t) /\ Completes(i, t)
    /\ reg' = [reg EXCEPT ![t].completing = TRUE]
    /\ IF Open(t)
       THEN /\ relay' = [relay EXCEPT ![t].sent = text[t]]
            /\ call' = [call EXCEPT ![t].stage = "result"]
            /\ UNCHANGED <<relays, text>>
       ELSE /\ relays' = Deleted({t})
            /\ call' = [call EXCEPT ![t] = Ended]
            /\ text' = [text EXCEPT ![t] = "error"]
            /\ UNCHANGED relay
    /\ UNCHANGED <<hooks, gone, key, instanceVars>>

Delivered(t) ==
    /\ call[t] = [stage |-> "after", todo |-> <<>>]
    /\ call' = [call EXCEPT ![t] = Ended]
    /\ UNCHANGED <<hooks, gone, key, relays, reg, relay, instanceVars, text>>

----------------------------------------------------------------------------
(* Sessions and instances. *)

Load(i) ==
    /\ ~Contains(hooks, i) /\ i \notin gone
    /\ hooks' = Append(hooks, i)
    /\ UNCHANGED <<gone, key, relays, reg, relay, instanceVars, call, text>>

\* dispose; some instance stays.
Dispose(i) ==
    /\ Len(hooks) > 1
    /\ \E n \in 1..Len(hooks) : hooks[n] = i /\ hooks' = RemoveAt(hooks, n)
    /\ gone' = gone \cup {i}
    /\ deferred' = [deferred EXCEPT ![i] = {}]
    /\ materializedBySession' = [materializedBySession EXCEPT ![i] = [t \in Task |-> None]]
    /\ Close({t \in DOMAIN relays : reg[t].owner = i}, [refused EXCEPT ![i] = {}])
    /\ UNCHANGED <<key, reg, parentless>>

\* clearSession, in every loaded instance: what it owns of the session's Tasks.
SessionDeleted(p) ==
    LET own == {t \in Task : key[t][1] = p}
        kept(m) == [i \in Instance |-> IF Contains(hooks, i) THEN m[i] \ own ELSE m[i]]
    IN /\ \E t \in own : call[t].stage # "idle"
       /\ deferred' = kept(deferred)
       /\ Close({t \in own \cap DOMAIN relays : Contains(hooks, reg[t].owner)}, kept(refused))
       /\ UNCHANGED <<hooks, gone, key, reg, bindings>>

\* The child session of a Task is deleted.
ChildDeleted(t) ==
    /\ call[t].stage = "done"
    /\ materializedBySession' =
         [i \in Instance |-> IF Contains(hooks, i)
                             THEN [materializedBySession[i] EXCEPT ![t] = None]
                             ELSE materializedBySession[i]]
    /\ UNCHANGED <<hooks, gone, key, relays, reg, relay, deferred, refused, parentless, call, text>>

----------------------------------------------------------------------------

Init ==
    /\ hooks = <<First>> /\ gone = {}
    /\ key \in [Task -> Session \X Agent]
    /\ relays = <<>>
    /\ reg = [t \in Task |-> None] /\ relay = [t \in Task |-> None]
    /\ deferred = [i \in Instance |-> {}] /\ refused = [i \in Instance |-> {}]
    /\ materializedBySession = [i \in Instance |-> [t \in Task |-> None]]
    /\ call = [t \in Task |-> [stage |-> "idle", todo |-> <<>>]]
    /\ text = [t \in Task |-> "binding"]
    /\ parentless = {}

\* What the event loop does of itself once the host calls the hooks of t.
HookStep(t) ==
    \/ BeforeFindsNoPrompt(t) \/ BeforeDefers(t) \/ BeforeRefuses(t) \/ BeforeLooksUp(t)
    \/ RootFails(t) \/ RelayStarts(t) \/ Launch(t) \/ TaskRefused(t)
    \/ AfterPasses(t) \/ AfterRefuses(t) \/ AfterCompletes(t) \/ Delivered(t)

Next ==
    \/ \E t \in Task :
         \/ HookStep(t)
         \/ TaskCalled(t) \/ ChildAnswers(t) \/ TaskAborted(t) \/ ChildDeleted(t)
         \/ ProviderPrompt(t) \/ ProviderResult(t) \/ ChildCloses(t)
         \/ RelayFails(t) \/ Deadline(t)
    \/ \E i \in Instance : Load(i) \/ Dispose(i)
    \/ \E p \in Session : SessionDeleted(p)

\* Hooks that can run do, the look-up of the root is answered, timers fire.
HookFairness == \A t \in Task : WF_vars(HookStep(t)) /\ WF_vars(Deadline(t))

Spec == Init /\ [][Next]_vars /\ HookFairness

----------------------------------------------------------------------------
(* Properties. *)

(* What a review Task returns is a refusal, an error, or the provider's     *)
(* result for what this Task's own child has said, never the child's words  *)
(* themselves; whatever instances are loaded and disposed, sessions deleted *)
(* and relays failing meanwhile.  The exception: an instance disposed while *)
(* its before hook looks up the root registers all the same, and the others *)
(* defer to it for good (tool.execute.before, tool.execute.after).          *)
DeliveredIsOwn ==
    \A t \in Task : call[t].stage = "done" =>
      \/ text[t] \in {"refusal", "error"}
      \/ text[t] = "result" /\ relay[t].sent = "raw"
      \/ text[t] = "raw" /\ Registered(t) /\ reg[t].owner \in gone

(* The children of reviewers are not mixed up: a prompt goes to one child   *)
(* at most, of the agent it was made for, and all instances agree on it;    *)
(* and it is a child of the session it was made for, unless the event that  *)
(* announced the child named no parent (bindMaterializedToChild,            *)
(* session.created).                                                        *)
PromptsApart ==
    \A i, j \in Instance, c, d \in Task :
      LET t == materializedBySession[i][c] IN
      t # None =>
        /\ key[t][2] = key[c][2]
        /\ c \notin parentless => key[t][1] = key[c][1]
        /\ materializedBySession[j][c] \in {t, None}
        /\ materializedBySession[j][d] = t => c = d

(* The host never waits for ever on a hook: a provider that says nothing,   *)
(* or only half of what it should, is given up (fail, the deadline).        *)
HooksReturn ==
    \A t \in Task :
      call[t].stage \in {"before", "root", "prompt", "after", "result"}
        ~> call[t].stage \in {"running", "done"}

=============================================================================

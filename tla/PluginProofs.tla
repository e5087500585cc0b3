----------------------------- MODULE PluginProofs -----------------------------
(***************************************************************************)
(* Proofs about the two protocols of opencode/plugins/lib: the reviewer    *)
(* relay (ReviewerRelay), for every number of Tasks, plugin instances and  *)
(* sessions, and a plugin's connection to the broker (Transport), for      *)
(* every set of requests, buffer size, fault set and number of crashes.    *)
(***************************************************************************)
EXTENDS ReviewerRelay, Transport, TLAPS, SequenceTheorems

Stages == {"idle", "before", "root", "prompt", "running", "after", "result", "done"}
Texts == {"binding", "none", "refusal", "prompt", "raw", "result", "error"}

RelayState == [closed : BOOLEAN, promptSeen : BOOLEAN, resultSeen : BOOLEAN,
               sent : Texts \cup {None}]

(* No hook has done anything about the Task yet.                            *)
Fresh(t) == call[t].stage \in {"idle", "before", "root"} /\ text[t] = "binding"

TaskTypes(t) ==
    /\ call[t] \in [stage : Stages, todo : Seq(Instance)]
    /\ text[t] \in Texts
    /\ relay[t] \in RelayState \cup {None}
    /\ reg[t] \in Registrations \cup {None}

(* What the Task carries, and that a hook that awaits is the first of those *)
(* still to call.                                                           *)
StageOK(t) ==
    /\ call[t].stage \in {"root", "prompt", "result"} => call[t].todo # <<>>
    /\ call[t].stage \in {"idle", "root", "prompt"} => text[t] = "binding"
    /\ call[t].stage = "after" => text[t] \in {"raw", "refusal", "result"}
    /\ call[t].stage = "prompt" => reg[t] \in Registrations /\ relay[t] \in RelayState
    /\ call[t].stage = "result" => text[t] = "raw"

(* The first hook that acts is that of the instance loaded first, or of one *)
(* that has been disposed meanwhile.                                        *)
FreshOK(t) == Fresh(t) =>
    /\ ~Registered(t) /\ relay[t] = None
    /\ \A i \in Instance : t \notin deferred[i] /\ t \notin refused[i]
    /\ call[t].stage # "idle" /\ call[t].todo # <<>>
         => Head(call[t].todo) \in gone \cup {Head(hooks)}

(* So the owner of a registration comes first among the after hooks, or is  *)
(* not among them.                                                          *)
RegisteredOK(t) == Registered(t) =>
    /\ reg[t] \in Registrations /\ relay[t] \in RelayState
    /\ reg[t].owner \in gone \cup {Head(hooks)}
    /\ \A i \in Instance : t \notin refused[i]
    /\ text[t] # "result"
    /\ call[t].stage = "after" =>
         \/ reg[t].owner \in gone /\ ~Contains(call[t].todo, reg[t].owner)
         \/ text[t] = "raw" /\ call[t].todo # <<>> /\ Head(call[t].todo) = reg[t].owner

DeferredOK(t) ==
    \A i \in Instance : t \in deferred[i] => reg[t] \in Registrations /\ reg[t].owner # i

RelayOK(t) ==
    /\ text[t] = "result" => relay[t] \in RelayState /\ relay[t].sent = "raw"
    /\ relay[t] # None /\ ~relay[t].closed =>
         /\ ~relay[t].promptSeen => call[t].stage = "prompt"
         /\ relay[t].resultSeen \/ relay[t].sent # None
              => call[t].stage = "result" /\ relay[t].sent = "raw"

CompletingOK(t) ==
    reg[t] \in Registrations /\ reg[t].completing =>
      /\ call[t].stage \in {"result", "after", "done"}
      /\ call[t].stage = "after" => text[t] # "raw"

(* The raw words of the child do not get past the last after hook.          *)
RawOK(t) ==
    /\ call[t].stage = "after" /\ text[t] = "raw" /\ ~Registered(t) => call[t].todo # <<>>
    /\ call[t].stage = "done" =>
         \/ text[t] \in {"refusal", "error", "result"}
         \/ text[t] = "raw" /\ Registered(t) /\ reg[t].owner \in gone

TaskOK(t) ==
    /\ TaskTypes(t) /\ StageOK(t) /\ FreshOK(t) /\ RegisteredOK(t)
    /\ DeferredOK(t) /\ RelayOK(t) /\ CompletingOK(t) /\ RawOK(t)

(* The instances, and the maps over Tasks and instances.                    *)
HooksInv ==
    /\ hooks \in Seq(Instance) /\ hooks # <<>>
    /\ \A m, n \in 1..Len(hooks) : hooks[m] = hooks[n] => m = n
    /\ \A n \in 1..Len(hooks) : hooks[n] \notin gone

Shapes ==
    /\ DOMAIN relays \subseteq Task
    /\ DOMAIN reg = Task /\ reg = [t \in Task |-> reg[t]]
    /\ DOMAIN relay = Task /\ relay = [t \in Task |-> relay[t]]
    /\ DOMAIN call = Task /\ call = [t \in Task |-> call[t]]
    /\ DOMAIN text = Task /\ text = [t \in Task |-> text[t]]
    /\ deferred \in [Instance -> SUBSET Task]
    /\ refused \in [Instance -> SUBSET Task]

(* A prompt has gone to the child its registration is bound to.             *)
ChildOK(t) ==
    reg[t] \in Registrations /\ reg[t].child # None =>
      /\ reg[t].child \in Task /\ key[t][2] = key[reg[t].child][2]
      /\ reg[t].child \notin parentless => key[t][1] = key[reg[t].child][1]
      /\ call[reg[t].child].stage \in {"running", "after", "result", "done"}

ChildrenApart ==
    \A t, u \in Task :
      /\ reg[t] \in Registrations /\ reg[u] \in Registrations
      /\ reg[t].child # None /\ reg[t].child = reg[u].child
      => t = u

PromptOK(t, c) ==
    t # None => /\ t \in Task /\ ~Fresh(t)
                /\ reg[t] \in Registrations /\ reg[t].child = c

PromptInv ==
    /\ materializedBySession \in [Instance -> [Task -> Task \cup {None}]]
    /\ \A t \in Task : ChildOK(t)
    /\ ChildrenApart
    /\ \A i \in Instance, c \in Task : PromptOK(materializedBySession[i][c], c)

RelayInv == HooksInv /\ Shapes /\ (\A t \in Task : TaskOK(t)) /\ PromptInv

-----------------------------------------------------------------------------
(* Frames *)

(* The instance loaded first stays the first until it is disposed.          *)
FirstKept == gone \subseteq gone' /\ gone \cup {Head(hooks)} \subseteq gone' \cup {Head(hooks')}

(* A Task nothing has happened to, while others' hooks run.                 *)
LEMMA TaskFrame ==
    ASSUME NEW t \in Task, TaskOK(t), FirstKept,
           call'[t] = call[t], text'[t] = text[t], relay'[t] = relay[t], reg'[t] = reg[t],
           (t \in DOMAIN relays') <=> (t \in DOMAIN relays),
           \A i \in Instance : t \in deferred'[i] => t \in deferred[i],
           \A i \in Instance : t \in refused'[i] => t \in refused[i]
    PROVE  TaskOK(t)'
<1>1. TaskTypes(t)' /\ StageOK(t)'
  BY DEF TaskOK, TaskTypes, StageOK
<1>2. FreshOK(t)'
  BY DEF TaskOK, FreshOK, Fresh, Registered, FirstKept
<1>3. RegisteredOK(t)'
  BY DEF TaskOK, RegisteredOK, Registered, Contains, FirstKept
<1>4. DeferredOK(t)' /\ CompletingOK(t)' /\ RelayOK(t)'
  BY DEF TaskOK, DeferredOK, CompletingOK, RelayOK
<1>5. RawOK(t)'
  BY DEF TaskOK, RawOK, Registered, FirstKept
<1> QED BY <1>1, <1>2, <1>3, <1>4, <1>5 DEF TaskOK

(* A step that leaves the other Tasks alone.                                *)
OthersAlone(t) ==
    \A u \in Task \ {t} :
      /\ call'[u] = call[u] /\ text'[u] = text[u] /\ relay'[u] = relay[u] /\ reg'[u] = reg[u]
      /\ (u \in DOMAIN relays') <=> (u \in DOMAIN relays)
      /\ \A i \in Instance : u \in deferred'[i] => u \in deferred[i]
      /\ \A i \in Instance : u \in refused'[i] => u \in refused[i]

LEMMA OneTask ==
    ASSUME RelayInv, NEW t \in Task, OthersAlone(t), UNCHANGED <<hooks, gone>>, TaskOK(t)'
    PROVE  \A u \in Task : TaskOK(u)'
<1> SUFFICES ASSUME NEW u \in Task, u # t PROVE TaskOK(u)'
  OBVIOUS
<1>1. FirstKept
  BY DEF FirstKept
<1> QED BY <1>1, TaskFrame DEF RelayInv, OthersAlone

(* The bindings of prompts are kept by a step that does not touch them.     *)
LEMMA PromptFrame ==
    ASSUME RelayInv, key' = key, materializedBySession' = materializedBySession,
           parentless' = parentless,
           \A t \in Task : /\ reg'[t] \in Registrations => \/ reg'[t].child = None
                                                      \/ /\ reg[t] \in Registrations
                                                         /\ reg'[t].child = reg[t].child
                           /\ reg[t] \in Registrations /\ ~Fresh(t)
                                => /\ reg'[t] \in Registrations
                                   /\ reg'[t].child = reg[t].child
                           /\ Fresh(t)' => Fresh(t)
                           /\ call[t].stage \in {"running", "after", "result", "done"}
                                => call'[t].stage \in {"running", "after", "result", "done"}
    PROVE  PromptInv'
<1>1. \A t \in Task : ChildOK(t)'
  BY DEF RelayInv, PromptInv, ChildOK
<1>2. ChildrenApart'
  BY DEF RelayInv, PromptInv, ChildrenApart
<1>3. \A i \in Instance, c \in Task : PromptOK(materializedBySession[i][c], c)'
  BY DEF RelayInv, PromptInv, PromptOK
<1> QED BY <1>1, <1>2, <1>3 DEF RelayInv, PromptInv

(* What a step that calls a hook needs to know of its list.                 *)
LEMMA TodoTail ==
    ASSUME NEW s \in Seq(Instance), s # <<>>
    PROVE  /\ Tail(s) \in Seq(Instance) /\ Head(s) \in Instance /\ Contains(s, Head(s))
           /\ \A i : Contains(Tail(s), i) => Contains(s, i)
           /\ \A i : Contains(s, i) => i = Head(s) \/ Tail(s) # <<>>
<1>1. /\ Tail(s) \in Seq(Instance) /\ Head(s) \in Instance
      /\ Len(Tail(s)) = Len(s) - 1 /\ Head(s) = s[1] /\ Len(s) \in Nat /\ Len(s) >= 1
      /\ \A n \in 1..Len(Tail(s)) : Tail(s)[n] = s[n + 1]
  OBVIOUS
<1>2. \A i : Contains(Tail(s), i) => Contains(s, i)
  BY <1>1 DEF Contains
<1>3. Contains(s, Head(s))
  BY <1>1 DEF Contains
<1>4. ASSUME NEW i, Contains(s, i), Tail(s) = <<>>
      PROVE  i = Head(s)
  <2>1. Len(s) = 1
    BY <1>1, <1>4
  <2> QED BY <1>1, <1>4, <2>1 DEF Contains
<1> QED BY <1>1, <1>2, <1>3, <1>4

(* The fields of a relay and of a registration after an assignment.         *)
LEMMA RelayFields ==
    ASSUME NEW r \in RelayState
    PROVE  /\ [r EXCEPT !.closed = TRUE] \in RelayState
           /\ [r EXCEPT !.closed = TRUE].closed = TRUE
           /\ [r EXCEPT !.closed = TRUE].sent = r.sent
           /\ [r EXCEPT !.promptSeen = TRUE] \in RelayState
           /\ [r EXCEPT !.promptSeen = TRUE].promptSeen = TRUE
           /\ [r EXCEPT !.promptSeen = TRUE].resultSeen = r.resultSeen
           /\ [r EXCEPT !.promptSeen = TRUE].sent = r.sent
           /\ [r EXCEPT !.resultSeen = TRUE] \in RelayState
           /\ [r EXCEPT !.resultSeen = TRUE].promptSeen = r.promptSeen
           /\ [r EXCEPT !.resultSeen = TRUE].sent = r.sent
           /\ [r EXCEPT !.sent = "raw"] \in RelayState
           /\ [r EXCEPT !.sent = "raw"].promptSeen = r.promptSeen
           /\ [r EXCEPT !.sent = "raw"].sent = "raw"
BY DEF RelayState, Texts

LEMMA RegistrationFields ==
    ASSUME NEW g \in Registrations
    PROVE  /\ [g EXCEPT !.materialized = TRUE] \in Registrations
           /\ [g EXCEPT !.materialized = TRUE].owner = g.owner
           /\ [g EXCEPT !.materialized = TRUE].completing = g.completing
           /\ [g EXCEPT !.materialized = TRUE].child = g.child
           /\ [g EXCEPT !.completing = TRUE] \in Registrations
           /\ [g EXCEPT !.completing = TRUE].owner = g.owner
           /\ [g EXCEPT !.completing = TRUE].child = g.child
BY DEF Registrations

-----------------------------------------------------------------------------
(* The before hooks *)

(* The Task starts with the loaded instances.                               *)
LEMMA TaskCalledStep ==
    ASSUME RelayInv, NEW t \in Task, TaskCalled(t)
    PROVE  RelayInv'
<1>0. /\ TaskTypes(t) /\ StageOK(t) /\ FreshOK(t) /\ RegisteredOK(t)
      /\ DeferredOK(t) /\ RelayOK(t) /\ CompletingOK(t) /\ RawOK(t)
      /\ HooksInv /\ Shapes
  BY DEF RelayInv, TaskOK
<1>1. /\ UNCHANGED <<hooks, gone, key, materializedBySession, parentless>>
      /\ call[t].stage = "idle" /\ call'[t] = [stage |-> "before", todo |-> hooks]
      /\ text'[t] \in {"binding", "none"}
      /\ UNCHANGED <<relay, reg, relays, deferred, refused>>
  BY <1>0 DEF Shapes, TaskTypes, TaskCalled, instanceVars, bindings
<1>2. OthersAlone(t) /\ Shapes'
  BY <1>0, <1>1 DEF Shapes, OthersAlone, TaskCalled, instanceVars, bindings
<1>c0. TaskTypes(t)'
  BY <1>0, <1>1 DEF TaskTypes, HooksInv, Stages, Texts
<1>c1. StageOK(t)'
  BY <1>0, <1>1 DEF StageOK
<1>c2. FreshOK(t)'
  BY <1>0, <1>1 DEF FreshOK, Fresh, Registered, HooksInv, StageOK
<1>c3. RegisteredOK(t)'
  BY <1>0, <1>1 DEF RegisteredOK, Registered
<1>c4. DeferredOK(t)'
  BY <1>0, <1>1 DEF DeferredOK
<1>c5. RelayOK(t)'
  BY <1>0, <1>1 DEF RelayOK
<1>c6. CompletingOK(t)'
  BY <1>0, <1>1 DEF CompletingOK
<1>c7. RawOK(t)'
  BY <1>0, <1>1 DEF RawOK, Registered
<1>3. TaskOK(t)'
  BY <1>c0, <1>c1, <1>c2, <1>c3, <1>c4, <1>c5, <1>c6, <1>c7 DEF TaskOK
<1>4. \A u \in Task : TaskOK(u)'
  BY <1>1, <1>2, <1>3, OneTask
<1>5. HooksInv'
  BY <1>0, <1>1 DEF HooksInv
<1>6. PromptInv'
  BY <1>0, <1>1, <1>2, PromptFrame DEF OthersAlone, Fresh, TaskTypes, Registrations, StageOK
<1> QED BY <1>2, <1>4, <1>5, <1>6 DEF RelayInv

(* An instance after the owner.                                             *)
LEMMA BeforeDefersStep ==
    ASSUME RelayInv, NEW t \in Task, BeforeDefers(t)
    PROVE  RelayInv'
<1>0. /\ TaskTypes(t) /\ StageOK(t) /\ FreshOK(t) /\ RegisteredOK(t)
      /\ DeferredOK(t) /\ RelayOK(t) /\ CompletingOK(t) /\ RawOK(t)
      /\ HooksInv /\ Shapes
  BY DEF RelayInv, TaskOK
<1>1. /\ UNCHANGED <<hooks, gone, key, materializedBySession, parentless>>
      /\ call[t].stage = "before" /\ call[t].todo # <<>> /\ Registered(t)
      /\ call'[t] = [stage |-> "before", todo |-> Tail(call[t].todo)]
      /\ \A i \in Instance : t \in deferred'[i] => t \in deferred[i] \/ reg[t].owner # i
      /\ UNCHANGED <<text, relay, reg, relays, refused>>
  BY <1>0 DEF Shapes, TaskTypes, bindings, BeforeDefers, Returned, InHook, Registered, Current
<1>2. OthersAlone(t) /\ Shapes'
  BY <1>0, <1>1 DEF Shapes, OthersAlone, bindings, BeforeDefers, Returned, InHook, Registered, Current
<1>c0. TaskTypes(t)'
  BY <1>0, <1>1, TodoTail DEF TaskTypes, Stages
<1>c1. StageOK(t)'
  BY <1>0, <1>1 DEF StageOK
<1>c2. FreshOK(t)'
  BY <1>0, <1>1 DEF FreshOK, Fresh, Registered
<1>c3. RegisteredOK(t)'
  BY <1>0, <1>1 DEF RegisteredOK, Registered
<1>c4. DeferredOK(t)'
  BY <1>0, <1>1 DEF DeferredOK, RegisteredOK
<1>c5. RelayOK(t)'
  BY <1>0, <1>1 DEF RelayOK
<1>c6. CompletingOK(t)'
  BY <1>0, <1>1 DEF CompletingOK
<1>c7. RawOK(t)'
  BY <1>0, <1>1 DEF RawOK, Registered
<1>3. TaskOK(t)'
  BY <1>c0, <1>c1, <1>c2, <1>c3, <1>c4, <1>c5, <1>c6, <1>c7 DEF TaskOK
<1>4. \A u \in Task : TaskOK(u)'
  BY <1>1, <1>2, <1>3, OneTask
<1>5. HooksInv'
  BY <1>0, <1>1 DEF HooksInv
<1>6. PromptInv'
  BY <1>0, <1>1, <1>2, PromptFrame DEF OthersAlone, Fresh, TaskTypes, Registrations
<1> QED BY <1>2, <1>4, <1>5, <1>6 DEF RelayInv

(* A Task without a prompt.                                                 *)
LEMMA BeforeFindsNoPromptStep ==
    ASSUME RelayInv, NEW t \in Task, BeforeFindsNoPrompt(t)
    PROVE  RelayInv'
<1>0. /\ TaskTypes(t) /\ StageOK(t) /\ FreshOK(t) /\ RegisteredOK(t)
      /\ DeferredOK(t) /\ RelayOK(t) /\ CompletingOK(t) /\ RawOK(t)
      /\ HooksInv /\ Shapes
  BY DEF RelayInv, TaskOK
<1>1. /\ UNCHANGED <<hooks, gone, key, materializedBySession, parentless>>
      /\ call[t].stage = "before" /\ call[t].todo # <<>>
      /\ call'[t] = [stage |-> "before", todo |-> Tail(call[t].todo)]
      /\ text[t] = "none" /\ UNCHANGED <<text, relay, reg, relays, deferred, refused>>
  BY <1>0 DEF Shapes, TaskTypes, instanceVars, bindings, BeforeFindsNoPrompt, Returned, InHook, Registered, Current
<1>2. OthersAlone(t) /\ Shapes'
  BY <1>0, <1>1 DEF Shapes, OthersAlone, instanceVars, bindings, BeforeFindsNoPrompt, Returned, InHook, Registered, Current
<1>c0. TaskTypes(t)'
  BY <1>0, <1>1, TodoTail DEF TaskTypes, Stages
<1>c1. StageOK(t)'
  BY <1>0, <1>1 DEF StageOK
<1>c2. FreshOK(t)'
  BY <1>0, <1>1 DEF FreshOK, Fresh, Registered
<1>c3. RegisteredOK(t)'
  BY <1>0, <1>1 DEF RegisteredOK, Registered
<1>c4. DeferredOK(t)'
  BY <1>0, <1>1 DEF DeferredOK, RegisteredOK
<1>c5. RelayOK(t)'
  BY <1>0, <1>1 DEF RelayOK
<1>c6. CompletingOK(t)'
  BY <1>0, <1>1 DEF CompletingOK
<1>c7. RawOK(t)'
  BY <1>0, <1>1 DEF RawOK, Registered
<1>3. TaskOK(t)'
  BY <1>c0, <1>c1, <1>c2, <1>c3, <1>c4, <1>c5, <1>c6, <1>c7 DEF TaskOK
<1>4. \A u \in Task : TaskOK(u)'
  BY <1>1, <1>2, <1>3, OneTask
<1>5. HooksInv'
  BY <1>0, <1>1 DEF HooksInv
<1>6. PromptInv'
  BY <1>0, <1>1, <1>2, PromptFrame DEF OthersAlone, Fresh, TaskTypes, Registrations
<1> QED BY <1>2, <1>4, <1>5, <1>6 DEF RelayInv

(* The hook refuses the Task.                                               *)
LEMMA RefuseStep ==
    ASSUME RelayInv, NEW t \in Task, Refuse(t),
           call[t].stage \in {"before", "root"}, call[t].todo # <<>>, ~Registered(t)
    PROVE  RelayInv'
<1>0. /\ TaskTypes(t) /\ StageOK(t) /\ FreshOK(t) /\ RegisteredOK(t)
      /\ DeferredOK(t) /\ RelayOK(t) /\ CompletingOK(t) /\ RawOK(t)
      /\ HooksInv /\ Shapes
  BY DEF RelayInv, TaskOK
<1>1. /\ UNCHANGED <<hooks, gone, key, materializedBySession, parentless>>
      /\ call[t].stage \in {"before", "root"} /\ call[t].todo # <<>> /\ ~Registered(t)
      /\ call'[t] = [stage |-> "before", todo |-> Tail(call[t].todo)] /\ text'[t] = "refusal"
      /\ UNCHANGED <<relay, reg, relays, deferred>>
  BY <1>0 DEF Shapes, TaskTypes, bindings, Refuse, Returned, Current
<1>2. OthersAlone(t) /\ Shapes'
  BY <1>0, <1>1 DEF Shapes, OthersAlone, bindings, Refuse, Returned, Current
<1>c0. TaskTypes(t)'
  BY <1>0, <1>1, TodoTail DEF TaskTypes, Stages, Texts
<1>c1. StageOK(t)'
  BY <1>0, <1>1 DEF StageOK
<1>c2. FreshOK(t)'
  BY <1>0, <1>1 DEF FreshOK, Fresh, Registered
<1>c3. RegisteredOK(t)'
  BY <1>0, <1>1 DEF RegisteredOK, Registered
<1>c4. DeferredOK(t)'
  BY <1>0, <1>1 DEF DeferredOK
<1>c5. RelayOK(t)'
  BY <1>0, <1>1 DEF RelayOK
<1>c6. CompletingOK(t)'
  BY <1>0, <1>1 DEF CompletingOK
<1>c7. RawOK(t)'
  BY <1>0, <1>1 DEF RawOK, Registered
<1>3. TaskOK(t)'
  BY <1>c0, <1>c1, <1>c2, <1>c3, <1>c4, <1>c5, <1>c6, <1>c7 DEF TaskOK
<1>4. \A u \in Task : TaskOK(u)'
  BY <1>1, <1>2, <1>3, OneTask
<1>5. HooksInv'
  BY <1>0, <1>1 DEF HooksInv
<1>6. PromptInv'
  BY <1>0, <1>1, <1>2, PromptFrame DEF OthersAlone, Fresh, TaskTypes, Registrations
<1> QED BY <1>2, <1>4, <1>5, <1>6 DEF RelayInv

(* It goes to look up the root.                                             *)
LEMMA BeforeLooksUpStep ==
    ASSUME RelayInv, NEW t \in Task, BeforeLooksUp(t)
    PROVE  RelayInv'
<1>0. /\ TaskTypes(t) /\ StageOK(t) /\ FreshOK(t) /\ RegisteredOK(t)
      /\ DeferredOK(t) /\ RelayOK(t) /\ CompletingOK(t) /\ RawOK(t)
      /\ HooksInv /\ Shapes
  BY DEF RelayInv, TaskOK
<1>1. /\ UNCHANGED <<hooks, gone, key, materializedBySession, parentless>>
      /\ call[t].stage = "before" /\ call[t].todo # <<>> /\ text[t] = "binding"
      /\ call'[t] = [stage |-> "root", todo |-> call[t].todo]
      /\ UNCHANGED <<text, relay, reg, relays, deferred, refused>>
  BY <1>0 DEF Shapes, TaskTypes, BeforeLooksUp, InHook, instanceVars, bindings
<1>2. OthersAlone(t) /\ Shapes'
  BY <1>0, <1>1 DEF Shapes, OthersAlone, BeforeLooksUp, InHook, instanceVars, bindings
<1>c0. TaskTypes(t)'
  BY <1>0, <1>1 DEF TaskTypes, Stages
<1>c1. StageOK(t)'
  BY <1>0, <1>1 DEF StageOK
<1>c2. FreshOK(t)'
  BY <1>0, <1>1 DEF FreshOK, Fresh, Registered
<1>c3. RegisteredOK(t)'
  BY <1>0, <1>1 DEF RegisteredOK, Registered
<1>c4. DeferredOK(t)'
  BY <1>0, <1>1 DEF DeferredOK
<1>c5. RelayOK(t)'
  BY <1>0, <1>1 DEF RelayOK
<1>c6. CompletingOK(t)'
  BY <1>0, <1>1 DEF CompletingOK
<1>c7. RawOK(t)'
  BY <1>0, <1>1 DEF RawOK, Registered
<1>3. TaskOK(t)'
  BY <1>c0, <1>c1, <1>c2, <1>c3, <1>c4, <1>c5, <1>c6, <1>c7 DEF TaskOK
<1>4. \A u \in Task : TaskOK(u)'
  BY <1>1, <1>2, <1>3, OneTask
<1>5. HooksInv'
  BY <1>0, <1>1 DEF HooksInv
<1>6. PromptInv'
  BY <1>0, <1>1, <1>2, PromptFrame DEF OthersAlone, Fresh, TaskTypes, Registrations
<1> QED BY <1>2, <1>4, <1>5, <1>6 DEF RelayInv

(* It starts the relay and registers it.                                    *)
LEMMA RelayStartsStep ==
    ASSUME RelayInv, NEW t \in Task, RelayStarts(t)
    PROVE  RelayInv'
<1>0. /\ TaskTypes(t) /\ StageOK(t) /\ FreshOK(t) /\ RegisteredOK(t)
      /\ DeferredOK(t) /\ RelayOK(t) /\ CompletingOK(t) /\ RawOK(t)
      /\ HooksInv /\ Shapes
  BY DEF RelayInv, TaskOK
<1>1. /\ UNCHANGED <<hooks, gone, key, materializedBySession, parentless>>
      /\ call[t].stage = "root" /\ text[t] = "binding" /\ call[t].todo # <<>>
      /\ call'[t] = [stage |-> "prompt", todo |-> call[t].todo]
      /\ relay'[t] = NewRelay /\ reg'[t] = Registration(Head(call[t].todo))
      /\ DOMAIN relays' = DOMAIN relays \cup {t}
      /\ UNCHANGED <<text, deferred, refused>>
  BY <1>0 DEF Shapes, TaskTypes, RelayStarts, Inserted, Current, instanceVars, bindings, StageOK
<1>2. OthersAlone(t) /\ Shapes'
  BY <1>0, <1>1 DEF Shapes, OthersAlone, RelayStarts, Inserted, Current, instanceVars, bindings, StageOK
<1>c0. TaskTypes(t)'
  BY <1>0, <1>1, TodoTail DEF TaskTypes, Stages, RelayState, Registrations, NewRelay,
      Registration
<1>c1. StageOK(t)'
  BY <1>0, <1>1, TodoTail DEF StageOK, TaskTypes, RelayState, Registrations, NewRelay,
      Registration
<1>c2. FreshOK(t)'
  BY <1>0, <1>1 DEF FreshOK, Fresh, Registered
<1>c3. RegisteredOK(t)'
  BY <1>0, <1>1, TodoTail DEF RegisteredOK, Registered, FreshOK, Fresh, TaskTypes,
      Registrations, RelayState, NewRelay, Registration
<1>c4. DeferredOK(t)'
  BY <1>0, <1>1 DEF DeferredOK, FreshOK, Fresh
<1>c5. RelayOK(t)'
  BY <1>0, <1>1 DEF RelayOK, NewRelay
<1>c6. CompletingOK(t)'
  BY <1>0, <1>1 DEF CompletingOK, Registration
<1>c7. RawOK(t)'
  BY <1>0, <1>1 DEF RawOK, Registered
<1>3. TaskOK(t)'
  BY <1>c0, <1>c1, <1>c2, <1>c3, <1>c4, <1>c5, <1>c6, <1>c7 DEF TaskOK
<1>4. \A u \in Task : TaskOK(u)'
  BY <1>1, <1>2, <1>3, OneTask
<1>5. HooksInv'
  BY <1>0, <1>1 DEF HooksInv
<1>6. PromptInv'
  BY <1>0, <1>1, <1>2, PromptFrame DEF OthersAlone, Fresh, TaskTypes, Registrations,
      StageOK, Registration
<1> QED BY <1>2, <1>4, <1>5, <1>6 DEF RelayInv

(* The prompt arrives.                                                      *)
LEMMA ProviderPromptStep ==
    ASSUME RelayInv, NEW t \in Task, ProviderPrompt(t)
    PROVE  RelayInv'
<1>0. /\ TaskTypes(t) /\ StageOK(t) /\ FreshOK(t) /\ RegisteredOK(t)
      /\ DeferredOK(t) /\ RelayOK(t) /\ CompletingOK(t) /\ RawOK(t)
      /\ HooksInv /\ Shapes
  BY DEF RelayInv, TaskOK
<1>1. /\ UNCHANGED <<hooks, gone, key, materializedBySession, parentless>>
      /\ relay[t] \in RelayState /\ reg[t] \in Registrations
      /\ relay[t] # None /\ ~relay[t].closed
      /\ call[t].stage = "prompt" /\ call[t].todo # <<>>
      /\ call'[t] = [stage |-> "before", todo |-> Tail(call[t].todo)] /\ text'[t] = "prompt"
      /\ relay'[t] \in RelayState /\ relay'[t].promptSeen = TRUE
      /\ relay'[t].resultSeen = relay[t].resultSeen /\ relay'[t].sent = relay[t].sent
      /\ reg'[t] \in Registrations /\ reg'[t].owner = reg[t].owner
      /\ reg'[t].child = reg[t].child
      /\ reg'[t].completing = reg[t].completing
      /\ UNCHANGED <<relays, deferred, refused>>
  BY <1>0, RelayFields, RegistrationFields DEF Shapes, TaskTypes, ProviderPrompt, Open,
      Returned, instanceVars, bindings, StageOK, RelayOK
<1>2. OthersAlone(t) /\ Shapes'
  BY <1>0, <1>1 DEF Shapes, OthersAlone, ProviderPrompt, Open, Returned, instanceVars, bindings,
      StageOK, RelayOK
<1>c0. TaskTypes(t)'
  BY <1>0, <1>1, TodoTail DEF TaskTypes, Stages, Texts
<1>c1. StageOK(t)'
  BY <1>0, <1>1 DEF StageOK
<1>c2. FreshOK(t)'
  BY <1>0, <1>1 DEF FreshOK, Fresh, Registered
<1>c3. RegisteredOK(t)'
  BY <1>0, <1>1 DEF RegisteredOK, Registered
<1>c4. DeferredOK(t)'
  BY <1>0, <1>1 DEF DeferredOK
<1>c5. RelayOK(t)'
  BY <1>0, <1>1 DEF RelayOK
<1>c6. CompletingOK(t)'
  BY <1>0, <1>1 DEF CompletingOK
<1>c7. RawOK(t)'
  BY <1>0, <1>1 DEF RawOK, Registered
<1>3. TaskOK(t)'
  BY <1>c0, <1>c1, <1>c2, <1>c3, <1>c4, <1>c5, <1>c6, <1>c7 DEF TaskOK
<1>4. \A u \in Task : TaskOK(u)'
  BY <1>1, <1>2, <1>3, OneTask
<1>5. HooksInv'
  BY <1>0, <1>1 DEF HooksInv
<1>6. PromptInv'
  BY <1>0, <1>1, <1>2, PromptFrame DEF OthersAlone, Fresh
<1> QED BY <1>2, <1>4, <1>5, <1>6 DEF RelayInv

(* A refused Task ends.                                                     *)
LEMMA TaskRefusedStep ==
    ASSUME RelayInv, NEW t \in Task, TaskRefused(t)
    PROVE  RelayInv'
<1>0. /\ TaskTypes(t) /\ StageOK(t) /\ FreshOK(t) /\ RegisteredOK(t)
      /\ DeferredOK(t) /\ RelayOK(t) /\ CompletingOK(t) /\ RawOK(t)
      /\ HooksInv /\ Shapes
  BY DEF RelayInv, TaskOK
<1>1. /\ UNCHANGED <<hooks, gone, key, materializedBySession, parentless>>
      /\ call[t].stage = "before" /\ text'[t] = "refusal"
      /\ call'[t] = [stage |-> "done", todo |-> <<>>]
      /\ UNCHANGED <<relay, reg, relays, deferred, refused>>
  BY <1>0 DEF Shapes, TaskTypes, TaskRefused, Ended, instanceVars, bindings
<1>2. OthersAlone(t) /\ Shapes'
  BY <1>0, <1>1 DEF Shapes, OthersAlone, TaskRefused, Ended, instanceVars, bindings
<1>c0. TaskTypes(t)'
  BY <1>0, <1>1 DEF TaskTypes, Stages, Texts
<1>c1. StageOK(t)'
  BY <1>0, <1>1 DEF StageOK
<1>c2. FreshOK(t)'
  BY <1>0, <1>1 DEF FreshOK, Fresh, Registered
<1>c3. RegisteredOK(t)'
  BY <1>0, <1>1 DEF RegisteredOK, Registered
<1>c4. DeferredOK(t)'
  BY <1>0, <1>1 DEF DeferredOK
<1>c5. RelayOK(t)'
  BY <1>0, <1>1 DEF RelayOK
<1>c6. CompletingOK(t)'
  BY <1>0, <1>1 DEF CompletingOK
<1>c7. RawOK(t)'
  BY <1>0, <1>1 DEF RawOK, Registered
<1>3. TaskOK(t)'
  BY <1>c0, <1>c1, <1>c2, <1>c3, <1>c4, <1>c5, <1>c6, <1>c7 DEF TaskOK
<1>4. \A u \in Task : TaskOK(u)'
  BY <1>1, <1>2, <1>3, OneTask
<1>5. HooksInv'
  BY <1>0, <1>1 DEF HooksInv
<1>6. PromptInv'
  BY <1>0, <1>1, <1>2, PromptFrame DEF OthersAlone, Fresh, TaskTypes, Registrations
<1> QED BY <1>2, <1>4, <1>5, <1>6 DEF RelayInv

-----------------------------------------------------------------------------
(* The after hooks *)

(* The child's words go to the after hooks of the loaded instances.         *)
LEMMA ChildAnswersStep ==
    ASSUME RelayInv, NEW t \in Task, ChildAnswers(t)
    PROVE  RelayInv'
<1>0. /\ TaskTypes(t) /\ StageOK(t) /\ FreshOK(t) /\ RegisteredOK(t)
      /\ DeferredOK(t) /\ RelayOK(t) /\ CompletingOK(t) /\ RawOK(t)
      /\ HooksInv /\ Shapes
  BY DEF RelayInv, TaskOK
<1>1. /\ UNCHANGED <<hooks, gone, key, materializedBySession, parentless>>
      /\ call[t].stage = "running" /\ call'[t] = [stage |-> "after", todo |-> hooks]
      /\ text'[t] = "raw"
      /\ UNCHANGED <<relay, reg, relays, deferred, refused>>
  BY <1>0 DEF Shapes, TaskTypes, ChildAnswers, instanceVars, bindings
<1>2. OthersAlone(t) /\ Shapes'
  BY <1>0, <1>1 DEF Shapes, OthersAlone, ChildAnswers, instanceVars, bindings
<1>c0. TaskTypes(t)'
  BY <1>0, <1>1 DEF TaskTypes, HooksInv, Stages, Texts
<1>c1. StageOK(t)'
  BY <1>0, <1>1 DEF StageOK
<1>c2. FreshOK(t)'
  BY <1>0, <1>1 DEF FreshOK, Fresh, Registered
<1>c3. RegisteredOK(t)'
  BY <1>0, <1>1 DEF RegisteredOK, Registered, HooksInv, Contains
<1>c4. DeferredOK(t)'
  BY <1>0, <1>1 DEF DeferredOK
<1>c5. RelayOK(t)'
  BY <1>0, <1>1 DEF RelayOK
<1>c6. CompletingOK(t)'
  BY <1>0, <1>1 DEF CompletingOK
<1>c7. RawOK(t)'
  BY <1>0, <1>1 DEF RawOK, Registered, HooksInv
<1>3. TaskOK(t)'
  BY <1>c0, <1>c1, <1>c2, <1>c3, <1>c4, <1>c5, <1>c6, <1>c7 DEF TaskOK
<1>4. \A u \in Task : TaskOK(u)'
  BY <1>1, <1>2, <1>3, OneTask
<1>5. HooksInv'
  BY <1>0, <1>1 DEF HooksInv
<1>6. PromptInv'
  BY <1>0, <1>1, <1>2, PromptFrame DEF OthersAlone, Fresh, TaskTypes, Registrations
<1> QED BY <1>2, <1>4, <1>5, <1>6 DEF RelayInv

(* A cancelled Task ends.                                                   *)
LEMMA TaskAbortedStep ==
    ASSUME RelayInv, NEW t \in Task, TaskAborted(t)
    PROVE  RelayInv'
<1>0. /\ TaskTypes(t) /\ StageOK(t) /\ FreshOK(t) /\ RegisteredOK(t)
      /\ DeferredOK(t) /\ RelayOK(t) /\ CompletingOK(t) /\ RawOK(t)
      /\ HooksInv /\ Shapes
  BY DEF RelayInv, TaskOK
<1>1. /\ UNCHANGED <<hooks, gone, key, materializedBySession, parentless>>
      /\ call[t].stage = "running" /\ call'[t] = [stage |-> "done", todo |-> <<>>]
      /\ text'[t] = "error"
      /\ UNCHANGED <<relay, reg, relays, deferred, refused>>
  BY <1>0 DEF Shapes, TaskTypes, TaskAborted, Ended, instanceVars, bindings
<1>2. OthersAlone(t) /\ Shapes'
  BY <1>0, <1>1 DEF Shapes, OthersAlone, TaskAborted, Ended, instanceVars, bindings
<1>c0. TaskTypes(t)'
  BY <1>0, <1>1 DEF TaskTypes, Stages, Texts
<1>c1. StageOK(t)'
  BY <1>0, <1>1 DEF StageOK
<1>c2. FreshOK(t)'
  BY <1>0, <1>1 DEF FreshOK, Fresh, Registered
<1>c3. RegisteredOK(t)'
  BY <1>0, <1>1 DEF RegisteredOK, Registered
<1>c4. DeferredOK(t)'
  BY <1>0, <1>1 DEF DeferredOK
<1>c5. RelayOK(t)'
  BY <1>0, <1>1 DEF RelayOK
<1>c6. CompletingOK(t)'
  BY <1>0, <1>1 DEF CompletingOK
<1>c7. RawOK(t)'
  BY <1>0, <1>1 DEF RawOK, Registered
<1>3. TaskOK(t)'
  BY <1>c0, <1>c1, <1>c2, <1>c3, <1>c4, <1>c5, <1>c6, <1>c7 DEF TaskOK
<1>4. \A u \in Task : TaskOK(u)'
  BY <1>1, <1>2, <1>3, OneTask
<1>5. HooksInv'
  BY <1>0, <1>1 DEF HooksInv
<1>6. PromptInv'
  BY <1>0, <1>1, <1>2, PromptFrame DEF OthersAlone, Fresh, TaskTypes, Registrations
<1> QED BY <1>2, <1>4, <1>5, <1>6 DEF RelayInv

(* The instance has left the Task to its owner.                             *)
LEMMA AfterPassesStep ==
    ASSUME RelayInv, NEW t \in Task, AfterPasses(t)
    PROVE  RelayInv'
<1>0. /\ TaskTypes(t) /\ StageOK(t) /\ FreshOK(t) /\ RegisteredOK(t)
      /\ DeferredOK(t) /\ RelayOK(t) /\ CompletingOK(t) /\ RawOK(t)
      /\ HooksInv /\ Shapes
  BY DEF RelayInv, TaskOK
<1>1. /\ UNCHANGED <<hooks, gone, key, materializedBySession, parentless>>
      /\ call[t].stage = "after" /\ call[t].todo # <<>>
      /\ call'[t] = [stage |-> "after", todo |-> Tail(call[t].todo)]
      /\ OwnerDelivers(Head(call[t].todo), t)
      /\ \A i \in Instance : t \in deferred'[i] => t \in deferred[i]
      /\ UNCHANGED <<text, relay, reg, relays, refused>>
  BY <1>0 DEF Shapes, TaskTypes, bindings, AfterPasses, Returned, InHook, Current
<1>2. OthersAlone(t) /\ Shapes'
  BY <1>0, <1>1 DEF Shapes, OthersAlone, bindings, AfterPasses, Returned, InHook, Current
<1>c0. TaskTypes(t)'
  BY <1>0, <1>1, TodoTail DEF TaskTypes, Stages
<1>c1. StageOK(t)'
  BY <1>0, <1>1 DEF StageOK
<1>c2. FreshOK(t)'
  BY <1>0, <1>1 DEF FreshOK, Fresh, Registered
<1>c3. RegisteredOK(t)'
  <2> SUFFICES ASSUME Registered(t)
               PROVE  /\ reg[t] \in Registrations /\ relay[t] \in RelayState
                      /\ reg[t].owner \in gone \cup {Head(hooks)}
                      /\ \A i \in Instance : t \notin refused[i]
                      /\ text'[t] # "result"
                      /\ reg[t].owner \in gone /\ ~Contains(Tail(call[t].todo), reg[t].owner)
    BY <1>1 DEF RegisteredOK, Registered
  <2>1. ~(text[t] = "raw" /\ Head(call[t].todo) = reg[t].owner)
    BY <1>0, <1>1, TodoTail DEF DeferredOK, OwnerDelivers, TaskTypes
  <2> QED BY <1>0, <1>1, <2>1, TodoTail DEF RegisteredOK, TaskTypes
<1>c4. DeferredOK(t)'
  BY <1>0, <1>1 DEF DeferredOK
<1>c5. RelayOK(t)'
  BY <1>0, <1>1 DEF RelayOK
<1>c6. CompletingOK(t)'
  BY <1>0, <1>1 DEF CompletingOK
<1>c7. RawOK(t)'
  <2> SUFFICES ASSUME text[t] = "raw", ~Registered(t) PROVE FALSE
    BY <1>1 DEF RawOK, Registered
  <2> QED BY <1>0, <1>1, TodoTail DEF DeferredOK, OwnerDelivers, CompletingOK, TaskTypes
<1>3. TaskOK(t)'
  BY <1>c0, <1>c1, <1>c2, <1>c3, <1>c4, <1>c5, <1>c6, <1>c7 DEF TaskOK
<1>4. \A u \in Task : TaskOK(u)'
  BY <1>1, <1>2, <1>3, OneTask
<1>5. HooksInv'
  BY <1>0, <1>1 DEF HooksInv
<1>6. PromptInv'
  BY <1>0, <1>1, <1>2, PromptFrame DEF OthersAlone, Fresh, TaskTypes, Registrations
<1> QED BY <1>2, <1>4, <1>5, <1>6 DEF RelayInv

(* The hook refuses what the child has said.                                *)
LEMMA AfterRefusesStep ==
    ASSUME RelayInv, NEW t \in Task, AfterRefuses(t)
    PROVE  RelayInv'
<1>0. /\ TaskTypes(t) /\ StageOK(t) /\ FreshOK(t) /\ RegisteredOK(t)
      /\ DeferredOK(t) /\ RelayOK(t) /\ CompletingOK(t) /\ RawOK(t)
      /\ HooksInv /\ Shapes
  BY DEF RelayInv, TaskOK
<1>1. /\ UNCHANGED <<hooks, gone, key, materializedBySession, parentless>>
      /\ call[t].stage = "after" /\ call[t].todo # <<>>
      /\ call'[t] = [stage |-> "after", todo |-> Tail(call[t].todo)]
      /\ text'[t] = "refusal"
      /\ t \in refused[Head(call[t].todo)] \/ ~Completes(Head(call[t].todo), t)
      /\ \A i \in Instance : t \in deferred'[i] => t \in deferred[i]
      /\ \A i \in Instance : t \in refused'[i] => t \in refused[i]
      /\ UNCHANGED <<relay, reg, relays>>
  BY <1>0 DEF Shapes, TaskTypes, bindings, AfterRefuses, Returned, InHook, Current
<1>2. OthersAlone(t) /\ Shapes'
  BY <1>0, <1>1 DEF Shapes, OthersAlone, bindings, AfterRefuses, Returned, InHook, Current
<1>c0. TaskTypes(t)'
  BY <1>0, <1>1, TodoTail DEF TaskTypes, Stages, Texts
<1>c1. StageOK(t)'
  BY <1>0, <1>1 DEF StageOK
<1>c2. FreshOK(t)'
  BY <1>0, <1>1 DEF FreshOK, Fresh, Registered
<1>c3. RegisteredOK(t)'
  <2> SUFFICES ASSUME Registered(t)
               PROVE  reg[t].owner \in gone /\ ~Contains(Tail(call[t].todo), reg[t].owner)
    BY <1>0, <1>1 DEF RegisteredOK, Registered
  <2>1. ~(text[t] = "raw" /\ Head(call[t].todo) = reg[t].owner)
    BY <1>0, <1>1, TodoTail DEF RegisteredOK, CompletingOK, Completes, TaskTypes
  <2> QED BY <1>0, <1>1, <2>1, TodoTail DEF RegisteredOK, TaskTypes
<1>c4. DeferredOK(t)'
  BY <1>0, <1>1 DEF DeferredOK
<1>c5. RelayOK(t)'
  BY <1>0, <1>1 DEF RelayOK
<1>c6. CompletingOK(t)'
  BY <1>0, <1>1 DEF CompletingOK
<1>c7. RawOK(t)'
  BY <1>0, <1>1 DEF RawOK, Registered
<1>3. TaskOK(t)'
  BY <1>c0, <1>c1, <1>c2, <1>c3, <1>c4, <1>c5, <1>c6, <1>c7 DEF TaskOK
<1>4. \A u \in Task : TaskOK(u)'
  BY <1>1, <1>2, <1>3, OneTask
<1>5. HooksInv'
  BY <1>0, <1>1 DEF HooksInv
<1>6. PromptInv'
  BY <1>0, <1>1, <1>2, PromptFrame DEF OthersAlone, Fresh, TaskTypes, Registrations
<1> QED BY <1>2, <1>4, <1>5, <1>6 DEF RelayInv

(* The Task returns.                                                        *)
LEMMA DeliveredStep ==
    ASSUME RelayInv, NEW t \in Task, Delivered(t)
    PROVE  RelayInv'
<1>0. /\ TaskTypes(t) /\ StageOK(t) /\ FreshOK(t) /\ RegisteredOK(t)
      /\ DeferredOK(t) /\ RelayOK(t) /\ CompletingOK(t) /\ RawOK(t)
      /\ HooksInv /\ Shapes
  BY DEF RelayInv, TaskOK
<1>1. /\ UNCHANGED <<hooks, gone, key, materializedBySession, parentless>>
      /\ call[t].stage = "after" /\ call[t].todo = <<>>
      /\ call'[t] = [stage |-> "done", todo |-> <<>>]
      /\ UNCHANGED <<text, relay, reg, relays, deferred, refused>>
  BY <1>0 DEF Shapes, TaskTypes, Delivered, Ended, instanceVars, bindings
<1>2. OthersAlone(t) /\ Shapes'
  BY <1>0, <1>1 DEF Shapes, OthersAlone, Delivered, Ended, instanceVars, bindings
<1>c0. TaskTypes(t)'
  BY <1>0, <1>1 DEF TaskTypes, Stages
<1>c1. StageOK(t)'
  BY <1>0, <1>1 DEF StageOK
<1>c2. FreshOK(t)'
  BY <1>0, <1>1 DEF FreshOK, Fresh, Registered
<1>c3. RegisteredOK(t)'
  BY <1>0, <1>1 DEF RegisteredOK, Registered
<1>c4. DeferredOK(t)'
  BY <1>0, <1>1 DEF DeferredOK
<1>c5. RelayOK(t)'
  BY <1>0, <1>1 DEF RelayOK
<1>c6. CompletingOK(t)'
  BY <1>0, <1>1 DEF CompletingOK
<1>c7. RawOK(t)'
  BY <1>0, <1>1 DEF RawOK, Registered, StageOK, RegisteredOK
<1>3. TaskOK(t)'
  BY <1>c0, <1>c1, <1>c2, <1>c3, <1>c4, <1>c5, <1>c6, <1>c7 DEF TaskOK
<1>4. \A u \in Task : TaskOK(u)'
  BY <1>1, <1>2, <1>3, OneTask
<1>5. HooksInv'
  BY <1>0, <1>1 DEF HooksInv
<1>6. PromptInv'
  BY <1>0, <1>1, <1>2, PromptFrame DEF OthersAlone, Fresh, TaskTypes, Registrations
<1> QED BY <1>2, <1>4, <1>5, <1>6 DEF RelayInv

(* The owner sends the child's words to the provider.                       *)
LEMMA AfterCompletesOpenStep ==
    ASSUME RelayInv, NEW t \in Task, AfterCompletes(t), Open(t)
    PROVE  RelayInv'
<1>0. /\ TaskTypes(t) /\ StageOK(t) /\ FreshOK(t) /\ RegisteredOK(t)
      /\ DeferredOK(t) /\ RelayOK(t) /\ CompletingOK(t) /\ RawOK(t)
      /\ HooksInv /\ Shapes
  BY DEF RelayInv, TaskOK
<1>b. /\ call[t].stage = "after" /\ text[t] = "raw" /\ call[t].todo # <<>>
      /\ relay[t] # None /\ ~relay[t].closed
      /\ relay[t] \in RelayState /\ reg[t] \in Registrations
  BY <1>0, TodoTail DEF AfterCompletes, InHook, Current, Completes, Open, RegisteredOK,
                        Registered, TaskTypes, Texts
<1>c. /\ relay'[t] = [relay[t] EXCEPT !.sent = "raw"]
      /\ reg'[t] = [reg[t] EXCEPT !.completing = TRUE]
  BY <1>0, <1>b DEF AfterCompletes, Shapes
<1>a. /\ call[t].stage = "after" /\ text[t] = "raw" /\ call[t].todo # <<>>
      /\ relay[t] # None /\ ~relay[t].closed /\ reg[t] \in Registrations
      /\ relay'[t] \in RelayState /\ relay'[t].sent = "raw"
      /\ relay'[t].promptSeen = relay[t].promptSeen
      /\ reg'[t] \in Registrations /\ reg'[t].owner = reg[t].owner
      /\ reg'[t].child = reg[t].child
  <2>1. /\ relay'[t] \in RelayState /\ relay'[t].sent = "raw"
        /\ relay'[t].promptSeen = relay[t].promptSeen
    BY <1>b, <1>c DEF RelayState, Texts
  <2>2. reg'[t] \in Registrations /\ reg'[t].owner = reg[t].owner /\ reg'[t].child = reg[t].child
    BY <1>b, <1>c, RegistrationFields
  <2> QED BY <1>b, <2>1, <2>2
<1>1. /\ UNCHANGED <<hooks, gone, key, materializedBySession, parentless>>
      /\ call[t].stage = "after" /\ text[t] = "raw" /\ call[t].todo # <<>>
      /\ relay[t] # None /\ ~relay[t].closed /\ reg[t] \in Registrations
      /\ call'[t] = [stage |-> "result", todo |-> call[t].todo]
      /\ relay'[t] \in RelayState /\ relay'[t].sent = "raw"
      /\ relay'[t].promptSeen = relay[t].promptSeen
      /\ reg'[t] \in Registrations /\ reg'[t].owner = reg[t].owner
      /\ reg'[t].child = reg[t].child
      /\ UNCHANGED <<text, relays, deferred, refused>>
  BY <1>0, <1>a DEF Shapes, TaskTypes, AfterCompletes, instanceVars, bindings
<1>2. OthersAlone(t) /\ Shapes'
  BY <1>0, <1>a, <1>1 DEF Shapes, OthersAlone, AfterCompletes, instanceVars, bindings
<1>c0. TaskTypes(t)'
  BY <1>0, <1>1 DEF TaskTypes, Stages
<1>c1. StageOK(t)'
  BY <1>0, <1>1 DEF StageOK
<1>c2. FreshOK(t)'
  BY <1>0, <1>1 DEF FreshOK, Fresh, Registered
<1>c3. RegisteredOK(t)'
  BY <1>0, <1>1 DEF RegisteredOK, Registered
<1>c4. DeferredOK(t)'
  BY <1>0, <1>1 DEF DeferredOK
<1>c5. RelayOK(t)'
  BY <1>0, <1>1 DEF RelayOK
<1>c6. CompletingOK(t)'
  BY <1>0, <1>1 DEF CompletingOK
<1>c7. RawOK(t)'
  BY <1>0, <1>1 DEF RawOK, Registered
<1>3. TaskOK(t)'
  BY <1>c0, <1>c1, <1>c2, <1>c3, <1>c4, <1>c5, <1>c6, <1>c7 DEF TaskOK
<1>4. \A u \in Task : TaskOK(u)'
  BY <1>1, <1>2, <1>3, OneTask
<1>5. HooksInv'
  BY <1>0, <1>1 DEF HooksInv
<1>6. PromptInv'
  BY <1>0, <1>1, <1>2, PromptFrame DEF OthersAlone, Fresh
<1> QED BY <1>2, <1>4, <1>5, <1>6 DEF RelayInv

(* The result frame is held back.                                           *)
LEMMA ProviderResultStep ==
    ASSUME RelayInv, NEW t \in Task, ProviderResult(t)
    PROVE  RelayInv'
<1>0. /\ TaskTypes(t) /\ StageOK(t) /\ FreshOK(t) /\ RegisteredOK(t)
      /\ DeferredOK(t) /\ RelayOK(t) /\ CompletingOK(t) /\ RawOK(t)
      /\ HooksInv /\ Shapes
  BY DEF RelayInv, TaskOK
<1>1. /\ UNCHANGED <<hooks, gone, key, materializedBySession, parentless>>
      /\ relay[t] \in RelayState /\ relay[t] # None /\ ~relay[t].closed
      /\ call[t].stage = "result" /\ relay[t].sent = "raw"
      /\ relay'[t] \in RelayState /\ relay'[t].sent = "raw"
      /\ relay'[t].promptSeen = relay[t].promptSeen
      /\ UNCHANGED <<call, text, reg, relays, deferred, refused>>
  BY <1>0, RelayFields DEF Shapes, TaskTypes, ProviderResult, Open, instanceVars, bindings, RelayOK
<1>2. OthersAlone(t) /\ Shapes'
  BY <1>0, <1>1 DEF Shapes, OthersAlone, ProviderResult, Open, instanceVars, bindings, RelayOK
<1>c0. TaskTypes(t)'
  BY <1>0, <1>1 DEF TaskTypes
<1>c1. StageOK(t)'
  BY <1>0, <1>1 DEF StageOK
<1>c2. FreshOK(t)'
  BY <1>0, <1>1 DEF FreshOK, Fresh, Registered
<1>c3. RegisteredOK(t)'
  BY <1>0, <1>1 DEF RegisteredOK, Registered
<1>c4. DeferredOK(t)'
  BY <1>0, <1>1 DEF DeferredOK
<1>c5. RelayOK(t)'
  BY <1>0, <1>1 DEF RelayOK
<1>c6. CompletingOK(t)'
  BY <1>0, <1>1 DEF CompletingOK
<1>c7. RawOK(t)'
  BY <1>0, <1>1 DEF RawOK, Registered
<1>3. TaskOK(t)'
  BY <1>c0, <1>c1, <1>c2, <1>c3, <1>c4, <1>c5, <1>c6, <1>c7 DEF TaskOK
<1>4. \A u \in Task : TaskOK(u)'
  BY <1>1, <1>2, <1>3, OneTask
<1>5. HooksInv'
  BY <1>0, <1>1 DEF HooksInv
<1>6. PromptInv'
  BY <1>0, <1>1, <1>2, PromptFrame DEF OthersAlone, Fresh
<1> QED BY <1>2, <1>4, <1>5, <1>6 DEF RelayInv

(* The result is delivered.                                                 *)
LEMMA ChildClosesStep ==
    ASSUME RelayInv, NEW t \in Task, ChildCloses(t)
    PROVE  RelayInv'
<1>0. /\ TaskTypes(t) /\ StageOK(t) /\ FreshOK(t) /\ RegisteredOK(t)
      /\ DeferredOK(t) /\ RelayOK(t) /\ CompletingOK(t) /\ RawOK(t)
      /\ HooksInv /\ Shapes
  BY DEF RelayInv, TaskOK
<1>1. /\ UNCHANGED <<hooks, gone, key, materializedBySession, parentless>>
      /\ relay[t] \in RelayState
      /\ call[t].stage = "result" /\ call[t].todo # <<>>
      /\ relay'[t] \in RelayState /\ relay'[t].closed = TRUE /\ relay'[t].sent = "raw"
      /\ call'[t] = [stage |-> "after", todo |-> Tail(call[t].todo)] /\ text'[t] = "result"
      /\ DOMAIN relays' = DOMAIN relays \ {t}
      /\ UNCHANGED <<reg, deferred, refused>>
  BY <1>0, RelayFields DEF Shapes, TaskTypes, ChildCloses, Open, Returned, Deleted,
      instanceVars, bindings, RelayOK, StageOK
<1>2. OthersAlone(t) /\ Shapes'
  BY <1>0, <1>1 DEF Shapes, OthersAlone, ChildCloses, Open, Returned, Deleted,
      instanceVars, bindings, RelayOK, StageOK
<1>c0. TaskTypes(t)'
  BY <1>0, <1>1, TodoTail DEF TaskTypes, Stages, Texts
<1>c1. StageOK(t)'
  BY <1>0, <1>1 DEF StageOK
<1>c2. FreshOK(t)'
  BY <1>0, <1>1 DEF FreshOK, Fresh, Registered
<1>c3. RegisteredOK(t)'
  BY <1>0, <1>1 DEF RegisteredOK, Registered
<1>c4. DeferredOK(t)'
  BY <1>0, <1>1 DEF DeferredOK
<1>c5. RelayOK(t)'
  BY <1>0, <1>1 DEF RelayOK
<1>c6. CompletingOK(t)'
  BY <1>0, <1>1 DEF CompletingOK
<1>c7. RawOK(t)'
  BY <1>0, <1>1 DEF RawOK, Registered
<1>3. TaskOK(t)'
  BY <1>c0, <1>c1, <1>c2, <1>c3, <1>c4, <1>c5, <1>c6, <1>c7 DEF TaskOK
<1>4. \A u \in Task : TaskOK(u)'
  BY <1>1, <1>2, <1>3, OneTask
<1>5. HooksInv'
  BY <1>0, <1>1 DEF HooksInv
<1>6. PromptInv'
  BY <1>0, <1>1, <1>2, PromptFrame DEF OthersAlone, Fresh
<1> QED BY <1>2, <1>4, <1>5, <1>6 DEF RelayInv

(* The relay has failed meanwhile.                                          *)
LEMMA AfterCompletesClosedStep ==
    ASSUME RelayInv, NEW t \in Task, AfterCompletes(t), ~Open(t)
    PROVE  RelayInv'
<1>0. /\ TaskTypes(t) /\ StageOK(t) /\ FreshOK(t) /\ RegisteredOK(t)
      /\ DeferredOK(t) /\ RelayOK(t) /\ CompletingOK(t) /\ RawOK(t)
      /\ HooksInv /\ Shapes
  BY DEF RelayInv, TaskOK
<1>b. call[t].stage = "after" /\ reg[t] \in Registrations
  BY <1>0 DEF AfterCompletes, InHook, Completes, RegisteredOK
<1>c. reg'[t] = [reg[t] EXCEPT !.completing = TRUE]
  BY <1>0, <1>b DEF AfterCompletes, Shapes
<1>a. /\ call[t].stage = "after" /\ reg[t] \in Registrations
      /\ reg'[t] \in Registrations /\ reg'[t].owner = reg[t].owner
      /\ reg'[t].child = reg[t].child
  BY <1>b, <1>c, RegistrationFields
<1>1. /\ UNCHANGED <<hooks, gone, key, materializedBySession, parentless>>
      /\ call[t].stage = "after" /\ reg[t] \in Registrations
      /\ call'[t] = [stage |-> "done", todo |-> <<>>] /\ text'[t] = "error"
      /\ reg'[t] \in Registrations /\ reg'[t].owner = reg[t].owner
      /\ reg'[t].child = reg[t].child
      /\ DOMAIN relays' = DOMAIN relays \ {t}
      /\ UNCHANGED <<relay, deferred, refused>>
  BY <1>0, <1>a DEF Shapes, TaskTypes, AfterCompletes, Ended, Deleted, instanceVars, bindings
<1>2. OthersAlone(t) /\ Shapes'
  BY <1>0, <1>a, <1>1 DEF Shapes, OthersAlone, AfterCompletes, Ended, Deleted, instanceVars, bindings
<1>c0. TaskTypes(t)'
  BY <1>0, <1>1 DEF TaskTypes, Stages, Texts
<1>c1. StageOK(t)'
  BY <1>0, <1>1 DEF StageOK
<1>c2. FreshOK(t)'
  BY <1>0, <1>1 DEF FreshOK, Fresh, Registered
<1>c3. RegisteredOK(t)'
  BY <1>0, <1>1 DEF RegisteredOK, Registered
<1>c4. DeferredOK(t)'
  BY <1>0, <1>1 DEF DeferredOK
<1>c5. RelayOK(t)'
  BY <1>0, <1>1 DEF RelayOK, StageOK
<1>c6. CompletingOK(t)'
  BY <1>0, <1>1 DEF CompletingOK
<1>c7. RawOK(t)'
  BY <1>0, <1>1 DEF RawOK, Registered
<1>3. TaskOK(t)'
  BY <1>c0, <1>c1, <1>c2, <1>c3, <1>c4, <1>c5, <1>c6, <1>c7 DEF TaskOK
<1>4. \A u \in Task : TaskOK(u)'
  BY <1>1, <1>2, <1>3, OneTask
<1>5. HooksInv'
  BY <1>0, <1>1 DEF HooksInv
<1>6. PromptInv'
  BY <1>0, <1>1, <1>2, PromptFrame DEF OthersAlone, Fresh
<1> QED BY <1>2, <1>4, <1>5, <1>6 DEF RelayInv

-----------------------------------------------------------------------------
(* The children *)

(* The prompt of the first registration that fits goes to the child.        *)
LEMMA LaunchStep ==
    ASSUME RelayInv, NEW t \in Task, Launch(t), None \notin Task
    PROVE  RelayInv'
<1>0. /\ \A u \in Task : TaskOK(u) /\ TaskTypes(u) /\ RegisteredOK(u)
      /\ HooksInv /\ Shapes /\ PromptInv
  BY DEF RelayInv, TaskOK
<1>o. PICK orphan \in BOOLEAN : \E b \in BoundTo(t, orphan) :
         /\ reg' = IF b = None THEN reg ELSE [reg EXCEPT ![b].child = t]
         /\ materializedBySession' =
              [i \in Instance |-> IF Contains(hooks, i)
                                  THEN [materializedBySession[i] EXCEPT ![t] = b]
                                  ELSE materializedBySession[i]]
         /\ parentless' = IF orphan /\ b # None THEN parentless \cup {t} ELSE parentless
  BY DEF Launch
<1>1. PICK b \in BoundTo(t, orphan) :
         /\ reg' = IF b = None THEN reg ELSE [reg EXCEPT ![b].child = t]
         /\ materializedBySession' =
              [i \in Instance |-> IF Contains(hooks, i)
                                  THEN [materializedBySession[i] EXCEPT ![t] = b]
                                  ELSE materializedBySession[i]]
         /\ parentless' = IF orphan /\ b # None THEN parentless \cup {t} ELSE parentless
  BY <1>o
<1>2. b # None => /\ b \in Task /\ Registered(b) /\ reg[b] \in Registrations
                  /\ reg[b].child = None /\ key[b][2] = key[t][2]
                  /\ t \notin parentless' => key[b][1] = key[t][1]
  BY <1>0, <1>1 DEF BoundTo, Binds, RegisteredOK, Registered, Shapes
<1>3. /\ call[t].stage = "before" /\ call[t].todo = <<>>
      /\ call' = [call EXCEPT ![t].stage = "running"]
      /\ UNCHANGED <<hooks, gone, key, relays, relay, deferred, refused, text>>
  BY DEF Launch
<1>4. call'[t] = [stage |-> "running", todo |-> <<>>] /\ \A u \in Task \ {t} : call'[u] = call[u]
  BY <1>0, <1>3 DEF Shapes, TaskTypes
<1>5. \A u \in Task : \/ reg'[u] = reg[u]
                      \/ /\ u = b /\ b # None
                         /\ reg[u] \in Registrations /\ reg'[u] \in Registrations
                         /\ reg'[u].owner = reg[u].owner /\ reg'[u].child = t
                         /\ reg'[u].completing = reg[u].completing
  <2>1. CASE b = None
    BY <1>1, <2>1
  <2>2. CASE b # None
    <3>1. reg'[b] = [reg[b] EXCEPT !.child = t] /\ \A u \in Task \ {b} : reg'[u] = reg[u]
      BY <1>0, <1>1, <1>2, <2>2 DEF Shapes
    <3>2. /\ reg'[b] \in Registrations /\ reg'[b].owner = reg[b].owner /\ reg'[b].child = t
          /\ reg'[b].completing = reg[b].completing
      BY <1>2, <2>2, <3>1 DEF Registrations
    <3> QED BY <1>2, <2>2, <3>1, <3>2
  <2> QED BY <2>1, <2>2
<1>b. b # None => reg'[b] \in Registrations /\ reg'[b].child = t
  <2> SUFFICES ASSUME b # None PROVE reg'[b] \in Registrations /\ reg'[b].child = t
    OBVIOUS
  <2>1. reg'[b] = [reg[b] EXCEPT !.child = t]
    BY <1>0, <1>1, <1>2 DEF Shapes
  <2> QED BY <1>2, <2>1 DEF Registrations
<1>6. Shapes'
  BY <1>0, <1>1, <1>3 DEF Shapes
<1>7. ASSUME NEW u \in Task PROVE TaskOK(u)'
  <2>0. /\ TaskTypes(u) /\ StageOK(u) /\ FreshOK(u) /\ RegisteredOK(u)
        /\ DeferredOK(u) /\ RelayOK(u) /\ CompletingOK(u) /\ RawOK(u)
    BY <1>0 DEF TaskOK
  <2>1. /\ call'[u].todo = call[u].todo
        /\ \/ call'[u] = call[u]
           \/ u = t /\ call[u].stage = "before" /\ call'[u].stage = "running"
        /\ call'[u] \in [stage : Stages, todo : Seq(Instance)]
    BY <1>3, <1>4, <2>0 DEF TaskTypes, Stages
  <2>2. TaskTypes(u)'
    BY <1>3, <1>5, <2>0, <2>1 DEF TaskTypes
  <2>3. StageOK(u)' /\ DeferredOK(u)' /\ RelayOK(u)' /\ CompletingOK(u)'
    BY <1>3, <1>5, <2>0, <2>1 DEF StageOK, DeferredOK, RelayOK, CompletingOK
  <2>4. FreshOK(u)'
    BY <1>3, <2>0, <2>1 DEF FreshOK, Fresh, Registered
  <2>5. RegisteredOK(u)' /\ RawOK(u)'
    BY <1>3, <1>5, <2>0, <2>1 DEF RegisteredOK, RawOK, Registered
  <2> QED BY <2>2, <2>3, <2>4, <2>5 DEF TaskOK
<1>8. HooksInv'
  BY <1>0, <1>3 DEF HooksInv
<1>9. PromptInv'
  <2>1. \A u \in Task : /\ reg[u] \in Registrations => reg[u].child # t
                        /\ Fresh(u)' => Fresh(u)
                        /\ call[u].stage \in {"running", "after", "result", "done"}
                             => call'[u].stage \in {"running", "after", "result", "done"}
    BY <1>0, <1>3, <1>4 DEF PromptInv, ChildOK, Fresh
  <2>2. \A u \in Task : ChildOK(u)'
    <3> SUFFICES ASSUME NEW u \in Task PROVE ChildOK(u)'
      OBVIOUS
    <3>1. CASE reg'[u] = reg[u]
      <4>1. parentless \subseteq parentless'
        BY <1>1
      <4>2. ChildOK(u)
        BY <1>0 DEF PromptInv
      <4>3. ASSUME reg[u] \in Registrations, reg[u].child # None
            PROVE  call'[reg[u].child].stage \in {"running", "after", "result", "done"}
        BY <2>1, <4>2, <4>3 DEF ChildOK
      <4> QED BY <1>3, <3>1, <4>1, <4>2, <4>3 DEF ChildOK
    <3>2. CASE reg'[u] # reg[u]
      BY <1>2, <1>3, <1>4, <1>5, <3>2 DEF ChildOK
    <3> QED BY <3>1, <3>2
  <2>3. ChildrenApart'
    BY <1>0, <1>5, <2>1 DEF PromptInv, ChildrenApart
  <2>4. ASSUME NEW i \in Instance, NEW c \in Task
        PROVE  PromptOK(materializedBySession[i][c], c)'
    <3>1. \/ materializedBySession'[i][c] = materializedBySession[i][c] /\ c # t
          \/ materializedBySession'[i][c] = materializedBySession[i][c] /\ c = t
          \/ materializedBySession'[i][c] = b /\ c = t
      BY <1>0, <1>1 DEF PromptInv
    <3>2. CASE materializedBySession'[i][c] = b /\ c = t
      <4>1. b # None => ~Fresh(b)
        BY <1>0, <1>2 DEF TaskOK, FreshOK
      <4>2. b # None => reg'[b] \in Registrations /\ reg'[b].child = t
        BY <1>b
      <4> QED BY <1>2, <2>1, <3>2, <4>1, <4>2 DEF PromptOK
    <3>3. CASE materializedBySession'[i][c] = materializedBySession[i][c] /\ c # t
      <4>0. PICK u : u = materializedBySession[i][c]
        OBVIOUS
      <4>1. PromptOK(u, c)
        BY <1>0, <4>0 DEF PromptInv
      <4>2. u # None => u \in Task /\ ~Fresh(u)' /\ reg[u] \in Registrations /\ reg[u].child = c
        BY <2>1, <4>1 DEF PromptOK
      <4>3. u # None => reg'[u] = reg[u]
        BY <1>2, <1>5, <4>2
      <4> QED BY <3>3, <4>0, <4>2, <4>3 DEF PromptOK
    <3>4. CASE materializedBySession'[i][c] = materializedBySession[i][c] /\ c = t
      BY <1>0, <2>1, <3>4 DEF PromptInv, PromptOK
    <3> QED BY <3>1, <3>2, <3>3, <3>4
  <2>5. materializedBySession' \in [Instance -> [Task -> Task \cup {None}]]
    BY <1>0, <1>1, <1>2 DEF PromptInv
  <2> QED BY <2>2, <2>3, <2>4, <2>5 DEF PromptInv
<1> QED BY <1>6, <1>7, <1>8, <1>9 DEF RelayInv

(* Entries of materializedBySession are dropped.                            *)
LEMMA PromptsDropped ==
    ASSUME RelayInv, UNCHANGED <<key, reg, parentless>>,
           materializedBySession' \in [Instance -> [Task -> Task \cup {None}]],
           \A i \in Instance, c \in Task :
             materializedBySession'[i][c] \in {None, materializedBySession[i][c]},
           \A t \in Task : /\ Fresh(t)' => Fresh(t)
                           /\ call[t].stage \in {"running", "after", "result", "done"}
                                => call'[t].stage \in {"running", "after", "result", "done"}
    PROVE  PromptInv'
<1>1. \A t \in Task : ChildOK(t)'
  BY DEF RelayInv, PromptInv, ChildOK
<1>2. ChildrenApart'
  BY DEF RelayInv, PromptInv, ChildrenApart
<1>3. \A i \in Instance, c \in Task : PromptOK(materializedBySession[i][c], c)'
  BY DEF RelayInv, PromptInv, PromptOK
<1> QED BY <1>1, <1>2, <1>3 DEF PromptInv

LEMMA ChildDeletedStep ==
    ASSUME RelayInv, NEW t \in Task, ChildDeleted(t)
    PROVE  RelayInv'
<1>1. /\ UNCHANGED <<hooks, gone, key, relays, reg, relay, deferred, refused, parentless, call, text>>
      /\ materializedBySession' =
           [i \in Instance |-> IF Contains(hooks, i)
                               THEN [materializedBySession[i] EXCEPT ![t] = None]
                               ELSE materializedBySession[i]]
  BY DEF ChildDeleted
<1>2. HooksInv' /\ Shapes'
  BY <1>1 DEF RelayInv, HooksInv, Shapes
<1>3. \A u \in Task : TaskOK(u)'
  <2>1. FirstKept
    BY <1>1 DEF FirstKept
  <2> QED BY <1>1, <2>1, TaskFrame DEF RelayInv
<1>4. PromptInv'
  <2>1. materializedBySession \in [Instance -> [Task -> Task \cup {None}]]
    BY DEF RelayInv, PromptInv
  <2>2. /\ materializedBySession' \in [Instance -> [Task -> Task \cup {None}]]
        /\ \A i \in Instance, c \in Task :
             materializedBySession'[i][c] \in {None, materializedBySession[i][c]}
    BY <1>1, <2>1
  <2> QED BY <1>1, <2>2, PromptsDropped DEF Fresh
<1> QED BY <1>2, <1>3, <1>4 DEF RelayInv

-----------------------------------------------------------------------------
(* Relays that are closed *)

(* A Task whose relay is closed: one whose prompt is awaited is refused,    *)
(* one whose result is awaited ends, any other has lost its relay only.     *)
Closed(u) ==
    /\ relay'[u] = [relay[u] EXCEPT !.closed = TRUE]
    /\ call[u].stage = "prompt" =>
         /\ call'[u] = [stage |-> "before", todo |-> Tail(call[u].todo)]
         /\ text'[u] = "refusal"
    /\ call[u].stage = "result" =>
         /\ call'[u] = [stage |-> "done", todo |-> <<>>]
         /\ text'[u] = "error"
    /\ call[u].stage \notin {"prompt", "result"} =>
         /\ call'[u] = call[u] /\ text'[u] = text[u]
         /\ \A i \in Instance : u \in refused'[i] => u \in refused[i]

Untouched(u) ==
    /\ call'[u] = call[u] /\ text'[u] = text[u] /\ relay'[u] = relay[u]
    /\ \A i \in Instance : u \in refused'[i] => u \in refused[i]

LEMMA SettleFields ==
    ASSUME RelayInv, NEW C \in SUBSET Task, NEW noted \in [Instance -> SUBSET Task],
           Settle(C, noted), \A i \in Instance : noted[i] \subseteq refused[i]
    PROVE  /\ DOMAIN relay' = Task /\ relay' = [u \in Task |-> relay'[u]]
           /\ DOMAIN call' = Task /\ call' = [u \in Task |-> call'[u]]
           /\ DOMAIN text' = Task /\ text' = [u \in Task |-> text'[u]]
           /\ refused' \in [Instance -> SUBSET Task]
           /\ \A u \in Task \ C : Untouched(u)
           /\ \A u \in C : Closed(u)
<1>1. /\ DOMAIN relay' = Task /\ relay' = [u \in Task |-> relay'[u]]
      /\ DOMAIN call' = Task /\ call' = [u \in Task |-> call'[u]]
      /\ DOMAIN text' = Task /\ text' = [u \in Task |-> text'[u]]
      /\ refused' \in [Instance -> SUBSET Task]
  BY DEF Settle
<1>2. ASSUME NEW u \in Task
      PROVE  /\ relay'[u] = IF u \in C THEN [relay[u] EXCEPT !.closed = TRUE] ELSE relay[u]
             /\ u \in C /\ call[u].stage = "prompt" =>
                  call'[u] = [stage |-> "before", todo |-> Tail(call[u].todo)]
             /\ u \in C /\ call[u].stage = "prompt" => text'[u] = "refusal"
             /\ u \in C /\ call[u].stage = "result" =>
                  call'[u] = [stage |-> "done", todo |-> <<>>] /\ text'[u] = "error"
             /\ ~(u \in C /\ call[u].stage \in {"prompt", "result"}) =>
                  call'[u] = call[u] /\ text'[u] = text[u]
  BY DEF Settle, Returned, Ended
<1>3. ASSUME NEW u \in Task, ~(u \in C /\ call[u].stage = "prompt"),
             NEW i \in Instance, u \in refused'[i]
      PROVE  u \in refused[i]
  BY <1>3 DEF Settle
<1>4. ASSUME NEW u \in Task \ C PROVE Untouched(u)
  BY <1>2, <1>3 DEF Untouched
<1>5. ASSUME NEW u \in C PROVE Closed(u)
  BY <1>2, <1>3 DEF Closed
<1> QED BY <1>1, <1>4, <1>5

(* Neither begins a Task again or undoes its launch.                        *)
LEMMA SettleKeeps ==
    ASSUME NEW u \in Task, Untouched(u) \/ Closed(u)
    PROVE  /\ Fresh(u)' => Fresh(u)
           /\ call[u].stage \in {"running", "after", "result", "done"}
                => call'[u].stage \in {"running", "after", "result", "done"}
BY DEF Untouched, Closed, Fresh

(* The relay of u is closed, and u is unregistered unless no hook awaits it *)
(* and nobody wants to remove it.                                           *)
LEMMA SettledTask ==
    ASSUME NEW u \in Task, TaskOK(u), FirstKept, reg'[u] = reg[u], ~Fresh(u),
           relay[u] \in RelayState, Closed(u),
           \A i \in Instance : u \in deferred'[i] => u \in deferred[i],
           \/ /\ u \notin DOMAIN relays'
              /\ call[u].stage \notin {"prompt", "result"}
                   => u \in DOMAIN relays /\ reg[u].owner \notin gone
           \/ /\ (u \in DOMAIN relays') <=> (u \in DOMAIN relays)
              /\ call[u].stage \notin {"prompt", "result"}
    PROVE  TaskOK(u)'
<1>0. /\ TaskTypes(u) /\ StageOK(u) /\ FreshOK(u) /\ RegisteredOK(u)
      /\ DeferredOK(u) /\ RelayOK(u) /\ CompletingOK(u) /\ RawOK(u)
  BY DEF TaskOK
<1>1. relay'[u] \in RelayState /\ relay'[u].closed = TRUE /\ relay'[u].sent = relay[u].sent
  BY RelayFields DEF Closed
<1>2. TaskTypes(u)'
  <2>1. call'[u] \in [stage : Stages, todo : Seq(Instance)]
    <3>1. CASE call[u].stage = "prompt"
      <4>1. call[u].todo \in Seq(Instance) /\ call[u].todo # <<>>
        BY <1>0, <3>1 DEF TaskTypes, StageOK
      <4>2. call'[u] = [stage |-> "before", todo |-> Tail(call[u].todo)]
        BY <3>1 DEF Closed
      <4>3. Tail(call[u].todo) \in Seq(Instance) /\ "before" \in Stages
        BY <4>1, TodoTail DEF Stages
      <4> QED BY <4>2, <4>3
    <3>2. CASE call[u].stage = "result"
      <4>1. call'[u] = [stage |-> "done", todo |-> <<>>]
        BY <3>2 DEF Closed
      <4>2. <<>> \in Seq(Instance) /\ "done" \in Stages
        BY DEF Stages
      <4> QED BY <4>1, <4>2
    <3>3. CASE call[u].stage \notin {"prompt", "result"}
      BY <1>0, <3>3 DEF TaskTypes, Closed
    <3> QED BY <3>1, <3>2, <3>3
  <2>2. text'[u] \in Texts
    BY <1>0 DEF TaskTypes, Texts, Closed, Stages
  <2> QED BY <1>0, <1>1, <2>1, <2>2 DEF TaskTypes
<1>3. StageOK(u)'
  BY <1>0, <1>1 DEF StageOK, Closed
<1>4. FreshOK(u)'
  BY <1>0 DEF FreshOK, Fresh, Closed
<1>5. RegisteredOK(u)'
  BY <1>0, <1>1 DEF RegisteredOK, Registered, FirstKept, Closed
<1>6. DeferredOK(u)' /\ CompletingOK(u)'
  BY <1>0 DEF DeferredOK, CompletingOK, Closed
<1>7. RelayOK(u)'
  BY <1>0, <1>1 DEF RelayOK, Closed
<1>8. RawOK(u)'
  BY <1>0 DEF RawOK, RegisteredOK, Registered, FirstKept, Closed
<1> QED BY <1>2, <1>3, <1>4, <1>5, <1>6, <1>7, <1>8 DEF TaskOK

(* The relay of a Task is given up.                                         *)
LEMMA FailStep ==
    ASSUME RelayInv, NEW t \in Task, Open(t), Fail(t)
    PROVE  RelayInv'
<1>1. /\ Settle({t}, refused)
      /\ IF call[t].stage \in {"prompt", "result"} THEN relays' = Deleted({t})
                                                   ELSE relays' = relays
      /\ UNCHANGED <<hooks, gone, key, reg, deferred, materializedBySession, parentless>>
  BY DEF Fail, Close, bindings
<1>2. Shapes /\ HooksInv /\ \A u \in Task : TaskOK(u)
  BY DEF RelayInv
<1>3. refused \in [Instance -> SUBSET Task] /\ \A i \in Instance : refused[i] \subseteq refused[i]
  BY <1>2 DEF Shapes
<1>4. FirstKept
  BY <1>1 DEF FirstKept
<1>a. Closed(t) /\ \A u \in Task \ {t} : Untouched(u)
  BY <1>1, <1>3, SettleFields
<1>5. TaskOK(t)'
  <2>1. relay[t] \in RelayState /\ ~Fresh(t)
    BY <1>2 DEF Open, TaskOK, TaskTypes, FreshOK
  <2>2. \/ t \notin DOMAIN relays' /\ call[t].stage \in {"prompt", "result"}
        \/ /\ (t \in DOMAIN relays') <=> (t \in DOMAIN relays)
           /\ call[t].stage \notin {"prompt", "result"}
    BY <1>1 DEF Deleted
  <2> QED BY <1>1, <1>2, <1>4, <1>a, <2>1, <2>2, SettledTask
<1>6. ASSUME NEW u \in Task, u # t PROVE TaskOK(u)'
  <2>1. (u \in DOMAIN relays') <=> (u \in DOMAIN relays)
    BY <1>1, <1>6 DEF Deleted
  <2> QED BY <1>1, <1>2, <1>4, <1>6, <1>a, <2>1, TaskFrame DEF Untouched
<1>7. Shapes'
  <2>1. DOMAIN relays' \subseteq Task
    BY <1>1, <1>2 DEF Shapes, Deleted
  <2> QED BY <1>1, <1>2, <1>3, <2>1, SettleFields DEF Shapes
<1>8. PromptInv'
  <2>1. \A u \in Task : /\ Fresh(u)' => Fresh(u)
                        /\ call[u].stage \in {"running", "after", "result", "done"}
                             => call'[u].stage \in {"running", "after", "result", "done"}
    BY <1>a, SettleKeeps
  <2> QED BY <1>1, <2>1, PromptFrame
<1> QED BY <1>1, <1>2, <1>5, <1>6, <1>7, <1>8 DEF RelayInv, HooksInv

(* What an instance owns is closed: clearSession and dispose.               *)
LEMMA CloseOwned ==
    ASSUME RelayInv, NEW C \in SUBSET Task, NEW noted \in [Instance -> SUBSET Task],
           Close(C, noted), \A i \in Instance : noted[i] \subseteq refused[i],
           \A i \in Instance : deferred'[i] \subseteq deferred[i],
           \A t \in C : Registered(t) /\ reg[t].owner \notin gone,
           FirstKept, reg' = reg
    PROVE  \A u \in Task : /\ TaskOK(u)'
                           /\ Fresh(u)' => Fresh(u)
                           /\ call[u].stage \in {"running", "after", "result", "done"}
                                => call'[u].stage \in {"running", "after", "result", "done"}
<1>1. Settle(C, noted) /\ relays' = Deleted(C)
  BY DEF Close
<1>2. \A u \in Task : TaskOK(u)
  BY DEF RelayInv
<1>a. (\A u \in C : Closed(u)) /\ \A u \in Task \ C : Untouched(u)
  BY <1>1, SettleFields
<1>3. ASSUME NEW u \in C PROVE TaskOK(u)'
  <2>1. relay[u] \in RelayState /\ ~Fresh(u)
    BY <1>2, <1>3 DEF TaskOK, RegisteredOK, FreshOK
  <2>2. /\ u \notin DOMAIN relays'
        /\ u \in DOMAIN relays /\ reg[u].owner \notin gone
    BY <1>1, <1>3 DEF Deleted, Registered
  <2> QED BY <1>2, <1>3, <1>a, <2>1, <2>2, SettledTask
<1>4. ASSUME NEW u \in Task \ C PROVE TaskOK(u)'
  <2>1. (u \in DOMAIN relays') <=> (u \in DOMAIN relays)
    BY <1>1, <1>4 DEF Deleted
  <2> QED BY <1>2, <1>4, <1>a, <2>1, TaskFrame DEF Untouched
<1>5. ASSUME NEW u \in Task
      PROVE  /\ Fresh(u)' => Fresh(u)
             /\ call[u].stage \in {"running", "after", "result", "done"}
                  => call'[u].stage \in {"running", "after", "result", "done"}
  BY <1>a, SettleKeeps
<1> QED BY <1>3, <1>4, <1>5

-----------------------------------------------------------------------------
(* Sessions and instances *)

LEMMA LoadStep ==
    ASSUME RelayInv, NEW j \in Instance, Load(j)
    PROVE  RelayInv'
<1>1. /\ ~Contains(hooks, j) /\ j \notin gone /\ hooks' = Append(hooks, j)
      /\ UNCHANGED <<gone, key, relays, reg, relay, deferred, refused,
                     materializedBySession, parentless, call, text>>
  BY DEF Load, instanceVars, bindings
<1>2. /\ hooks' \in Seq(Instance) /\ Len(hooks') = Len(hooks) + 1 /\ Len(hooks) \in Nat
      /\ \A n \in 1..Len(hooks) : hooks'[n] = hooks[n]
      /\ hooks'[Len(hooks) + 1] = j
      /\ Head(hooks') = hooks'[1] /\ Head(hooks) = hooks[1] /\ Len(hooks) >= 1
  BY <1>1 DEF RelayInv, HooksInv
<1>3. HooksInv'
  BY <1>1, <1>2 DEF RelayInv, HooksInv, Contains
<1>4. FirstKept
  BY <1>1, <1>2 DEF FirstKept
<1>5. \A u \in Task : TaskOK(u)'
  BY <1>1, <1>4, TaskFrame DEF RelayInv
<1>6. Shapes'
  BY <1>1 DEF RelayInv, Shapes
<1>7. PromptInv'
  <2>1. \A u \in Task : Fresh(u)' => Fresh(u)
    BY <1>1 DEF Fresh
  <2> QED BY <1>1, <2>1, PromptFrame
<1> QED BY <1>3, <1>5, <1>6, <1>7 DEF RelayInv

(* What is left of the instances when the n-th is disposed.                 *)
LEMMA HooksWithout ==
    ASSUME HooksInv, NEW n \in 1..Len(hooks), Len(hooks) > 1,
           hooks' = RemoveAt(hooks, n), gone' = gone \cup {hooks[n]}
    PROVE  HooksInv' /\ FirstKept
<1>1. hooks \in Seq(Instance) /\ Len(hooks) \in Nat
  BY DEF HooksInv
<1> DEFINE a == SubSeq(hooks, 1, n - 1)
           b == SubSeq(hooks, n + 1, Len(hooks))
<1>2. /\ a \in Seq(Instance) /\ Len(a) = n - 1
      /\ \A m \in 1..(n - 1) : a[m] = hooks[m]
  BY <1>1, SubSeqProperties
<1>3. /\ b \in Seq(Instance) /\ Len(b) = Len(hooks) - n
      /\ \A m \in 1..(Len(hooks) - n) : b[m] = hooks[n + m]
  BY <1>1, SubSeqProperties
<1>4. hooks' = a \o b
  BY DEF RemoveAt
<1> HIDE DEF a, b
<1>5. /\ hooks' \in Seq(Instance) /\ Len(hooks') = Len(hooks) - 1
      /\ \A m \in 1..(Len(hooks) - 1) : hooks'[m] = IF m < n THEN hooks[m] ELSE hooks[m + 1]
  <2>1. hooks' \in Seq(Instance) /\ Len(hooks') = Len(hooks) - 1
    BY <1>1, <1>2, <1>3, <1>4
  <2>2. ASSUME NEW m \in 1..(Len(hooks) - 1)
        PROVE  hooks'[m] = IF m < n THEN hooks[m] ELSE hooks[m + 1]
    <3>1. CASE m < n
      <4>1. hooks'[m] = a[m] /\ m \in 1..(n - 1)
        BY <1>1, <1>2, <1>3, <1>4, <2>1, <3>1
      <4> QED BY <1>2, <3>1, <4>1
    <3>2. CASE m >= n
      <4>1. hooks'[m] = b[m - (n - 1)] /\ m - (n - 1) \in 1..(Len(hooks) - n)
        BY <1>1, <1>2, <1>3, <1>4, <2>1, <3>2
      <4>2. b[m - (n - 1)] = hooks[n + (m - (n - 1))] /\ n + (m - (n - 1)) = m + 1
        BY <1>1, <1>3, <4>1
      <4> QED BY <1>1, <3>2, <4>1, <4>2
    <3> QED BY <1>1, <3>1, <3>2
  <2> QED BY <2>1, <2>2
<1>6. ASSUME NEW m \in 1..Len(hooks')
      PROVE  \E k \in 1..Len(hooks) : k # n /\ hooks'[m] = hooks[k]
  BY <1>1, <1>5
<1>7. hooks' # <<>> /\ Head(hooks') = hooks'[1] /\ Head(hooks) = hooks[1]
  BY <1>1, <1>5
<1>8. \A m, k \in 1..Len(hooks') : hooks'[m] = hooks'[k] => m = k
  BY <1>1, <1>5 DEF HooksInv
<1>9. \A m \in 1..Len(hooks') : hooks'[m] \notin gone'
  BY <1>6 DEF HooksInv
<1>10. FirstKept
  <2>1. CASE n = 1
    BY <1>7, <2>1 DEF FirstKept
  <2>2. CASE n # 1
    BY <1>1, <1>5, <1>7, <2>2 DEF FirstKept
  <2> QED BY <2>1, <2>2
<1> QED BY <1>5, <1>7, <1>8, <1>9, <1>10 DEF HooksInv

LEMMA DisposeStep ==
    ASSUME RelayInv, NEW j \in Instance, Dispose(j)
    PROVE  RelayInv'
<1> DEFINE C == {t \in DOMAIN relays : reg[t].owner = j}
           noted == [refused EXCEPT ![j] = {}]
<1>0. HooksInv /\ Shapes /\ \A u \in Task : TaskOK(u)
  BY DEF RelayInv
<1>1. /\ Len(hooks) > 1 /\ gone' = gone \cup {j} /\ deferred' = [deferred EXCEPT ![j] = {}]
      /\ materializedBySession' = [materializedBySession EXCEPT ![j] = [t \in Task |-> None]]
      /\ Close(C, noted) /\ UNCHANGED <<key, reg, parentless>>
  BY DEF Dispose
<1>2. PICK n \in 1..Len(hooks) : hooks[n] = j /\ hooks' = RemoveAt(hooks, n)
  BY DEF Dispose
<1>3. HooksInv' /\ FirstKept
  BY <1>0, <1>1, <1>2, HooksWithout
<1>4. /\ C \in SUBSET Task /\ noted \in [Instance -> SUBSET Task]
      /\ \A i \in Instance : noted[i] \subseteq refused[i] /\ deferred'[i] \subseteq deferred[i]
      /\ deferred' \in [Instance -> SUBSET Task]
  BY <1>0, <1>1 DEF Shapes
<1>5. \A t \in C : Registered(t) /\ reg[t].owner \notin gone
  BY <1>0, <1>2 DEF HooksInv, Registered
<1> HIDE DEF C, noted
<1>6. \A u \in Task : /\ TaskOK(u)'
                      /\ Fresh(u)' => Fresh(u)
                      /\ call[u].stage \in {"running", "after", "result", "done"}
                           => call'[u].stage \in {"running", "after", "result", "done"}
  BY <1>1, <1>3, <1>4, <1>5, CloseOwned
<1>7. Shapes'
  <2>1. Settle(C, noted) /\ DOMAIN relays' \subseteq Task
    BY <1>0, <1>1 DEF Close, Deleted, Shapes
  <2> QED BY <1>0, <1>1, <1>4, <2>1, SettleFields DEF Shapes
<1>8. PromptInv'
  <2>1. materializedBySession \in [Instance -> [Task -> Task \cup {None}]]
    BY DEF RelayInv, PromptInv
  <2>2. /\ materializedBySession' \in [Instance -> [Task -> Task \cup {None}]]
        /\ \A i \in Instance, c \in Task :
             materializedBySession'[i][c] \in {None, materializedBySession[i][c]}
    BY <1>1, <2>1
  <2> QED BY <1>1, <1>6, <2>2, PromptsDropped
<1> QED BY <1>3, <1>6, <1>7, <1>8 DEF RelayInv

LEMMA SessionDeletedStep ==
    ASSUME RelayInv, NEW p \in Session, SessionDeleted(p)
    PROVE  RelayInv'
<1> DEFINE own == {t \in Task : key[t][1] = p}
           kept(m) == [i \in Instance |-> IF Contains(hooks, i) THEN m[i] \ own ELSE m[i]]
           C == {t \in own \cap DOMAIN relays : Contains(hooks, reg[t].owner)}
           noted == kept(refused)
<1>0. HooksInv /\ Shapes /\ \A u \in Task : TaskOK(u)
  BY DEF RelayInv
<1>1. /\ deferred' = kept(deferred) /\ Close(C, noted)
      /\ UNCHANGED <<hooks, gone, key, reg, materializedBySession, parentless>>
  BY DEF SessionDeleted, bindings
<1>3. HooksInv' /\ FirstKept
  BY <1>0, <1>1 DEF HooksInv, FirstKept
<1>4. /\ C \in SUBSET Task /\ noted \in [Instance -> SUBSET Task]
      /\ \A i \in Instance : noted[i] \subseteq refused[i] /\ deferred'[i] \subseteq deferred[i]
      /\ deferred' \in [Instance -> SUBSET Task]
  BY <1>0, <1>1 DEF Shapes
<1>5. \A t \in C : Registered(t) /\ reg[t].owner \notin gone
  BY <1>0 DEF HooksInv, Registered, Contains
<1> HIDE DEF C, noted
<1>6. \A u \in Task : /\ TaskOK(u)'
                      /\ Fresh(u)' => Fresh(u)
                      /\ call[u].stage \in {"running", "after", "result", "done"}
                           => call'[u].stage \in {"running", "after", "result", "done"}
  BY <1>1, <1>3, <1>4, <1>5, CloseOwned
<1>7. Shapes'
  <2>1. Settle(C, noted) /\ DOMAIN relays' \subseteq Task
    BY <1>0, <1>1 DEF Close, Deleted, Shapes
  <2> QED BY <1>0, <1>1, <1>4, <2>1, SettleFields DEF Shapes
<1>8. PromptInv'
  BY <1>1, <1>6, PromptFrame
<1> QED BY <1>3, <1>6, <1>7, <1>8 DEF RelayInv

-----------------------------------------------------------------------------
(* The theorems *)

LEMMA RelayInit ==
    ASSUME Init, First \in Instance, None \notin Registrations
    PROVE  RelayInv
<1>1. HooksInv
  BY DEF Init, HooksInv
<1>2. Shapes
  BY DEF Init, Shapes
<1>3. ASSUME NEW t \in Task PROVE TaskOK(t)
  <2>1. /\ call[t] = [stage |-> "idle", todo |-> <<>>] /\ text[t] = "binding"
        /\ reg[t] = None /\ relay[t] = None /\ t \notin DOMAIN relays
        /\ \A i \in Instance : t \notin deferred[i] /\ t \notin refused[i]
    BY DEF Init
  <2>2. TaskTypes(t)
    BY <2>1 DEF TaskTypes, Stages, Texts
  <2>3. StageOK(t) /\ FreshOK(t) /\ RegisteredOK(t) /\ DeferredOK(t) /\ RawOK(t)
    BY <2>1 DEF StageOK, FreshOK, RegisteredOK, DeferredOK, RawOK, Registered
  <2>4. RelayOK(t)
    BY <2>1 DEF RelayOK
  <2>5. CompletingOK(t)
    BY <2>1 DEF CompletingOK
  <2> QED BY <2>2, <2>3, <2>4, <2>5 DEF TaskOK
<1>4. PromptInv
  <2>1. \A t \in Task : reg[t] = None /\ Fresh(t)
    BY DEF Init, Fresh
  <2> QED BY <2>1 DEF Init, PromptInv, ChildOK, ChildrenApart, PromptOK
<1> QED BY <1>1, <1>2, <1>3, <1>4 DEF RelayInv

LEMMA HookStepKeeps ==
    ASSUME RelayInv, NEW t \in Task, HookStep(t), None \notin Task
    PROVE  RelayInv'
<1>0. TaskOK(t)
  BY DEF RelayInv
<1>1. CASE BeforeDefers(t)  BY <1>1, BeforeDefersStep
<1>2. CASE BeforeRefuses(t)
  BY <1>2, RefuseStep DEF BeforeRefuses, InHook
<1>3. CASE BeforeLooksUp(t)  BY <1>3, BeforeLooksUpStep
<1>4. CASE RootFails(t)
  <2>1. call[t].stage = "root" /\ call[t].todo # <<>> /\ ~Registered(t)
    BY <1>0, <1>4 DEF RootFails, TaskOK, StageOK, FreshOK, Fresh
  <2> QED BY <1>4, <2>1, RefuseStep DEF RootFails
<1>5. CASE RelayStarts(t)  BY <1>5, RelayStartsStep
<1>6. CASE Launch(t)  BY <1>6, LaunchStep
<1>7. CASE TaskRefused(t)  BY <1>7, TaskRefusedStep
<1>8. CASE AfterPasses(t)  BY <1>8, AfterPassesStep
<1>9. CASE AfterRefuses(t)  BY <1>9, AfterRefusesStep
<1>10. CASE AfterCompletes(t)
  BY <1>10, AfterCompletesOpenStep, AfterCompletesClosedStep
<1>11. CASE Delivered(t)  BY <1>11, DeliveredStep
<1>12. CASE BeforeFindsNoPrompt(t)  BY <1>12, BeforeFindsNoPromptStep
<1> QED BY <1>1, <1>2, <1>3, <1>4, <1>5, <1>6, <1>7, <1>8, <1>9, <1>10, <1>11, <1>12 DEF HookStep

LEMMA RelayNext ==
    ASSUME RelayInv, Next, None \notin Task
    PROVE  RelayInv'
<1>1. ASSUME NEW t \in Task, HookStep(t) PROVE RelayInv'
  BY <1>1, HookStepKeeps
<1>2. ASSUME NEW t \in Task, TaskCalled(t) PROVE RelayInv'
  BY <1>2, TaskCalledStep
<1>3. ASSUME NEW t \in Task, ChildAnswers(t) PROVE RelayInv'
  BY <1>3, ChildAnswersStep
<1>4. ASSUME NEW t \in Task, TaskAborted(t) PROVE RelayInv'
  BY <1>4, TaskAbortedStep
<1>5. ASSUME NEW t \in Task, ChildDeleted(t) PROVE RelayInv'
  BY <1>5, ChildDeletedStep
<1>6. ASSUME NEW t \in Task, ProviderPrompt(t) PROVE RelayInv'
  BY <1>6, ProviderPromptStep
<1>7. ASSUME NEW t \in Task, ProviderResult(t) PROVE RelayInv'
  BY <1>7, ProviderResultStep
<1>8. ASSUME NEW t \in Task, ChildCloses(t) PROVE RelayInv'
  BY <1>8, ChildClosesStep
<1>9. ASSUME NEW t \in Task, RelayFails(t) \/ Deadline(t) PROVE RelayInv'
  BY <1>9, FailStep DEF RelayFails, Deadline
<1>10. ASSUME NEW j \in Instance, Load(j) PROVE RelayInv'
  BY <1>10, LoadStep
<1>11. ASSUME NEW j \in Instance, Dispose(j) PROVE RelayInv'
  BY <1>11, DisposeStep
<1>12. ASSUME NEW p \in Session, SessionDeleted(p) PROVE RelayInv'
  BY <1>12, SessionDeletedStep
<1> QED BY <1>1, <1>2, <1>3, <1>4, <1>5, <1>6, <1>7, <1>8, <1>9, <1>10, <1>11, <1>12 DEF Next

LEMMA RelayStutter ==
    ASSUME RelayInv, UNCHANGED vars
    PROVE  RelayInv'
<1>1. UNCHANGED <<hooks, gone, key, relays, reg, relay, deferred, refused,
                  materializedBySession, parentless, call, text>>
  BY DEF vars
<1>2. HooksInv' /\ Shapes'
  BY <1>1 DEF RelayInv, HooksInv, Shapes
<1>3. \A t \in Task : TaskOK(t)'
  <2>1. FirstKept
    BY <1>1 DEF FirstKept
  <2> QED BY <1>1, <2>1, TaskFrame DEF RelayInv
<1>4. PromptInv'
  <2>1. \A t \in Task : Fresh(t)' => Fresh(t)
    BY <1>1 DEF Fresh
  <2> QED BY <1>1, <2>1, PromptFrame
<1> QED BY <1>2, <1>3, <1>4 DEF RelayInv

LEMMA RelayInvariant == Spec => []RelayInv
<1>1. Init => RelayInv
  BY RelayInit, RelayAssumption DEF RelayAssumption
<1>2. RelayInv /\ [Next]_vars => RelayInv'
  BY RelayNext, RelayStutter, RelayAssumption DEF RelayAssumption
<1> QED BY <1>1, <1>2, PTL DEF Spec

(* What a review Task returns is a refusal, an error or the provider's      *)
(* result for what its own child has said, and the child's own words only   *)
(* when the instance that registered it is gone: for every order of hooks,  *)
(* children, failures, deadlines, disposals and deletions                   *)
(* (tool.execute.before and tool.execute.after of reviewer-relay-core.ts).  *)
THEOREM DeliveriesOwn == Spec => []DeliveredIsOwn
<1>1. RelayInv => DeliveredIsOwn
  BY DEF RelayInv, TaskOK, RawOK, RelayOK, DeliveredIsOwn
<1> QED BY <1>1, RelayInvariant, PTL

(* A prompt goes to one child at most, of the agent it was made for, and of *)
(* the session it was made for unless the event that announced the child    *)
(* named no parent; and no two instances disagree about it                  *)
(* (bindMaterializedToChild and session.created of reviewer-relay-core.ts). *)
THEOREM PromptsKeptApart == Spec => []PromptsApart
<1>1. RelayInv => PromptsApart
  BY RelayAssumption DEF RelayAssumption, RelayInv, PromptInv, PromptOK, ChildOK,
      ChildrenApart, PromptsApart
<1> QED BY <1>1, RelayInvariant, PTL

-----------------------------------------------------------------------------
(* The connection to the broker                                             *)

(* A piece of a line.                                                      *)
Msg == [id : Req, kind : Kinds, last : BOOLEAN]

Opening(r, k) == [id |-> r, kind |-> k, last |-> FALSE]
Closing(p) == [id |-> p.id, kind |-> p.kind, last |-> TRUE]

(* A stretch of a stream of frames: a first piece is followed by its last   *)
(* one, a last piece by a first one.                                        *)
Chained(s) ==
  \A i \in 1..(Len(s) - 1) :
    IF s[i].last THEN ~s[i + 1].last ELSE s[i + 1] = Closing(s[i])

StartsOpen(s) == s # <<>> => ~s[1].last
EndsClosed(s) == s # <<>> => s[Len(s)].last

(* Only what the broker sends.                                              *)
Replies(s) == \A i \in 1..Len(s) : s[i].kind \in {"progress", "final"}

(* The frame of r is in the stream.                                         *)
Holds(s, r, k) ==
  \E i \in 1..(Len(s) - 1) : s[i] = Opening(r, k) /\ s[i + 1] = Closing(Opening(r, k))

(* What is on its way: read of a line, in the socket, not yet written.       *)
Join(a, b, c) == a \o b \o c

(* A frame at the end of a stream.                                          *)
Then(s, f) == s \o f

-----------------------------------------------------------------------------
(* Streams of pieces                                                        *)

LEMMA FrameType ==
  ASSUME NEW r \in Req, NEW k \in Kinds
  PROVE  Frame(r, k) \in Seq(Msg)
BY DEF Frame, Msg

(* Two pieces in a row.                                                     *)
LEMMA TwoPieces ==
  ASSUME NEW s \in Seq(Msg), NEW i \in 1..(Len(s) - 1)
  PROVE  /\ SubSeq(s, i, i + 1) \in Seq(Msg) /\ Len(SubSeq(s, i, i + 1)) = 2
         /\ SubSeq(s, i, i + 1)[1] = s[i] /\ SubSeq(s, i, i + 1)[2] = s[i + 1]
<1> DEFINE t == SubSeq(s, i, i + 1)
<1>1. Len(s) \in Nat /\ i \in Int /\ i + 1 \in Int /\ i >= 1 /\ i + 1 <= Len(s)
  OBVIOUS
<1>2. \A j \in i..(i + 1) : s[j] \in Msg
  BY <1>1, ElementOfSeq
<1>3. /\ t \in Seq(Msg) /\ Len(t) = IF i <= i + 1 THEN (i + 1) - i + 1 ELSE 0
      /\ \A j \in 1 .. (i + 1) - i + 1 : t[j] = s[i + j - 1]
  BY <1>1, <1>2, SubSeqProperties
<1> HIDE DEF t
<1>4. Len(t) = 2 /\ t[1] = s[i + 1 - 1] /\ t[2] = s[i + 2 - 1]
  BY <1>1, <1>3
<1>5. t \in Seq(Msg) /\ Len(t) = 2 /\ t[1] = s[i] /\ t[2] = s[i + 1]
  BY <1>1, <1>3, <1>4
<1> QED BY <1>5 DEF t

(* Contains, of a frame, is Holds.                                          *)
LEMMA ContainsHolds ==
  ASSUME NEW s \in Seq(Msg), NEW r, NEW k, Holds(s, r, k)
  PROVE  Carries(s, Frame(r, k))
<1> DEFINE p == Opening(r, k)
           q == Closing(p)
           M == Msg \cup {p, q}
<1>1. PICK i \in 1..(Len(s) - 1) : s[i] = p /\ s[i + 1] = q
  BY DEF Holds
<1>2. Frame(r, k) = <<p, q>>
  BY DEF Frame, Opening, Closing
<1> HIDE DEF p, q
<1>3. <<p, q>> \in Seq(M) /\ Len(<<p, q>>) = 2 /\ <<p, q>>[1] = p /\ <<p, q>>[2] = q
  OBVIOUS
<1> DEFINE f == <<p, q>>
           t == SubSeq(s, i, i + 1)
<1>4. t \in Seq(Msg) /\ Len(t) = 2 /\ t[1] = p /\ t[2] = q
  BY <1>1, TwoPieces
<1>5. t \in Seq(M)
  BY <1>4, SeqMonotonic
<1> HIDE DEF t, f, M
<1>6. t = f
  <2>1. f \in Seq(M) /\ Len(f) = 2 /\ f[1] = p /\ f[2] = q
    BY <1>3 DEF f
  <2>2. \A j \in 1..Len(t) : t[j] = f[j]
    BY <1>4, <2>1
  <2> QED BY <1>4, <1>5, <2>1, <2>2, SeqEqual
<1>7. Len(s) \in Nat /\ i \in Nat /\ i >= 1 /\ i + 1 <= Len(s) /\ Len(f) = 2
  BY <1>3 DEF f
<1>8. i - 1 \in 0..(Len(s) - Len(f)) /\ (i - 1) + 1 = i /\ (i - 1) + Len(f) = i + 1
  BY <1>7
<1>9. SubSeq(s, (i - 1) + 1, (i - 1) + Len(f)) = f
  BY <1>6, <1>8 DEF t
<1>10. Carries(s, f)
  BY <1>8, <1>9 DEF Carries
<1> QED BY <1>2, <1>10 DEF f

(* The first piece is read.                                                 *)
LEMMA TailStream ==
  ASSUME NEW s \in Seq(Msg), s # <<>>, Chained(s)
  PROVE  /\ Tail(s) \in Seq(Msg) /\ Chained(Tail(s))
         /\ EndsClosed(s) => EndsClosed(Tail(s))
         /\ s[1].last => StartsOpen(Tail(s))
         /\ Tail(s) # <<>> /\ ~s[1].last => Tail(s)[1] = Closing(s[1])
         /\ Replies(s) => Replies(Tail(s))
         /\ \A r, k : Holds(s, r, k) => Holds(Tail(s), r, k) \/ s[1] = Opening(r, k)
<1>1. /\ Tail(s) \in Seq(Msg) /\ Len(s) \in Nat /\ Len(s) >= 1
      /\ Len(Tail(s)) = Len(s) - 1 /\ Tail(s) # <<>> => Len(s) >= 2
      /\ \A i \in 1..(Len(s) - 1) : Tail(s)[i] = s[i + 1]
  OBVIOUS
<1>2. Chained(Tail(s))
  BY <1>1 DEF Chained
<1>3. EndsClosed(s) => EndsClosed(Tail(s))
  BY <1>1 DEF EndsClosed
<1>4. s[1].last => StartsOpen(Tail(s))
  BY <1>1 DEF StartsOpen, Chained
<1>5. ASSUME NEW r, NEW k, Holds(s, r, k), s[1] # Opening(r, k)
      PROVE  Holds(Tail(s), r, k)
  <2>1. PICK i \in 1..(Len(s) - 1) : s[i] = Opening(r, k) /\ s[i + 1] = Closing(Opening(r, k))
    BY <1>5 DEF Holds
  <2>2. i # 1 /\ i - 1 \in 1..(Len(Tail(s)) - 1)
    BY <1>1, <1>5, <2>1
  <2>3. Tail(s)[i - 1] = s[i] /\ Tail(s)[(i - 1) + 1] = s[i + 1]
    BY <1>1, <2>2
  <2> QED BY <2>1, <2>2, <2>3 DEF Holds
<1>6. Replies(s) => Replies(Tail(s))
  BY <1>1 DEF Replies
<1>7. Tail(s) # <<>> /\ ~s[1].last => Tail(s)[1] = Closing(s[1])
  BY <1>1 DEF Chained
<1> QED BY <1>1, <1>2, <1>3, <1>4, <1>5, <1>6, <1>7

(* The first line is read.                                                  *)
LEMMA LineRead ==
  ASSUME NEW s \in Seq(Msg), s # <<>>, Tail(s) # <<>>, Chained(s), ~s[1].last
  PROVE  /\ Tail(s)[1] = Closing(s[1])
         /\ Tail(Tail(s)) \in Seq(Msg) /\ Chained(Tail(Tail(s)))
         /\ EndsClosed(s) => EndsClosed(Tail(Tail(s)))
         /\ StartsOpen(Tail(Tail(s)))
         /\ Replies(s) => Replies(Tail(Tail(s)))
         /\ \A r, k : Holds(s, r, k) => Holds(Tail(Tail(s)), r, k) \/ s[1] = Opening(r, k)
<1> DEFINE t == Tail(s)
<1>1. /\ t \in Seq(Msg) /\ Chained(t)
      /\ EndsClosed(s) => EndsClosed(t)
      /\ Replies(s) => Replies(t)
      /\ t[1] = Closing(s[1])
  BY TailStream
<1>2. \A r, k : Holds(s, r, k) => Holds(t, r, k) \/ s[1] = Opening(r, k)
  BY TailStream
<1> HIDE DEF t
<1>3. t[1].last /\ t # <<>>
  BY <1>1 DEF Closing, t
<1>4. /\ Tail(t) \in Seq(Msg) /\ Chained(Tail(t))
      /\ EndsClosed(t) => EndsClosed(Tail(t))
      /\ Replies(t) => Replies(Tail(t))
      /\ StartsOpen(Tail(t))
  BY <1>1, <1>3, TailStream
<1>5. \A r, k : Holds(t, r, k) => Holds(Tail(t), r, k) \/ t[1] = Opening(r, k)
  BY <1>1, <1>3, TailStream
<1>6. \A r, k : t[1] # Opening(r, k)
  BY <1>3 DEF Opening
<1> QED BY <1>1, <1>2, <1>4, <1>5, <1>6 DEF t

(* A frame is added at the end.                                             *)
LEMMA AppendedFrame ==
  ASSUME NEW s \in Seq(Msg), Chained(s), EndsClosed(s),
         NEW r \in Req, NEW k \in Kinds
  PROVE  /\ Then(s, Frame(r, k)) \in Seq(Msg) /\ Chained(Then(s, Frame(r, k)))
         /\ EndsClosed(Then(s, Frame(r, k))) /\ Holds(Then(s, Frame(r, k)), r, k)
         /\ StartsOpen(s) => StartsOpen(Then(s, Frame(r, k)))
         /\ s # <<>> => Then(s, Frame(r, k))[1] = s[1]
         /\ s = <<>> => Then(s, Frame(r, k))[1] = Opening(r, k)
         /\ Replies(s) /\ k # "request" => Replies(Then(s, Frame(r, k)))
         /\ \A q, j : Holds(s, q, j) => Holds(Then(s, Frame(r, k)), q, j)
<1> DEFINE f == Frame(r, k)
           t == Then(s, f)
<1>1. f \in Seq(Msg) /\ Len(f) = 2
  <2>1. f \in Seq(Msg)
    BY FrameType
  <2>2. Len(f) = 2
    BY DEF Frame
  <2> QED BY <2>1, <2>2
<1>a. f[1] = Opening(r, k) /\ f[2] = Closing(Opening(r, k))
  BY DEF Frame, Opening, Closing
<1>b. Opening(r, k).last = FALSE /\ Closing(Opening(r, k)).last = TRUE
  BY DEF Opening, Closing
<1> HIDE DEF f
<1>2. /\ t \in Seq(Msg) /\ Len(t) = Len(s) + 2 /\ Len(s) \in Nat
      /\ \A i \in 1..Len(s) : t[i] = s[i]
      /\ t[Len(s) + 1] = f[1] /\ t[Len(s) + 2] = f[2]
  <2>1. /\ t \in Seq(Msg) /\ Len(t) = Len(s) + Len(f)
        /\ \A i \in 1 .. Len(s) + Len(f) :
             t[i] = IF i <= Len(s) THEN s[i] ELSE f[i - Len(s)]
    BY <1>1, ConcatProperties DEF Then
  <2> HIDE DEF t
  <2>2. Len(s) \in Nat
    OBVIOUS
  <2>3. (Len(s) + 1) - Len(s) = 1 /\ (Len(s) + 2) - Len(s) = 2
    BY <2>2
  <2>4. Len(t) = Len(s) + 2 /\ \A i \in 1..Len(s) : t[i] = s[i]
    BY <1>1, <2>1, <2>2
  <2>5. t[Len(s) + 1] = f[1] /\ t[Len(s) + 2] = f[2]
    BY <1>1, <2>1, <2>2, <2>3
  <2> QED BY <2>1, <2>2, <2>4, <2>5
<1> HIDE DEF t
<1>3. Chained(t)
  <2> SUFFICES ASSUME NEW i \in 1..(Len(t) - 1)
               PROVE  IF t[i].last THEN ~t[i + 1].last ELSE t[i + 1] = Closing(t[i])
    BY DEF Chained
  <2>1. CASE i < Len(s)
    BY <1>2, <2>1 DEF Chained
  <2>2. CASE i = Len(s)
    <3>1. s # <<>> /\ s[i].last
      BY <1>2, <2>2 DEF EndsClosed
    <3> QED BY <1>1, <1>a, <1>b, <1>2, <2>2, <3>1
  <2>3. CASE i = Len(s) + 1
    BY <1>1, <1>a, <1>b, <1>2, <2>3
  <2> QED BY <1>2, <2>1, <2>2, <2>3
<1>4. EndsClosed(t) /\ Holds(t, r, k)
  BY <1>1, <1>a, <1>b, <1>2 DEF EndsClosed, Holds
<1>5. /\ StartsOpen(s) => StartsOpen(t)
      /\ s # <<>> => t[1] = s[1]
      /\ s = <<>> => t[1] = Opening(r, k)
  BY <1>1, <1>a, <1>b, <1>2 DEF StartsOpen
<1>6. Replies(s) /\ k # "request" => Replies(t)
  <2>1. Opening(r, k).kind = k /\ Closing(Opening(r, k)).kind = k
    BY DEF Opening, Closing
  <2> QED BY <1>a, <1>2, <2>1 DEF Replies, Kinds
<1>7. ASSUME NEW q, NEW j, Holds(s, q, j) PROVE Holds(t, q, j)
  <2>1. PICK i \in 1..(Len(s) - 1) :
          s[i] = Opening(q, j) /\ s[i + 1] = Closing(Opening(q, j))
    BY <1>7 DEF Holds
  <2>2. i \in 1..(Len(t) - 1) /\ t[i] = s[i] /\ t[i + 1] = s[i + 1]
    BY <1>2, <2>1
  <2> QED BY <2>1, <2>2 DEF Holds
<1> QED BY <1>2, <1>3, <1>4, <1>5, <1>6, <1>7 DEF t, f

(* The end of a stream is lost.                                             *)
LEMMA CutStream ==
  ASSUME NEW s \in Seq(Msg), NEW t \in Seq(Msg), Chained(s \o t)
  PROVE  /\ Chained(s)
         /\ Replies(s \o t) => Replies(s)
         /\ s # <<>> => s \o t # <<>> /\ (s \o t)[1] = s[1]
<1>1. /\ Len(s) \in Nat /\ Len(t) \in Nat /\ Len(s \o t) = Len(s) + Len(t)
      /\ \A i \in 1..Len(s) : (s \o t)[i] = s[i]
  OBVIOUS
<1> DEFINE u == s \o t
<1>2. Chained(u) /\ Len(u) = Len(s) + Len(t) /\ \A i \in 1..Len(s) : u[i] = s[i]
  BY <1>1
<1> HIDE DEF u
<1>3. Chained(s)
  <2> SUFFICES ASSUME NEW i \in 1..(Len(s) - 1)
               PROVE  IF s[i].last THEN ~s[i + 1].last ELSE s[i + 1] = Closing(s[i])
    BY DEF Chained
  <2>1. i \in 1..(Len(u) - 1) /\ u[i] = s[i] /\ u[i + 1] = s[i + 1]
    BY <1>1, <1>2
  <2> QED BY <1>2, <2>1 DEF Chained
<1>4. Replies(s \o t) => Replies(s)
  BY <1>1 DEF Replies
<1> QED BY <1>1, <1>3, <1>4

(* A socket takes n of the pieces that are waiting: the stream is the same. *)
LEMMA Flushed ==
  ASSUME NEW a \in Seq(Msg), NEW b \in Seq(Msg), NEW out \in Seq(Msg), NEW n \in 0..Len(out)
  PROVE  /\ b \o SubSeq(out, 1, n) \in Seq(Msg) /\ SubSeq(out, n + 1, Len(out)) \in Seq(Msg)
         /\ Join(a, b \o SubSeq(out, 1, n), SubSeq(out, n + 1, Len(out))) = Join(a, b, out)
<1> DEFINE x == SubSeq(out, 1, n)
           y == SubSeq(out, n + 1, Len(out))
<1>1. x \in Seq(Msg) /\ y \in Seq(Msg)
  OBVIOUS
<1>2. x \o y = out
  <2>1. Len(out) \in Nat /\ n \in Nat /\ n <= Len(out)
    OBVIOUS
  <2>2. 1 \in 1 .. Len(out) + 1 /\ n \in 1 - 1 .. Len(out) /\ Len(out) \in n .. Len(out)
    BY <2>1
  <2>3. x \o y = SubSeq(out, 1, Len(out))
    BY <2>2, ConcatAdjacentSubSeq
  <2> QED BY <2>3, SubSeqFull
<1> HIDE DEF x, y
<1> DEFINE u == (a \o (b \o x)) \o y
           v == (a \o b) \o (x \o y)
<1>3. b \o x \in Seq(Msg)
  BY <1>1
<1>4. u \in Seq(Msg) /\ v \in Seq(Msg) /\ Len(u) = Len(v)
  BY <1>1
<1>5. \A i \in 1..Len(u) : u[i] = v[i]
  BY <1>1
<1> HIDE DEF u, v
<1>6. u = v
  BY <1>4, <1>5, SeqEqual
<1>7. Join(a, b \o x, y) = Join(a, b, out)
  BY <1>2, <1>6, Zenon DEF u, v, Join
<1> QED BY <1>1, <1>3, <1>7 DEF x, y

(* Three parts of a stream, joined.                                         *)
LEMMA Joined ==
  ASSUME NEW a \in Seq(Msg), NEW b \in Seq(Msg), NEW c \in Seq(Msg)
  PROVE  /\ Len(a) \in Nat /\ Len(b) \in Nat /\ Len(c) \in Nat
         /\ Join(a, b, c) \in Seq(Msg) /\ Len(Join(a, b, c)) = Len(a) + Len(b) + Len(c)
         /\ \A i \in 1..(Len(a) + Len(b) + Len(c)) :
              Join(a, b, c)[i] = IF i <= Len(a) THEN a[i]
                                 ELSE IF i <= Len(a) + Len(b) THEN b[i - Len(a)]
                                      ELSE c[i - (Len(a) + Len(b))]
BY DEF Join

(* The reader holds no piece: it takes the next, or drops it.               *)
LEMMA ReadPiece ==
  ASSUME NEW b \in Seq(Msg), NEW c \in Seq(Msg), b # <<>>
  PROVE  /\ Tail(b) \in Seq(Msg) /\ Head(b) \in Msg /\ Head(b) = b[1]
         /\ Append(<<>>, Head(b)) \in Seq(Msg) /\ Append(<<>>, Head(b)) # <<>>
         /\ Len(Append(<<>>, Head(b))) = 1 /\ Append(<<>>, Head(b))[1] = Head(b)
         /\ Join(<<>>, b, c) # <<>> /\ Join(<<>>, b, c)[1] = Head(b)
         /\ Join(Append(<<>>, Head(b)), Tail(b), c) = Join(<<>>, b, c)
         /\ Join(<<>>, Tail(b), c) = Tail(Join(<<>>, b, c))
<1> DEFINE a == Append(<<>>, Head(b))
           t == Tail(b)
           u == Join(<<>>, b, c)
           v == Join(a, t, c)
           w == Join(<<>>, Tail(b), c)
<1>0. Tail(b) \in Seq(Msg) /\ Head(b) \in Msg /\ Head(b) = b[1]
  OBVIOUS
<1>1. a \in Seq(Msg) /\ a # <<>> /\ Len(a) = 1 /\ a[1] = Head(b)
  BY <1>0
<1>2. u \in Seq(Msg) /\ u # <<>> /\ u[1] = b[1]
  BY DEF Join
<1>3. v = u
  <2>0. /\ Len(t) = Len(b) - 1 /\ Len(b) \in Nat /\ Len(b) >= 1 /\ t \in Seq(Msg)
        /\ \A i \in 1..(Len(b) - 1) : t[i] = b[i + 1]
    OBVIOUS
  <2>1. /\ Len(u) = Len(b) + Len(c) /\ Len(c) \in Nat
        /\ \A i \in 1..(Len(b) + Len(c)) :
             u[i] = IF i <= Len(b) THEN b[i] ELSE c[i - Len(b)]
    BY DEF Join
  <2> HIDE DEF a, t
  <2>2. /\ v \in Seq(Msg) /\ Len(v) = Len(a) + Len(t) + Len(c)
        /\ \A i \in 1..(Len(a) + Len(t) + Len(c)) :
             v[i] = IF i <= Len(a) THEN a[i]
                    ELSE IF i <= Len(a) + Len(t) THEN t[i - Len(a)]
                         ELSE c[i - (Len(a) + Len(t))]
    <3>1. a \in Seq(Msg) /\ t \in Seq(Msg)
      BY <1>1, <2>0
    <3> QED BY <3>1, Joined, Zenon
  <2> HIDE DEF v, u
  <2>3. Len(v) = Len(u)
    BY <1>1, <2>0, <2>1, <2>2
  <2>4. ASSUME NEW i \in 1..Len(v) PROVE v[i] = u[i]
    <3>0. i \in Nat /\ i >= 1 /\ i <= Len(b) + Len(c)
      BY <2>1, <2>3
    <3>1. CASE i = 1
      BY <1>0, <1>1, <1>2, <2>2, <3>0, <3>1
    <3>2. CASE i > 1 /\ i <= Len(b)
      <4>1. v[i] = t[i - 1] /\ i - 1 \in 1..(Len(b) - 1) /\ (i - 1) + 1 = i
        BY <1>1, <2>0, <2>1, <2>2, <3>0, <3>2
      <4> QED BY <2>0, <2>1, <3>0, <3>2, <4>1
    <3>3. CASE i > Len(b)
      BY <1>1, <2>0, <2>1, <2>2, <3>0, <3>3
    <3> QED BY <2>0, <3>0, <3>1, <3>2, <3>3
  <2> QED BY <1>2, <2>2, <2>3, <2>4, SeqEqual
<1>4. w = Tail(u)
  <2>1. w \in Seq(Msg) /\ Tail(u) \in Seq(Msg) /\ Len(w) = Len(Tail(u))
    BY <1>0 DEF Join
  <2>2. \A i \in 1..Len(w) : w[i] = Tail(u)[i]
    BY <1>0 DEF Join
  <2> DEFINE z == Tail(u)
  <2>3. z \in Seq(Msg) /\ Len(w) = Len(z) /\ \A i \in 1..Len(w) : w[i] = z[i]
    BY <2>1, <2>2
  <2> HIDE DEF w, z
  <2>4. w = z
    BY <2>1, <2>3, SeqEqual
  <2> QED BY <2>4 DEF z
<1> QED BY <1>0, <1>1, <1>2, <1>3, <1>4

(* The reader drops the one piece it holds.                                 *)
LEMMA DropPiece ==
  ASSUME NEW a \in Seq(Msg), NEW b \in Seq(Msg), NEW c \in Seq(Msg), Len(a) = 1
  PROVE  /\ Join(a, b, c) # <<>> /\ Join(a, b, c)[1] = a[1]
         /\ b # <<>> => Join(a, b, c)[2] = Head(b)
         /\ Join(<<>>, b, c) = Tail(Join(a, b, c))
<1> DEFINE u == Join(a, b, c)
           v == Join(<<>>, b, c)
           z == Tail(u)
<1>0. /\ u \in Seq(Msg) /\ Len(u) = Len(a) + Len(b) + Len(c)
      /\ Len(b) \in Nat /\ Len(c) \in Nat
      /\ \A i \in 1..(Len(a) + Len(b) + Len(c)) :
           u[i] = IF i <= Len(a) THEN a[i]
                  ELSE IF i <= Len(a) + Len(b) THEN b[i - Len(a)]
                       ELSE c[i - (Len(a) + Len(b))]
  BY Joined
<1>1. /\ v \in Seq(Msg) /\ Len(v) = Len(b) + Len(c)
      /\ \A i \in 1..(Len(b) + Len(c)) :
           v[i] = IF i <= Len(b) THEN b[i] ELSE c[i - Len(b)]
  BY DEF Join
<1> HIDE DEF u, v
<1>2. /\ Len(u) = 1 + Len(b) + Len(c) /\ u # <<>>
  BY <1>0
<1>3. u[1] = a[1]
  BY <1>0
<1>4. b # <<>> => u[2] = Head(b)
  <2> SUFFICES ASSUME b # <<>> PROVE u[2] = Head(b)
    OBVIOUS
  <2>1. Len(b) >= 1 /\ Head(b) = b[1]
    OBVIOUS
  <2>2. 2 - Len(a) = 1 /\ 2 \in 1..(Len(a) + Len(b) + Len(c)) /\ 2 <= Len(a) + Len(b)
    BY <1>0, <2>1
  <2> QED BY <1>0, <2>1, <2>2
<1>5. z \in Seq(Msg) /\ Len(z) = Len(u) - 1 /\ \A i \in 1..(Len(u) - 1) : z[i] = u[i + 1]
  BY <1>0, <1>2
<1> HIDE DEF z
<1>6. ASSUME NEW i \in 1..Len(v) PROVE v[i] = z[i]
  <2>0. i \in Nat /\ i >= 1 /\ i <= Len(b) + Len(c) /\ z[i] = u[i + 1]
    BY <1>0, <1>1, <1>2, <1>5
  <2>1. CASE i <= Len(b)
    <3>1. u[i + 1] = b[(i + 1) - Len(a)] /\ (i + 1) - Len(a) = i
      BY <1>0, <2>0, <2>1
    <3> QED BY <1>1, <2>0, <2>1, <3>1
  <2>2. CASE i > Len(b)
    <3>1. u[i + 1] = c[(i + 1) - (Len(a) + Len(b))]
          /\ (i + 1) - (Len(a) + Len(b)) = i - Len(b)
      BY <1>0, <2>0, <2>2
    <3> QED BY <1>0, <1>1, <2>0, <2>2, <3>1
  <2> QED BY <1>0, <2>0, <2>1, <2>2
<1>7. v = z
  BY <1>0, <1>1, <1>2, <1>5, <1>6, SeqEqual
<1> QED BY <1>2, <1>3, <1>4, <1>7 DEF u, v, z

(* A line of two pieces has been read.                                      *)
LEMMA DropLine ==
  ASSUME NEW a \in Seq(Msg), NEW b \in Seq(Msg), NEW c \in Seq(Msg), Len(a) = 1, b # <<>>
  PROVE  /\ Join(a, b, c) # <<>> /\ Tail(Join(a, b, c)) # <<>>
         /\ Join(a, b, c)[1] = a[1] /\ Join(a, b, c)[2] = Head(b)
         /\ Tail(Join(a, b, c))[1] = Head(b)
         /\ Join(<<>>, Tail(b), c) = Tail(Tail(Join(a, b, c)))
<1>1. /\ Join(a, b, c) # <<>> /\ Join(a, b, c)[1] = a[1] /\ Join(a, b, c)[2] = Head(b)
      /\ Join(<<>>, b, c) = Tail(Join(a, b, c))
  BY DropPiece
<1>2. /\ Join(<<>>, b, c) # <<>> /\ Join(<<>>, b, c)[1] = Head(b)
      /\ Join(<<>>, Tail(b), c) = Tail(Join(<<>>, b, c))
  BY ReadPiece
<1> QED BY <1>1, <1>2

(* A frame is queued behind the pieces that wait.                           *)
LEMMA QueuedFrame ==
  ASSUME NEW a \in Seq(Msg), NEW b \in Seq(Msg), NEW c \in Seq(Msg), NEW f \in Seq(Msg)
  PROVE  Then(c, f) \in Seq(Msg) /\ Join(a, b, Then(c, f)) = Then(Join(a, b, c), f)
<1> DEFINE u == Join(a, b, Then(c, f))
           v == Then(Join(a, b, c), f)
<1>2. u \in Seq(Msg) /\ v \in Seq(Msg) /\ Len(u) = Len(v)
  BY DEF Join, Then
<1>3. \A i \in 1..Len(u) : u[i] = v[i]
  BY DEF Join, Then
<1> HIDE DEF u, v
<1>4. u = v
  BY <1>2, <1>3, SeqEqual
<1>5. Then(c, f) \in Seq(Msg)
  BY DEF Then
<1> QED BY <1>4, <1>5 DEF u, v

-----------------------------------------------------------------------------
(* The invariant                                                            *)

(* What is on its way to the broker, and back.                              *)
ToBroker == Join(framer.buf, up, outgoing)
ToClient == Join(rx, down, writes)

States == {"new", "waiting", "ready", "pending", "ok", "timeout", "unavailable"}

(* The states and the sequences of pieces; no request ends as malformed.    *)
Typed ==
  /\ st \in [Req -> States]
  /\ srv \in [Req -> {"none", "running", "done"}]
  /\ peer \in {"open", "dead", "ended"}
  /\ open \in BOOLEAN /\ connecting \in BOOLEAN
  /\ framer \in [buf : Seq(Msg), discarding : BOOLEAN]
  /\ up \in Seq(Msg) /\ outgoing \in Seq(Msg)
  /\ rx \in Seq(Msg) /\ down \in Seq(Msg) /\ writes \in Seq(Msg)

(* Only an open client has requests on the wire.                            *)
ConnInv ==
  /\ connecting => ~open
  /\ \A r \in Req : st[r] = "pending" => open
  /\ peer = "ended" => writes = <<>>

UpOK(u) == Chained(u) /\ EndsClosed(u) /\ StartsOpen(u)

(* The framer of a healthy socket holds at most the first piece of a line.  *)
UpInv ==
  peer = "open" => /\ Len(framer.buf) <= 1
                   /\ framer.discarding => framer.buf # <<>>
                   /\ UpOK(ToBroker)

(* A last piece without its first one is left of a request that timed out.  *)
DownOK(d, s, p) ==
  /\ Chained(d) /\ Replies(d)
  /\ p = "open" => EndsClosed(d)
  /\ d # <<>> /\ d[1].last => s[d[1].id] \in Settled

DownInv ==
  /\ Len(rx) <= 1
  /\ rx # <<>> => ~rx[1].last
  /\ DownOK(ToClient, st, peer)

Awaited ==
  \A r \in Req : st[r] = "pending" /\ peer = "open" =>
    Holds(ToBroker, r, "request") \/ srv[r] = "running" \/ Holds(ToClient, r, "final")

TransportInv == Typed /\ ConnInv /\ UpInv /\ DownInv /\ Awaited

LEMMA StreamTypes ==
  ASSUME Typed
  PROVE  ToBroker \in Seq(Msg) /\ ToClient \in Seq(Msg)
BY Joined DEF Typed, ToBroker, ToClient

LEMMA TransportInvInit == TransportInit => TransportInv
<1> SUFFICES ASSUME TransportInit PROVE TransportInv
  OBVIOUS
<1>1. Join(<<>>, <<>>, <<>>) = <<>>
  BY DEF Join
<1>2. ToBroker = <<>> /\ ToClient = <<>>
  BY <1>1 DEF TransportInit, ToBroker, ToClient, EmptyFramer
<1>3. Typed
  <2>1. <<>> \in Seq(Msg)
    BY EmptySeq
  <2> QED BY <2>1 DEF TransportInit, Typed, EmptyFramer, States
<1>7. ConnInv
  BY DEF TransportInit, ConnInv
<1>4. Chained(<<>>) /\ EndsClosed(<<>>) /\ StartsOpen(<<>>) /\ Replies(<<>>)
  BY DEF Chained, EndsClosed, StartsOpen, Replies
<1>5. UpInv /\ DownInv
  BY <1>2, <1>4 DEF TransportInit, UpInv, DownInv, UpOK, DownOK, EmptyFramer
<1>6. Awaited
  BY DEF TransportInit, Awaited
<1> QED BY <1>3, <1>5, <1>6, <1>7 DEF TransportInv

(* The invariant bears on the streams, not on how they are spread.          *)
LEMMA InvImplies ==
  ASSUME TransportInv
  PROVE  ReplyNotLost
<1> SUFFICES ASSUME NEW r \in Req
             PROVE  /\ st[r] # "malformed"
                    /\ st[r] = "pending" /\ peer = "open" =>
                         \/ Carries(framer.buf \o up \o outgoing, Frame(r, "request"))
                         \/ srv[r] = "running"
                         \/ Carries(rx \o down \o writes, Frame(r, "final"))
  BY DEF ReplyNotLost
<1>1. st[r] # "malformed"
  BY DEF TransportInv, Typed, States
<1>2. ToBroker \in Seq(Msg) /\ ToClient \in Seq(Msg)
  BY StreamTypes DEF TransportInv
<1>3. /\ ToBroker = framer.buf \o up \o outgoing
      /\ ToClient = rx \o down \o writes
  BY DEF ToBroker, ToClient, Join
<1>4. Holds(ToBroker, r, "request") => Carries(ToBroker, Frame(r, "request"))
  BY <1>2, ContainsHolds
<1>5. Holds(ToClient, r, "final") => Carries(ToClient, Frame(r, "final"))
  BY <1>2, ContainsHolds
<1>6. st[r] = "pending" /\ peer = "open" =>
         Holds(ToBroker, r, "request") \/ srv[r] = "running" \/ Holds(ToClient, r, "final")
  BY DEF TransportInv, Awaited
<1> QED BY <1>1, <1>3, <1>4, <1>5, <1>6, Zenon

LEMMA FirstPiece ==
  ASSUME NEW d \in Seq(Msg), d # <<>>
  PROVE  d[1] \in Msg /\ d[1].id \in Req /\ d[1].kind \in Kinds /\ d[1].last \in BOOLEAN
<1>1. d[1] \in Msg
  OBVIOUS
<1> QED BY <1>1 DEF Msg

LEMMA OnePiece ==
  ASSUME NEW s \in Seq(Msg), s # <<>>, Len(s) <= 1
  PROVE  Len(s) = 1 /\ s[1] \in Msg
<1>1. Len(s) \in Nat \ {0}
  BY EmptySeq
<1> QED BY <1>1

(* A line of two pieces.                                                    *)
LEMMA OneMore ==
  ASSUME NEW s \in Seq(Msg), s # <<>>, Len(s) <= 1, NEW p \in Msg
  PROVE  Append(s, p) = <<s[1], p>>
<1> DEFINE u == Append(s, p)
           v == <<s[1], p>>
<1>1. Len(s) = 1 /\ s[1] \in Msg
  BY OnePiece
<1>2. u \in Seq(Msg) /\ Len(u) = 2 /\ u[1] = s[1] /\ u[2] = p
  <2>1. /\ u \in Seq(Msg) /\ Len(u) = Len(s) + 1 /\ u[Len(s) + 1] = p
        /\ \A i \in 1..Len(s) : u[i] = s[i]
    BY AppendProperties
  <2> HIDE DEF u
  <2> QED BY <1>1, <2>1
<1>3. v \in Seq(Msg) /\ Len(v) = 2 /\ v[1] = s[1] /\ v[2] = p
  BY <1>1
<1> HIDE DEF u, v
<1>4. \A i \in 1..Len(u) : u[i] = v[i]
  BY <1>2, <1>3
<1>5. u = v
  BY <1>2, <1>3, <1>4, SeqEqual
<1> QED BY <1>5 DEF u, v

(* The stream to the client stays, and what has settled stays settled.      *)
LEMMA DownKept ==
  ASSUME NEW d \in Seq(Msg), NEW s, NEW t, NEW p, NEW q, DownOK(d, s, p),
         \A r \in Req : s[r] \in Settled => t[r] \in Settled, q = "open" => p = "open"
  PROVE  DownOK(d, t, q)
<1>1. d # <<>> => d[1].id \in Req
  BY FirstPiece
<1> QED BY <1>1 DEF DownOK

(* The client drops the first piece.                                        *)
LEMMA DownTail ==
  ASSUME NEW d \in Seq(Msg), NEW s, NEW t, NEW p, d # <<>>, DownOK(d, s, p),
         d[1].last \/ t[d[1].id] \in Settled
  PROVE  /\ DownOK(Tail(d), t, p)
         /\ \A r, k : Holds(d, r, k) => Holds(Tail(d), r, k) \/ d[1] = Opening(r, k)
<1>1. /\ Chained(Tail(d)) /\ Replies(Tail(d))
      /\ p = "open" => EndsClosed(Tail(d))
      /\ d[1].last => StartsOpen(Tail(d))
      /\ Tail(d) # <<>> /\ ~d[1].last => Tail(d)[1] = Closing(d[1])
  BY TailStream DEF DownOK
<1>2. \A r, k : Holds(d, r, k) => Holds(Tail(d), r, k) \/ d[1] = Opening(r, k)
  BY TailStream DEF DownOK
<1>3. Closing(d[1]).id = d[1].id
  BY DEF Closing
<1>4. Tail(d) # <<>> /\ Tail(d)[1].last => t[Tail(d)[1].id] \in Settled
  BY <1>1, <1>3 DEF StartsOpen
<1> QED BY <1>1, <1>2, <1>4 DEF DownOK

(* The client reads the first line.                                         *)
LEMMA DownLine ==
  ASSUME NEW d \in Seq(Msg), NEW s, NEW t, NEW p, d # <<>>, Tail(d) # <<>>,
         DownOK(d, s, p), ~d[1].last
  PROVE  /\ DownOK(Tail(Tail(d)), t, p) /\ Tail(d)[1] = Closing(d[1])
         /\ \A r, k : Holds(d, r, k) => Holds(Tail(Tail(d)), r, k) \/ d[1] = Opening(r, k)
<1>1. /\ Tail(d)[1] = Closing(d[1])
      /\ Chained(Tail(Tail(d))) /\ Replies(Tail(Tail(d))) /\ StartsOpen(Tail(Tail(d)))
      /\ p = "open" => EndsClosed(Tail(Tail(d)))
  BY LineRead DEF DownOK
<1>2. \A r, k : Holds(d, r, k) => Holds(Tail(Tail(d)), r, k) \/ d[1] = Opening(r, k)
  BY LineRead DEF DownOK
<1> QED BY <1>1, <1>2 DEF DownOK, StartsOpen

(* The broker adds a response.                                              *)
LEMMA DownFrame ==
  ASSUME NEW d \in Seq(Msg), NEW s, DownOK(d, s, "open"), NEW r \in Req,
         NEW k \in {"progress", "final"}
  PROVE  /\ DownOK(Then(d, Frame(r, k)), s, "open") /\ Holds(Then(d, Frame(r, k)), r, k)
         /\ \A q, j : Holds(d, q, j) => Holds(Then(d, Frame(r, k)), q, j)
<1> DEFINE e == Then(d, Frame(r, k))
<1>0. k \in Kinds /\ k # "request" /\ Chained(d) /\ EndsClosed(d) /\ Replies(d)
  BY DEF Kinds, DownOK
<1>1. /\ e \in Seq(Msg) /\ Chained(e) /\ EndsClosed(e) /\ Holds(e, r, k) /\ Replies(e)
      /\ d # <<>> => e[1] = d[1]
      /\ d = <<>> => e[1] = Opening(r, k)
  BY <1>0, AppendedFrame
<1>2. \A q, j : Holds(d, q, j) => Holds(e, q, j)
  BY <1>0, AppendedFrame
<1> HIDE DEF e
<1>3. e[1].last => d # <<>> /\ d[1].last
  BY <1>1 DEF Opening
<1>4. e # <<>> /\ e[1].last => s[e[1].id] \in Settled
  BY <1>1, <1>3 DEF DownOK
<1> QED BY <1>1, <1>2, <1>4 DEF DownOK, e

(* The broker's end is gone with what it had not written.                   *)
LEMMA DownCut ==
  ASSUME NEW a \in Seq(Msg), NEW b \in Seq(Msg), NEW c \in Seq(Msg), NEW s, NEW p,
         DownOK(Join(a, b, c), s, p)
  PROVE  DownOK(Join(a, b, <<>>), s, "ended")
<1> DEFINE x == a \o b
<1>1. x \in Seq(Msg) /\ Join(a, b, <<>>) = x /\ Join(a, b, c) = x \o c
  BY DEF Join
<1> HIDE DEF x
<1>2. /\ Chained(x) /\ Replies(x)
      /\ x # <<>> => x \o c # <<>> /\ (x \o c)[1] = x[1]
  BY <1>1, CutStream DEF DownOK
<1>3. x # <<>> /\ x[1].last => s[x[1].id] \in Settled
  BY <1>1, <1>2 DEF DownOK
<1> QED BY <1>1, <1>2, <1>3 DEF DownOK

-----------------------------------------------------------------------------
(* The steps of the client                                                  *)

(* The stream to the broker of a flush of what waits.                       *)
LEMMA FlushedUp ==
  ASSUME TransportInv, NEW f \in Seq(Msg), FlushWrites(outgoing \o f), framer' = framer
  PROVE  up' \in Seq(Msg) /\ outgoing' \in Seq(Msg) /\ ToBroker' = Then(ToBroker, f)
<1> DEFINE out == Then(outgoing, f)
<1>1. up \in Seq(Msg) /\ outgoing \in Seq(Msg) /\ framer.buf \in Seq(Msg)
  BY DEF TransportInv, Typed
<1>2. out \in Seq(Msg) /\ Join(framer.buf, up, out) = Then(Join(framer.buf, up, outgoing), f)
  BY <1>1, QueuedFrame
<1> HIDE DEF out
<1>3. FlushWrites(out)
  BY DEF out, Then
<1>4. PICK n \in 0..Len(out) : /\ up' = up \o SubSeq(out, 1, n)
                               /\ outgoing' = SubSeq(out, n + 1, Len(out))
  BY <1>3 DEF FlushWrites
<1>5. /\ up \o SubSeq(out, 1, n) \in Seq(Msg) /\ SubSeq(out, n + 1, Len(out)) \in Seq(Msg)
      /\ Join(framer.buf, up \o SubSeq(out, 1, n), SubSeq(out, n + 1, Len(out)))
           = Join(framer.buf, up, out)
  BY <1>1, <1>2, Flushed
<1> QED BY <1>2, <1>4, <1>5 DEF ToBroker

(* request() with a socket: the frame is queued behind the others.          *)
LEMMA SendInv ==
  ASSUME TransportInv, NEW r \in Req, st[r] \notin Settled, open, Send(r),
         UNCHANGED <<open, connecting, rx, down, server>>
  PROVE  TransportInv'
<1> DEFINE f == Frame(r, "request")
<1>0. /\ framer' = framer /\ srv' = srv /\ writes' = writes /\ peer' = peer
      /\ rx' = rx /\ down' = down /\ open' = open /\ connecting' = connecting
      /\ st' = [st EXCEPT ![r] = "pending"] /\ FlushWrites(outgoing \o f)
  BY DEF server, Send
<1>1. f \in Seq(Msg)
  BY FrameType DEF Kinds
<1>2. up' \in Seq(Msg) /\ outgoing' \in Seq(Msg) /\ ToBroker' = Then(ToBroker, f)
  BY <1>0, <1>1, FlushedUp
<1>3. ToClient' = ToClient
  BY <1>0 DEF ToClient
<1>4. ToBroker \in Seq(Msg) /\ ToClient \in Seq(Msg)
  BY StreamTypes DEF TransportInv
<1>5. Typed'
  BY <1>0, <1>2 DEF TransportInv, Typed, States
<1>6. ConnInv'
  BY <1>0 DEF TransportInv, ConnInv, Typed
<1>7. ASSUME peer = "open"
      PROVE  /\ UpOK(Then(ToBroker, f)) /\ Holds(Then(ToBroker, f), r, "request")
             /\ \A q, j : Holds(ToBroker, q, j) => Holds(Then(ToBroker, f), q, j)
  <2>1. UpOK(ToBroker) /\ "request" \in Kinds
    BY <1>7 DEF TransportInv, UpInv, Kinds
  <2>2. /\ Chained(Then(ToBroker, f)) /\ EndsClosed(Then(ToBroker, f))
        /\ StartsOpen(Then(ToBroker, f))
        /\ Holds(Then(ToBroker, f), r, "request")
    BY <1>4, <2>1, AppendedFrame DEF UpOK
  <2>3. \A q, j : Holds(ToBroker, q, j) => Holds(Then(ToBroker, f), q, j)
    BY <1>4, <2>1, AppendedFrame DEF UpOK
  <2> QED BY <2>2, <2>3 DEF UpOK
<1> HIDE DEF f
<1>8. UpInv'
  BY <1>0, <1>2, <1>7 DEF TransportInv, UpInv
<1>9. DownInv'
  <2>1. \A q \in Req : st[q] \in Settled => st'[q] \in Settled
    BY <1>0 DEF TransportInv, Typed
  <2>2. DownOK(ToClient, st', peer)
    BY <1>4, <2>1, DownKept DEF TransportInv, DownInv
  <2> QED BY <1>0, <1>3, <2>2 DEF TransportInv, DownInv
<1>10. Awaited'
  <2> SUFFICES ASSUME NEW q \in Req, st'[q] = "pending", peer' = "open"
               PROVE  \/ Holds(ToBroker', q, "request") \/ srv'[q] = "running"
                      \/ Holds(ToClient', q, "final")
    BY DEF Awaited
  <2>1. CASE q = r
    BY <1>0, <1>2, <1>7, <2>1
  <2>2. CASE q # r
    <3>1. st[q] = "pending"
      BY <1>0, <2>2 DEF TransportInv, Typed
    <3> QED BY <1>0, <1>2, <1>3, <1>7, <3>1 DEF TransportInv, Awaited
  <2> QED BY <2>1, <2>2
<1> QED BY <1>5, <1>6, <1>8, <1>9, <1>10 DEF TransportInv

(* Steps that leave the streams and the server alone and put nothing on the *)
(* wire: a request waits for a connection, or is rejected.                  *)
LEMMA QuietInv ==
  ASSUME TransportInv, UNCHANGED <<open, outgoing, rx, up, down, server>>,
         connecting' \in BOOLEAN, connecting' => ~open, st' \in [Req -> States],
         \A q \in Req : st'[q] = "pending" => st[q] = "pending",
         \A q \in Req : st[q] \in Settled => st'[q] \in Settled
  PROVE  TransportInv'
<1>0. /\ framer' = framer /\ srv' = srv /\ writes' = writes /\ peer' = peer /\ up' = up
      /\ rx' = rx /\ down' = down /\ open' = open /\ outgoing' = outgoing
  BY DEF server
<1>1. ToBroker' = ToBroker /\ ToClient' = ToClient
  BY <1>0 DEF ToBroker, ToClient
<1>2. ToClient \in Seq(Msg)
  BY StreamTypes DEF TransportInv
<1>3. Typed'
  BY <1>0 DEF TransportInv, Typed
<1>4. ConnInv'
  BY <1>0 DEF TransportInv, ConnInv
<1>5. UpInv'
  BY <1>0, <1>1 DEF TransportInv, UpInv
<1>6. DownInv'
  <2>1. DownOK(ToClient, st', peer)
    BY <1>2, DownKept DEF TransportInv, DownInv
  <2> QED BY <1>0, <1>1, <2>1 DEF TransportInv, DownInv
<1>7. Awaited'
  BY <1>0, <1>1 DEF TransportInv, Awaited
<1> QED BY <1>3, <1>4, <1>5, <1>6, <1>7 DEF TransportInv

LEMMA RequestInv ==
  ASSUME TransportInv, NEW r \in Req, Request(r)
  PROVE  TransportInv'
<1>1. CASE open
  <2>1. /\ st[r] \notin Settled /\ Send(r)
        /\ UNCHANGED <<open, connecting, rx, down, server>>
    BY <1>1 DEF Request, Settled
  <2> QED BY <1>1, <2>1, SendInv
<1>2. CASE ~open
  <2>1. /\ st[r] = "new" /\ st' = [st EXCEPT ![r] = "waiting"] /\ connecting' = TRUE
        /\ UNCHANGED <<open, outgoing, rx, up, down, server>>
    BY <1>2 DEF Request
  <2>2. /\ st' \in [Req -> States]
        /\ \A q \in Req : st'[q] = "pending" => st[q] = "pending"
        /\ \A q \in Req : st[q] \in Settled => st'[q] \in Settled
    BY <2>1 DEF TransportInv, Typed, States, Settled
  <2> QED BY <1>2, <2>1, <2>2, QuietInv
<1> QED BY <1>1, <1>2

LEMMA ContinueInv ==
  ASSUME TransportInv, NEW r \in Req, Continue(r)
  PROVE  TransportInv'
<1>1. CASE open
  <2>1. /\ st[r] \notin Settled /\ Send(r)
        /\ UNCHANGED <<open, connecting, rx, down, server>>
    BY <1>1 DEF Continue, Settled
  <2> QED BY <1>1, <2>1, SendInv
<1>2. CASE ~open
  <2>1. /\ st[r] = "ready" /\ st' = [st EXCEPT ![r] = "unavailable"]
        /\ connecting' = connecting
        /\ UNCHANGED <<open, outgoing, rx, up, down, server>>
    BY <1>2 DEF Continue
  <2>2. /\ st' \in [Req -> States] /\ connecting' \in BOOLEAN /\ ~open
        /\ \A q \in Req : st'[q] = "pending" => st[q] = "pending"
        /\ \A q \in Req : st[q] \in Settled => st'[q] \in Settled
    BY <1>2, <2>1 DEF TransportInv, Typed, States, Settled
  <2> QED BY <2>1, <2>2, QuietInv
<1> QED BY <1>1, <1>2

LEMMA ConnectFailsInv ==
  ASSUME TransportInv, ConnectFails
  PROVE  TransportInv'
<1>1. /\ connecting' = FALSE
      /\ st' = [r \in Req |-> IF st[r] = "waiting" THEN "unavailable" ELSE st[r]]
      /\ UNCHANGED <<open, outgoing, rx, up, down, server>>
  BY DEF ConnectFails
<1>2. /\ st' \in [Req -> States]
      /\ \A q \in Req : st'[q] = "pending" => st[q] = "pending"
      /\ \A q \in Req : st[q] \in Settled => st'[q] \in Settled
  BY <1>1 DEF TransportInv, Typed, States, Settled
<1> QED BY <1>1, <1>2, QuietInv

(* The pieces that wait are written: the stream is the same.                *)
LEMMA ClientDrainInv ==
  ASSUME TransportInv, ClientDrain
  PROVE  TransportInv'
<1>0. /\ framer' = framer /\ srv' = srv /\ writes' = writes /\ peer' = peer /\ st' = st
      /\ rx' = rx /\ down' = down /\ open' = open /\ connecting' = connecting
      /\ FlushWrites(outgoing)
  BY DEF ClientDrain, server
<1>1. /\ up \in Seq(Msg) /\ outgoing \in Seq(Msg) /\ framer.buf \in Seq(Msg)
  BY DEF TransportInv, Typed
<1>2. PICK n \in 0..Len(outgoing) : /\ up' = up \o SubSeq(outgoing, 1, n)
                                    /\ outgoing' = SubSeq(outgoing, n + 1, Len(outgoing))
  BY <1>0 DEF FlushWrites
<1> DEFINE x == up \o SubSeq(outgoing, 1, n)
           y == SubSeq(outgoing, n + 1, Len(outgoing))
<1>3. /\ x \in Seq(Msg) /\ y \in Seq(Msg)
      /\ Join(framer.buf, x, y) = Join(framer.buf, up, outgoing)
  BY <1>1, Flushed
<1> HIDE DEF x, y
<1>4. up' = x /\ outgoing' = y
  BY <1>2 DEF x, y
<1>5. ToBroker' = ToBroker /\ ToClient' = ToClient
  BY <1>0, <1>3, <1>4 DEF ToBroker, ToClient
<1>6. Typed'
  BY <1>0, <1>3, <1>4 DEF TransportInv, Typed
<1>7. ConnInv' /\ UpInv' /\ Awaited'
  BY <1>0, <1>5 DEF TransportInv, ConnInv, UpInv, Awaited
<1>8. DownInv'
  BY <1>0, <1>5 DEF TransportInv, DownInv
<1> QED BY <1>6, <1>7, <1>8 DEF TransportInv

(* The client's end is closed: nothing is on the wire and nobody waits.     *)
LEMMA ClosedInv ==
  ASSUME TransportInv, NEW s \in [Req -> States], st' = s,
         \A r \in Req : s[r] # "pending",
         rx' = <<>> /\ down' = <<>> /\ writes' = <<>> /\ up' = <<>> /\ outgoing' = <<>>,
         open' \in BOOLEAN, connecting' \in BOOLEAN, connecting' => ~open',
         srv' \in [Req -> {"none", "running", "done"}],
         \/ peer' = "ended" /\ framer' = framer
         \/ peer' = "open" /\ framer' = EmptyFramer
  PROVE  TransportInv'
<1>0. <<>> \in Seq(Msg) /\ Len(<<>>) = 0
  BY EmptySeq
<1>1. Join(<<>>, <<>>, <<>>) = <<>>
  BY DEF Join
<1>2. Chained(<<>>) /\ EndsClosed(<<>>) /\ StartsOpen(<<>>) /\ Replies(<<>>)
  BY DEF Chained, EndsClosed, StartsOpen, Replies
<1>3. framer' \in [buf : Seq(Msg), discarding : BOOLEAN] /\ peer' \in {"open", "dead", "ended"}
  <2>1. EmptyFramer \in [buf : Seq(Msg), discarding : BOOLEAN]
    BY <1>0 DEF EmptyFramer
  <2> QED BY <2>1 DEF TransportInv, Typed
<1>4. Typed'
  BY <1>0, <1>3 DEF Typed
<1>5. ConnInv'
  BY DEF ConnInv
<1>6. UpInv'
  <2>1. peer' = "open" => framer'.buf = <<>> /\ framer'.discarding = FALSE
    BY DEF EmptyFramer
  <2>2. peer' = "open" => ToBroker' = <<>>
    BY <1>1, <2>1 DEF ToBroker
  <2> QED BY <1>0, <1>2, <2>1, <2>2 DEF UpInv, UpOK
<1>7. DownInv'
  <2>1. ToClient' = <<>>
    BY <1>1 DEF ToClient
  <2> QED BY <1>0, <1>2, <2>1 DEF DownInv, DownOK
<1>8. Awaited'
  BY DEF Awaited
<1> QED BY <1>4, <1>5, <1>6, <1>7, <1>8 DEF TransportInv

LEMMA Failed ==
  ASSUME Typed
  PROVE  LET s == [r \in Req |-> IF st[r] = "pending" THEN "unavailable" ELSE st[r]]
         IN  s \in [Req -> States] /\ \A r \in Req : s[r] # "pending"
BY DEF Typed, States

LEMMA ClientClosesInv ==
  ASSUME TransportInv, ClientCloses
  PROVE  TransportInv'
<1> DEFINE s == [r \in Req |-> IF st[r] = "pending" THEN "unavailable" ELSE st[r]]
<1>1. s \in [Req -> States] /\ \A r \in Req : s[r] # "pending"
  BY Failed DEF TransportInv
<1>2. /\ st' = s /\ open' = FALSE /\ outgoing' = <<>> /\ rx' = <<>> /\ up' = <<>>
      /\ down' = <<>> /\ peer' = "ended" /\ writes' = <<>> /\ srv' = srv
      /\ connecting' = connecting /\ framer' = framer
  BY DEF ClientCloses, Disconnect, FailPending
<1> HIDE DEF s
<1>3. connecting' \in BOOLEAN /\ srv' \in [Req -> {"none", "running", "done"}]
  BY <1>2 DEF TransportInv, Typed
<1> QED BY <1>1, <1>2, <1>3, ClosedInv

LEMMA PeerClosesInv ==
  ASSUME TransportInv, PeerCloses
  PROVE  TransportInv'
<1> DEFINE s == [r \in Req |-> IF st[r] = "pending" THEN "unavailable" ELSE st[r]]
<1>1. s \in [Req -> States] /\ \A r \in Req : s[r] # "pending"
  BY Failed DEF TransportInv
<1>2. /\ st' = s /\ open' = FALSE /\ outgoing' = <<>> /\ rx' = <<>> /\ up' = <<>>
      /\ down' = <<>> /\ peer' = "ended" /\ peer = "ended" /\ writes' = writes /\ srv' = srv
      /\ connecting' = connecting /\ framer' = framer
  BY DEF PeerCloses, Disconnect, FailPending, server
<1> HIDE DEF s
<1>3. /\ connecting' \in BOOLEAN /\ srv' \in [Req -> {"none", "running", "done"}]
      /\ writes' = <<>>
  BY <1>2 DEF TransportInv, Typed, ConnInv
<1> QED BY <1>1, <1>2, <1>3, ClosedInv

LEMMA AbandonedType ==
  ASSUME Typed
  PROVE  Abandoned \in [Req -> {"none", "running", "done"}]
BY DEF Typed, Abandoned

LEMMA ConnectOkInv ==
  ASSUME TransportInv, ConnectOk
  PROVE  TransportInv'
<1> DEFINE s == [r \in Req |-> IF st[r] = "waiting" THEN "ready" ELSE st[r]]
<1>1. s \in [Req -> States] /\ \A r \in Req : s[r] # "pending"
  BY DEF TransportInv, Typed, ConnInv, States, ConnectOk
<1>2. /\ st' = s /\ open' = TRUE /\ connecting' = FALSE /\ outgoing' = <<>> /\ rx' = <<>>
      /\ up' = <<>> /\ down' = <<>> /\ peer' = "open" /\ writes' = <<>>
      /\ srv' = Abandoned /\ framer' = EmptyFramer
  BY DEF ConnectOk
<1> HIDE DEF s
<1>3. srv' \in [Req -> {"none", "running", "done"}]
  BY <1>2, AbandonedType DEF TransportInv
<1> QED BY <1>1, <1>2, <1>3, ClosedInv

(* A request times out: the part of its reply that is here goes with it.    *)
LEMMA OnTimeoutInv ==
  ASSUME TransportInv, NEW r \in Req, OnTimeout(r)
  PROVE  TransportInv'
<1>0. /\ framer' = framer /\ srv' = srv /\ writes' = writes /\ peer' = peer
      /\ down' = down /\ open' = open /\ connecting' = connecting
      /\ up' = up /\ outgoing' = outgoing
      /\ st' = [st EXCEPT ![r] = "timeout"]
      /\ rx' = IF StartsFrame(rx, r) THEN <<>> ELSE rx
  BY DEF OnTimeout, server
<1>1. /\ st' \in [Req -> States]
      /\ \A q \in Req : st'[q] = "pending" => st[q] = "pending" /\ q # r
      /\ \A q \in Req : st[q] \in Settled => st'[q] \in Settled
      /\ st'[r] \in Settled
  BY <1>0 DEF TransportInv, Typed, States, Settled
<1>2. CASE ~StartsFrame(rx, r)
  <2>1. UNCHANGED <<open, outgoing, rx, up, down, server>>
    BY <1>2 DEF OnTimeout
  <2>2. connecting' \in BOOLEAN /\ (connecting' => ~open)
    BY <1>0 DEF TransportInv, Typed, ConnInv
  <2> QED BY <1>1, <2>1, <2>2, QuietInv
<1>3. CASE StartsFrame(rx, r)
  <2>0. /\ rx \in Seq(Msg) /\ down \in Seq(Msg) /\ writes \in Seq(Msg) /\ Len(rx) <= 1
        /\ rx # <<>> /\ rx[1].id = r /\ rx' = <<>>
    BY <1>0, <1>3 DEF TransportInv, Typed, DownInv, StartsFrame
  <2>1. Len(rx) = 1
    BY <2>0, OnePiece
  <2>2. /\ ToClient # <<>> /\ ToClient[1] = rx[1]
        /\ Join(<<>>, down, writes) = Tail(ToClient)
    BY <2>0, <2>1, DropPiece DEF ToClient
  <2>3. ToClient' = Tail(ToClient) /\ ToBroker' = ToBroker
    BY <1>0, <2>0, <2>2 DEF ToClient, ToBroker
  <2>4. ToClient \in Seq(Msg)
    BY StreamTypes DEF TransportInv
  <2>5. DownOK(ToClient, st, peer) /\ st'[ToClient[1].id] \in Settled
    BY <1>1, <2>0, <2>2 DEF TransportInv, DownInv
  <2>6. /\ DownOK(Tail(ToClient), st', peer)
        /\ \A q, k : Holds(ToClient, q, k) =>
             Holds(Tail(ToClient), q, k) \/ ToClient[1] = Opening(q, k)
    BY <2>2, <2>4, <2>5, DownTail
  <2>7. Typed'
    <3>1. <<>> \in Seq(Msg)
      BY EmptySeq
    <3> QED BY <1>0, <1>1, <2>0, <3>1 DEF TransportInv, Typed
  <2>8. ConnInv' /\ UpInv'
    BY <1>0, <1>1, <2>3 DEF TransportInv, ConnInv, UpInv
  <2>9. DownInv'
    <3>1. Len(<<>>) <= 1
      OBVIOUS
    <3> QED BY <1>0, <2>0, <2>3, <2>6, <3>1 DEF DownInv
  <2>10. Awaited'
    <3> SUFFICES ASSUME NEW q \in Req, st'[q] = "pending", peer' = "open"
                 PROVE  \/ Holds(ToBroker', q, "request") \/ srv'[q] = "running"
                        \/ Holds(ToClient', q, "final")
      BY DEF Awaited
    <3>1. st[q] = "pending" /\ q # r /\ peer = "open"
      BY <1>0, <1>1
    <3>2. ToClient[1] # Opening(q, "final")
      BY <2>0, <2>2, <3>1 DEF Opening
    <3>3. Holds(ToClient, q, "final") => Holds(Tail(ToClient), q, "final")
      BY <2>6, <3>2
    <3> QED BY <1>0, <2>3, <3>1, <3>3 DEF TransportInv, Awaited
  <2> QED BY <2>7, <2>8, <2>9, <2>10 DEF TransportInv
<1> QED BY <1>2, <1>3

(* What a complete line does.                                               *)
LEMMA LineTaken ==
  ASSUME Typed, NEW r \in Req, NEW k \in {"progress", "final"}, TakeLine(Frame(r, k))
  PROVE  /\ st' \in [Req -> States]
         /\ \A q \in Req : st'[q] = "pending" => st[q] = "pending" /\ (q # r \/ k # "final")
         /\ \A q \in Req : st[q] \in Settled => st'[q] \in Settled
<1> DEFINE f == Frame(r, k)
<1>1. f[1].id = r
  BY DEF Frame
<1>2. f = Frame(r, "progress") <=> k = "progress"
  BY DEF Frame
<1>3. f = Frame(r, "final") <=> k = "final"
  BY DEF Frame
<1> HIDE DEF f
<1>4. TakeLine(f)
  BY DEF f
<1>5. CASE st[r] # "pending"
  <2>1. st' = st
    BY <1>1, <1>4, <1>5 DEF TakeLine
  <2> QED BY <1>5, <2>1 DEF Typed
<1>6. CASE st[r] = "pending" /\ k = "progress"
  <2>1. st' = st
    BY <1>1, <1>2, <1>3, <1>4, <1>6 DEF TakeLine
  <2> QED BY <1>6, <2>1 DEF Typed
<1>7. CASE st[r] = "pending" /\ k = "final"
  <2>1. st' = [st EXCEPT ![r] = "ok"]
    BY <1>1, <1>2, <1>3, <1>4, <1>7 DEF TakeLine
  <2> QED BY <1>7, <2>1 DEF Typed, States, Settled
<1> QED BY <1>5, <1>6, <1>7

(* A piece arrives: it starts a line, ends one, or ends one whose request   *)
(* has timed out.                                                           *)
LEMMA ClientDataInv ==
  ASSUME TransportInv, ClientData
  PROVE  TransportInv'
<1> DEFINE h == Head(down)
           line == Append(rx, h)
<1>0. /\ framer' = framer /\ srv' = srv /\ writes' = writes /\ peer' = peer
      /\ down # <<>> /\ down' = Tail(down) /\ open' = open /\ connecting' = connecting
      /\ up' = up /\ outgoing' = outgoing
      /\ h.last => rx' = <<>> /\ TakeLine(line)
      /\ ~h.last => rx' = line /\ st' = st
  BY DEF ClientData, server
<1>1. /\ rx \in Seq(Msg) /\ down \in Seq(Msg) /\ writes \in Seq(Msg)
      /\ Len(rx) <= 1 /\ Len(rx) \in Nat
      /\ DownOK(ToClient, st, peer)
  BY DEF TransportInv, Typed, DownInv
<1>2. ToClient \in Seq(Msg) /\ ToClient = Join(rx, down, writes)
  BY StreamTypes DEF TransportInv, ToClient
<1>3. ToBroker' = ToBroker
  BY <1>0 DEF ToBroker
<1>4. /\ Tail(down) \in Seq(Msg) /\ h \in Msg /\ h.last \in BOOLEAN /\ <<>> \in Seq(Msg)
      /\ h = down[1] /\ Len(<<>>) = 0
  <2>1. h \in Msg /\ Tail(down) \in Seq(Msg) /\ <<>> \in Seq(Msg) /\ Len(<<>>) = 0
        /\ h = down[1]
    BY <1>0, <1>1, EmptySeq
  <2> QED BY <2>1 DEF Msg
(* What is left to show, given the new rx, st and stream.                   *)
<1>5. ASSUME rx' \in Seq(Msg), Len(rx') <= 1, rx' # <<>> => ~rx'[1].last,
             st' \in [Req -> States],
             \A q \in Req : st'[q] = "pending" => st[q] = "pending",
             DownOK(ToClient', st', peer),
             \A q \in Req : st'[q] = "pending" /\ Holds(ToClient, q, "final") =>
                              Holds(ToClient', q, "final")
      PROVE  TransportInv'
  <2>1. Typed'
    BY <1>0, <1>1, <1>4, <1>5 DEF TransportInv, Typed
  <2>2. ConnInv' /\ UpInv'
    BY <1>0, <1>3, <1>5 DEF TransportInv, ConnInv, UpInv
  <2>3. DownInv'
    BY <1>0, <1>5 DEF DownInv
  <2>4. Awaited'
    BY <1>0, <1>3, <1>5 DEF TransportInv, Awaited
  <2> QED BY <2>1, <2>2, <2>3, <2>4 DEF TransportInv
<1>6. CASE rx = <<>>
  <2>1. /\ line \in Seq(Msg) /\ Len(line) = 1 /\ line[1] = h
        /\ ToClient # <<>> /\ ToClient[1] = h
        /\ Join(line, Tail(down), writes) = ToClient
        /\ Join(<<>>, Tail(down), writes) = Tail(ToClient)
    BY <1>0, <1>1, <1>2, <1>6, ReadPiece
  <2> HIDE DEF line, h
  <2>2. CASE ~h.last
    <3>1. ToClient' = ToClient /\ st' = st /\ rx' = line
      BY <1>0, <2>1, <2>2 DEF ToClient
    <3>2. st' \in [Req -> States]
      BY <3>1 DEF TransportInv, Typed
    <3>3. rx' \in Seq(Msg) /\ Len(rx') <= 1 /\ (rx' # <<>> => ~rx'[1].last)
      <4>1. line \in Seq(Msg) /\ Len(line) = 1 /\ ~line[1].last
        BY <2>1, <2>2
      <4>2. Len(line) <= 1
        BY <4>1
      <4> QED BY <3>1, <4>1, <4>2, Zenon
    <3>4. DownOK(ToClient', st', peer)
      BY <1>1, <3>1
    <3> QED BY <1>5, <3>1, <3>2, <3>3, <3>4
  <2>3. CASE h.last
    <3>1. ToClient' = Tail(ToClient) /\ rx' = <<>>
      BY <1>0, <2>1, <2>3 DEF ToClient
    <3>2. st[h.id] \in Settled
      BY <1>1, <2>1, <2>3 DEF DownOK
    <3>3. st' = st
      BY <1>0, <2>1, <2>3, <3>2 DEF TakeLine, Settled
    <3>4. st \in [Req -> States]
      BY DEF TransportInv, Typed
    <3>5. /\ DownOK(Tail(ToClient), st, peer)
          /\ \A q, k : Holds(ToClient, q, k) =>
               Holds(Tail(ToClient), q, k) \/ ToClient[1] = Opening(q, k)
      BY <1>1, <1>2, <2>1, <2>3, DownTail
    <3>6. \A q : ToClient[1] # Opening(q, "final")
      BY <2>1, <2>3 DEF Opening
    <3> QED BY <1>4, <1>5, <3>1, <3>3, <3>4, <3>5, <3>6
  <2> QED BY <1>4, <2>2, <2>3 DEF h
<1>7. CASE rx # <<>>
  <2>0. Len(rx) = 1 /\ ~rx[1].last /\ rx[1] \in Msg
    <3>1. Len(rx) = 1 /\ rx[1] \in Msg
      BY <1>1, <1>7, OnePiece
    <3> QED BY <1>7, <3>1 DEF TransportInv, DownInv
  <2>1. /\ ToClient # <<>> /\ Tail(ToClient) # <<>> /\ ToClient[1] = rx[1]
        /\ Tail(ToClient)[1] = h
        /\ Join(<<>>, Tail(down), writes) = Tail(Tail(ToClient))
    <3> DEFINE d == Join(rx, down, writes)
    <3>1. /\ d # <<>> /\ Tail(d) # <<>> /\ d[1] = rx[1] /\ Tail(d)[1] = Head(down)
          /\ Join(<<>>, Tail(down), writes) = Tail(Tail(d))
      <4>1. /\ rx \in Seq(Msg) /\ down \in Seq(Msg) /\ writes \in Seq(Msg)
            /\ Len(rx) = 1 /\ down # <<>>
        BY <1>0, <1>1, <2>0
      <4> QED BY <4>1, DropLine, Zenon
    <3> HIDE DEF d
    <3>2. d = ToClient
      BY <1>2 DEF d
    <3> QED BY <3>1, <3>2
  <2>2. line = <<rx[1], h>>
    BY <1>1, <1>4, <1>7, OneMore
  <2> HIDE DEF line, h
  <2>3. /\ DownOK(Tail(Tail(ToClient)), st', peer) /\ h = Closing(rx[1])
        /\ \A q, k : Holds(ToClient, q, k) =>
             Holds(Tail(Tail(ToClient)), q, k) \/ ToClient[1] = Opening(q, k)
    BY <1>1, <1>2, <2>0, <2>1, DownLine
  <2> DEFINE r == rx[1].id
             k == rx[1].kind
  <2>4. r \in Req /\ k \in Kinds /\ rx[1] = Opening(r, k) /\ h.last
    BY <2>0, <2>3 DEF Msg, Opening, Closing
  <2>5. k \in {"progress", "final"}
    <3>1. Len(ToClient) >= 1 /\ Replies(ToClient)
      BY <1>1, <1>2, <2>1 DEF DownOK
    <3> QED BY <2>1, <3>1, <1>2 DEF Replies
  <2>6. line = Frame(r, k)
    BY <2>2, <2>3, <2>4 DEF Frame, Opening, Closing
  <2>7. ToClient' = Tail(Tail(ToClient)) /\ rx' = <<>> /\ TakeLine(Frame(r, k))
    BY <1>0, <2>1, <2>4, <2>6 DEF ToClient
  <2> HIDE DEF r, k
  <2>8. /\ st' \in [Req -> States]
        /\ \A q \in Req : st'[q] = "pending" => st[q] = "pending" /\ (q # r \/ k # "final")
    BY <2>4, <2>5, <2>7, LineTaken DEF TransportInv
  <2>9. ASSUME NEW q \in Req, st'[q] = "pending", Holds(ToClient, q, "final")
        PROVE  Holds(ToClient', q, "final")
    <3>1. q # r \/ k # "final"
      BY <2>8, <2>9
    <3>2. Opening(r, k).id = r /\ Opening(r, k).kind = k
          /\ Opening(q, "final").id = q /\ Opening(q, "final").kind = "final"
      BY DEF Opening
    <3>3. ToClient[1] # Opening(q, "final")
      BY <2>1, <2>4, <3>1, <3>2
    <3> QED BY <2>3, <2>7, <2>9, <3>3
  <2> QED BY <1>4, <1>5, <2>3, <2>7, <2>8, <2>9
<1> QED BY <1>6, <1>7

-----------------------------------------------------------------------------
(* The steps of the server                                                  *)

(* A response is queued behind the others, on a healthy socket.             *)
LEMMA Responded ==
  ASSUME TransportInv, NEW r \in Req, NEW k \in {"progress", "final"},
         Respond(Frame(r, k)), rx' = rx
  PROVE  /\ down' \in Seq(Msg) /\ writes' \in Seq(Msg)
         /\ DownOK(ToClient', st, peer)
         /\ peer # "open" => writes' = writes
         /\ peer = "open" => Holds(ToClient', r, k)
         /\ \A q, j : Holds(ToClient, q, j) => Holds(ToClient', q, j)
<1> DEFINE f == Frame(r, k)
<1>1. /\ rx \in Seq(Msg) /\ down \in Seq(Msg) /\ writes \in Seq(Msg) /\ f \in Seq(Msg)
      /\ DownOK(ToClient, st, peer) /\ ToClient \in Seq(Msg)
      /\ ToClient = Join(rx, down, writes)
  <2>1. f \in Seq(Msg)
    BY FrameType DEF Kinds
  <2> HIDE DEF f
  <2> QED BY <2>1, StreamTypes DEF TransportInv, Typed, DownInv, ToClient
<1>2. CASE peer # "open"
  <2>1. down' = down /\ writes' = writes
    BY <1>2 DEF Respond
  <2>2. ToClient' = ToClient
    BY <2>1 DEF ToClient
  <2> QED BY <1>1, <1>2, <2>1, <2>2
<1>3. CASE peer = "open"
  <2> DEFINE all == Then(writes, f)
  <2>1. Enqueue(f)
    BY <1>3 DEF Respond
  <2>2. /\ DownOK(Then(ToClient, f), st, "open") /\ Holds(Then(ToClient, f), r, k)
        /\ \A q, j : Holds(ToClient, q, j) => Holds(Then(ToClient, f), q, j)
    BY <1>1, <1>3, DownFrame
  <2> HIDE DEF f
  <2>3. all \in Seq(Msg) /\ Join(rx, down, all) = Then(Join(rx, down, writes), f)
    BY <1>1, QueuedFrame
  <2>4. PICK n \in 0..Len(all) : /\ down' = down \o SubSeq(all, 1, n)
                                 /\ writes' = SubSeq(all, n + 1, Len(all))
    BY <2>1 DEF Enqueue, Then
  <2> HIDE DEF all
  <2>5. /\ down \o SubSeq(all, 1, n) \in Seq(Msg) /\ SubSeq(all, n + 1, Len(all)) \in Seq(Msg)
        /\ Join(rx, down \o SubSeq(all, 1, n), SubSeq(all, n + 1, Len(all)))
             = Join(rx, down, all)
    BY <1>1, <2>3, Flushed
  <2>6. ToClient' = Then(ToClient, f)
    BY <1>1, <2>3, <2>4, <2>5 DEF ToClient
  <2>7. down' \in Seq(Msg) /\ writes' \in Seq(Msg)
    BY <2>4, <2>5
  <2> QED BY <1>3, <2>2, <2>6, <2>7
<1> QED BY <1>2, <1>3

(* A step of the server on a socket whose client stays as it is: what is    *)
(* left to show, given the new streams.                                     *)
LEMMA ServerStepInv ==
  ASSUME TransportInv, UNCHANGED client,
         up' \in Seq(Msg), down' \in Seq(Msg), writes' \in Seq(Msg),
         framer' \in [buf : Seq(Msg), discarding : BOOLEAN],
         srv' \in [Req -> {"none", "running", "done"}],
         peer' \in {"open", "dead", "ended"}, peer' = "open" => peer = "open",
         peer' = "ended" => writes' = <<>>, UpInv', DownOK(ToClient', st, peer'),
         \A q \in Req :
           /\ peer' = "open" /\ Holds(ToBroker, q, "request") =>
                \/ Holds(ToBroker', q, "request") \/ srv'[q] = "running"
                \/ Holds(ToClient', q, "final")
           /\ peer' = "open" /\ srv[q] = "running" =>
                srv'[q] = "running" \/ Holds(ToClient', q, "final")
           /\ peer' = "open" /\ Holds(ToClient, q, "final") => Holds(ToClient', q, "final")
  PROVE  TransportInv'
<1>0. /\ st' = st /\ open' = open /\ connecting' = connecting /\ outgoing' = outgoing
      /\ rx' = rx
  BY DEF client
<1>1. Typed'
  BY <1>0 DEF TransportInv, Typed
<1>2. ConnInv'
  BY <1>0 DEF TransportInv, ConnInv
<1>3. DownInv'
  BY <1>0 DEF TransportInv, DownInv
<1>4. Awaited'
  BY <1>0 DEF TransportInv, Awaited
<1> QED BY <1>1, <1>2, <1>3, <1>4 DEF TransportInv

LEMMA SendProgressInv ==
  ASSUME TransportInv, NEW r \in Req, SendProgress(r)
  PROVE  TransportInv'
<1>0. /\ UNCHANGED client /\ rx' = rx /\ outgoing' = outgoing /\ up' = up
      /\ framer' = framer /\ srv' = srv /\ peer' = peer
      /\ Respond(Frame(r, "progress"))
  BY DEF SendProgress, client
<1>1. /\ down' \in Seq(Msg) /\ writes' \in Seq(Msg) /\ DownOK(ToClient', st, peer)
      /\ peer # "open" => writes' = writes
      /\ \A q, j : Holds(ToClient, q, j) => Holds(ToClient', q, j)
  BY <1>0, Responded
<1>2. ToBroker' = ToBroker
  BY <1>0 DEF ToBroker
<1>3. /\ up' \in Seq(Msg) /\ framer' \in [buf : Seq(Msg), discarding : BOOLEAN]
      /\ srv' \in [Req -> {"none", "running", "done"}]
      /\ peer' \in {"open", "dead", "ended"} /\ (peer' = "ended" => writes' = <<>>)
  BY <1>0, <1>1 DEF TransportInv, Typed, ConnInv
<1>4. UpInv'
  BY <1>0, <1>2 DEF TransportInv, UpInv
<1> QED BY <1>0, <1>1, <1>2, <1>3, <1>4, ServerStepInv

LEMMA WriteFinalInv ==
  ASSUME TransportInv, NEW r \in Req, WriteFinal(r)
  PROVE  TransportInv'
<1>0. /\ UNCHANGED client /\ rx' = rx /\ outgoing' = outgoing /\ up' = up
      /\ framer' = framer /\ srv' = [srv EXCEPT ![r] = "done"] /\ peer' = peer
      /\ Respond(Frame(r, "final"))
  BY DEF WriteFinal, client
<1>1. /\ down' \in Seq(Msg) /\ writes' \in Seq(Msg) /\ DownOK(ToClient', st, peer)
      /\ peer # "open" => writes' = writes
      /\ peer = "open" => Holds(ToClient', r, "final")
      /\ \A q, j : Holds(ToClient, q, j) => Holds(ToClient', q, j)
  BY <1>0, Responded
<1>2. ToBroker' = ToBroker
  BY <1>0 DEF ToBroker
<1>3. /\ up' \in Seq(Msg) /\ framer' \in [buf : Seq(Msg), discarding : BOOLEAN]
      /\ srv' \in [Req -> {"none", "running", "done"}]
      /\ \A q \in Req : q # r => srv'[q] = srv[q]
      /\ peer' \in {"open", "dead", "ended"} /\ (peer' = "ended" => writes' = <<>>)
  BY <1>0, <1>1 DEF TransportInv, Typed, ConnInv
<1>4. UpInv'
  BY <1>0, <1>2 DEF TransportInv, UpInv
<1> QED BY <1>0, <1>1, <1>2, <1>3, <1>4, ServerStepInv

(* Pieces of the write queue reach the socket: the stream is the same.      *)
LEMMA ServerDrainInv ==
  ASSUME TransportInv, ServerDrain
  PROVE  TransportInv'
<1>0. /\ UNCHANGED client /\ rx' = rx /\ outgoing' = outgoing /\ up' = up
      /\ framer' = framer /\ srv' = srv
      /\ peer' = IF peer = "dead" /\ writes' = <<>> THEN "ended" ELSE peer
      /\ peer \in {"open", "dead"}
  BY DEF ServerDrain, client
<1>1. rx \in Seq(Msg) /\ down \in Seq(Msg) /\ writes \in Seq(Msg)
  BY DEF TransportInv, Typed
<1>2. PICK n \in 1..Len(writes) : /\ down' = down \o SubSeq(writes, 1, n)
                                  /\ writes' = SubSeq(writes, n + 1, Len(writes))
  BY DEF ServerDrain
<1>a. n \in 0..Len(writes)
  BY <1>1
<1>3. /\ down \o SubSeq(writes, 1, n) \in Seq(Msg)
      /\ SubSeq(writes, n + 1, Len(writes)) \in Seq(Msg)
      /\ Join(rx, down \o SubSeq(writes, 1, n), SubSeq(writes, n + 1, Len(writes)))
           = Join(rx, down, writes)
  BY <1>1, <1>a, Flushed
<1>4. down' \in Seq(Msg) /\ writes' \in Seq(Msg) /\ ToClient' = ToClient
  BY <1>0, <1>2, <1>3 DEF ToClient
<1>5. ToBroker' = ToBroker
  BY <1>0 DEF ToBroker
<1>6. /\ up' \in Seq(Msg) /\ framer' \in [buf : Seq(Msg), discarding : BOOLEAN]
      /\ srv' \in [Req -> {"none", "running", "done"}]
  BY <1>0 DEF TransportInv, Typed
<1>7. /\ peer' \in {"open", "dead", "ended"} /\ (peer' = "ended" => writes' = <<>>)
      /\ (peer' = "open" => peer = "open")
  BY <1>0
<1>8. UpInv'
  BY <1>0, <1>5, <1>7 DEF TransportInv, UpInv
<1>9. DownOK(ToClient', st, peer')
  <2>1. ToClient \in Seq(Msg) /\ DownOK(ToClient, st, peer)
    BY StreamTypes DEF TransportInv, DownInv
  <2> QED BY <1>4, <1>7, <2>1, DownKept
<1> QED BY <1>0, <1>4, <1>5, <1>6, <1>7, <1>8, <1>9, ServerStepInv

(* The broker's end closes, by a failed write, a deadline or a crash.       *)
LEMMA EndedInv ==
  ASSUME TransportInv, UNCHANGED <<client, up, down, framer>>, writes' = <<>>,
         peer' = "ended", srv' \in [Req -> {"none", "running", "done"}]
  PROVE  TransportInv'
<1>1. /\ rx \in Seq(Msg) /\ down \in Seq(Msg) /\ writes \in Seq(Msg)
      /\ DownOK(Join(rx, down, writes), st, peer)
  BY DEF TransportInv, Typed, DownInv, ToClient
<1>2. DownOK(Join(rx, down, <<>>), st, "ended")
  BY <1>1, DownCut
<1>3. ToClient' = Join(rx, down, <<>>)
  BY DEF ToClient, client
<1>4. <<>> \in Seq(Msg)
  BY EmptySeq
<1>5. /\ up' \in Seq(Msg) /\ down' \in Seq(Msg) /\ writes' \in Seq(Msg)
      /\ framer' \in [buf : Seq(Msg), discarding : BOOLEAN] /\ UNCHANGED client
  BY <1>4 DEF TransportInv, Typed
<1>6. UpInv'
  BY DEF UpInv
<1>7. DownOK(ToClient', st, peer') /\ peer' # "open" /\ peer' \in {"open", "dead", "ended"}
  BY <1>2, <1>3
<1> QED BY <1>5, <1>6, <1>7, ServerStepInv

LEMMA ServerClosesInv ==
  ASSUME TransportInv, ServerCloses
  PROVE  TransportInv'
<1>1. /\ UNCHANGED <<client, up, down, framer>> /\ writes' = <<>> /\ peer' = "ended"
      /\ srv' = srv
  BY DEF ServerCloses
<1>2. srv' \in [Req -> {"none", "running", "done"}]
  BY <1>1 DEF TransportInv, Typed
<1> QED BY <1>1, <1>2, EndedInv

LEMMA CrashInv ==
  ASSUME TransportInv, Crash
  PROVE  TransportInv'
<1>1. /\ UNCHANGED <<client, up, down, framer>> /\ writes' = <<>> /\ peer' = "ended"
      /\ srv' = Abandoned
  BY DEF Crash
<1>2. srv' \in [Req -> {"none", "running", "done"}]
  BY <1>1, AbandonedType DEF TransportInv
<1> QED BY <1>1, <1>2, EndedInv

(* Bytes that a dead socket skips, or that the framer fails on.             *)
LEMMA SkippedInv ==
  ASSUME TransportInv, DeadData \/ FramerFails
  PROVE  TransportInv'
<1>0. /\ UNCHANGED client /\ rx' = rx /\ down' = down /\ framer' = framer /\ srv' = srv
      /\ writes' = writes /\ up # <<>> /\ up' = Tail(up) /\ peer' # "open"
      /\ peer' \in {"dead", "ended"} /\ (peer' = "ended" => writes' = <<>>)
  BY DEF DeadData, FramerFails, client, server
<1>1. ToClient' = ToClient
  BY <1>0 DEF ToClient
<1>2. ToClient \in Seq(Msg) /\ DownOK(ToClient, st, peer)
  BY StreamTypes DEF TransportInv, DownInv
<1>3. DownOK(ToClient', st, peer')
  BY <1>0, <1>1, <1>2, DownKept
<1>4. /\ up' \in Seq(Msg) /\ down' \in Seq(Msg) /\ writes' \in Seq(Msg)
      /\ framer' \in [buf : Seq(Msg), discarding : BOOLEAN]
      /\ srv' \in [Req -> {"none", "running", "done"}]
  BY <1>0 DEF TransportInv, Typed
<1>5. UpInv'
  BY <1>0 DEF UpInv
<1> QED BY <1>0, <1>3, <1>4, <1>5, ServerStepInv

(* A piece arrives: it starts a line, or ends the one the framer holds,     *)
(* which is dispatched or refused.                                          *)
LEMMA ServerDataInv ==
  ASSUME TransportInv, ServerData
  PROVE  TransportInv'
<1> DEFINE p == Head(up)
           buf == framer.buf
           line == Append(buf, p)
<1>0. /\ UNCHANGED client /\ rx' = rx /\ outgoing' = outgoing /\ up # <<>> /\ up' = Tail(up)
      /\ peer = "open" /\ peer' = "open" /\ FramerPush(p)
  BY DEF ServerData, client
<1>1. /\ buf \in Seq(Msg) /\ up \in Seq(Msg) /\ outgoing \in Seq(Msg) /\ Len(buf) <= 1
      /\ framer.discarding \in BOOLEAN
      /\ framer.discarding => buf # <<>>
      /\ UpOK(ToBroker)
  BY <1>0 DEF TransportInv, Typed, UpInv
<1>2. /\ ToBroker \in Seq(Msg) /\ ToBroker = Join(buf, up, outgoing)
      /\ ToClient \in Seq(Msg) /\ DownOK(ToClient, st, peer)
  BY StreamTypes DEF TransportInv, ToBroker, DownInv
<1>3. Tail(up) \in Seq(Msg) /\ p \in Msg /\ p.last \in BOOLEAN
  <2>1. p \in Msg /\ Tail(up) \in Seq(Msg)
    BY <1>0, <1>1
  <2> QED BY <2>1 DEF Msg
<1>4. CASE buf = <<>>
  <2>1. /\ line \in Seq(Msg) /\ Len(line) = 1 /\ line # <<>>
        /\ ToBroker # <<>> /\ ToBroker[1] = p
        /\ Join(line, Tail(up), outgoing) = ToBroker
    BY <1>0, <1>1, <1>2, <1>4, ReadPiece
  <2>2. ~p.last
    BY <1>1, <2>1 DEF UpOK, StartsOpen
  <2>3. /\ framer' = [buf |-> line, discarding |-> TooLong(line)]
        /\ srv' = srv /\ down' = down /\ writes' = writes
    BY <1>0, <1>1, <1>4, <2>2 DEF FramerPush
  <2> HIDE DEF line, p, buf
  <2>4. framer'.buf = line /\ framer' \in [buf : Seq(Msg), discarding : BOOLEAN]
    BY <2>1, <2>3 DEF TooLong
  <2>5. ToBroker' = ToBroker /\ ToClient' = ToClient
    BY <1>0, <2>1, <2>3, <2>4 DEF ToBroker, ToClient
  <2>6. Len(line) <= 1
    BY <2>1
  <2>7. UpInv'
    BY <1>1, <2>1, <2>4, <2>5, <2>6, Zenon DEF UpInv
  <2>8. /\ up' \in Seq(Msg) /\ down' \in Seq(Msg) /\ writes' \in Seq(Msg)
        /\ srv' \in [Req -> {"none", "running", "done"}]
    BY <1>0, <1>3, <2>3 DEF TransportInv, Typed
  <2> QED BY <1>0, <1>2, <2>3, <2>4, <2>5, <2>7, <2>8, ServerStepInv
<1>5. CASE buf # <<>>
  <2>0. Len(buf) = 1 /\ buf[1] \in Msg
    BY <1>1, <1>5, OnePiece
  <2>1. /\ ToBroker # <<>> /\ Tail(ToBroker) # <<>> /\ ToBroker[1] = buf[1]
        /\ Tail(ToBroker)[1] = p
        /\ Join(<<>>, Tail(up), outgoing) = Tail(Tail(ToBroker))
    <3> DEFINE d == Join(buf, up, outgoing)
    <3> HIDE DEF buf
    <3>1. /\ d # <<>> /\ Tail(d) # <<>> /\ d[1] = buf[1] /\ Tail(d)[1] = Head(up)
          /\ Join(<<>>, Tail(up), outgoing) = Tail(Tail(d))
      <4>1. /\ buf \in Seq(Msg) /\ up \in Seq(Msg) /\ outgoing \in Seq(Msg)
            /\ Len(buf) = 1 /\ up # <<>>
        BY <1>0, <1>1, <2>0
      <4> QED BY <4>1, DropLine, Zenon
    <3> HIDE DEF d
    <3>2. d = ToBroker
      BY <1>2 DEF d
    <3> QED BY <3>1, <3>2
  <2>2. line = <<buf[1], p>>
    BY <1>1, <1>3, <1>5, OneMore
  <2> DEFINE r == buf[1].id
  <2>3. /\ Tail(ToBroker)[1] = Closing(ToBroker[1]) /\ UpOK(Tail(Tail(ToBroker)))
        /\ \A q, k : Holds(ToBroker, q, k) =>
             Holds(Tail(Tail(ToBroker)), q, k) \/ ToBroker[1] = Opening(q, k)
    <3>1. ~ToBroker[1].last /\ Chained(ToBroker) /\ EndsClosed(ToBroker)
      BY <1>1, <2>1 DEF UpOK, StartsOpen
    <3>2. /\ Tail(ToBroker)[1] = Closing(ToBroker[1])
          /\ Chained(Tail(Tail(ToBroker))) /\ StartsOpen(Tail(Tail(ToBroker)))
          /\ EndsClosed(Tail(Tail(ToBroker)))
      BY <1>2, <2>1, <3>1, LineRead
    <3>3. \A q, k : Holds(ToBroker, q, k) =>
             Holds(Tail(Tail(ToBroker)), q, k) \/ ToBroker[1] = Opening(q, k)
      BY <1>2, <2>1, <3>1, LineRead
    <3> QED BY <3>2, <3>3 DEF UpOK
  <2>4. r \in Req /\ p.last /\ line[1].id = r
    <3>1. p.last
      BY <2>1, <2>3 DEF Closing
    <3>2. r \in Req
      BY <2>0 DEF Msg
    <3> QED BY <2>2, <3>1, <3>2
  <2>5. /\ framer' = EmptyFramer
        /\ \/ Respond(Frame(r, "final")) /\ srv' = srv
           \/ srv' = [srv EXCEPT ![r] = "running"] /\ down' = down /\ writes' = writes
    BY <1>0, <2>4 DEF FramerPush
  <2> HIDE DEF line, p
  <2>6. /\ framer' \in [buf : Seq(Msg), discarding : BOOLEAN] /\ framer'.buf = <<>>
        /\ framer'.discarding = FALSE
    <3>1. <<>> \in Seq(Msg)
      BY EmptySeq
    <3> QED BY <2>5, <3>1 DEF EmptyFramer
  <2>7. ToBroker' = Tail(Tail(ToBroker))
    BY <1>0, <2>1, <2>6 DEF ToBroker
  <2>8. UpInv'
    <3>1. Len(<<>>) <= 1
      OBVIOUS
    <3> QED BY <2>3, <2>6, <2>7, <3>1 DEF UpInv
  <2>9. ASSUME NEW q \in Req, Holds(ToBroker, q, "request"), q # r
        PROVE  Holds(ToBroker', q, "request")
    <3>1. ToBroker[1] # Opening(q, "request")
      BY <2>1, <2>9 DEF Opening
    <3> QED BY <2>3, <2>7, <2>9, <3>1
  <2> HIDE DEF r, buf
  <2>10. CASE Respond(Frame(r, "final")) /\ srv' = srv
    <3>1. /\ down' \in Seq(Msg) /\ writes' \in Seq(Msg) /\ DownOK(ToClient', st, peer)
          /\ Holds(ToClient', r, "final")
          /\ \A q, j : Holds(ToClient, q, j) => Holds(ToClient', q, j)
      BY <1>0, <2>4, <2>10, Responded
    <3>2. up' \in Seq(Msg) /\ srv' \in [Req -> {"none", "running", "done"}]
      BY <1>0, <1>3, <2>10 DEF TransportInv, Typed
    <3> QED BY <1>0, <2>6, <2>8, <2>9, <2>10, <3>1, <3>2, ServerStepInv
  <2>11. CASE srv' = [srv EXCEPT ![r] = "running"] /\ down' = down /\ writes' = writes
    <3>1. ToClient' = ToClient
      BY <1>0, <2>11 DEF ToClient
    <3>2. /\ up' \in Seq(Msg) /\ srv' \in [Req -> {"none", "running", "done"}]
          /\ down' \in Seq(Msg) /\ writes' \in Seq(Msg)
          /\ srv'[r] = "running" /\ \A q \in Req : q # r => srv'[q] = srv[q]
      BY <1>0, <1>3, <2>4, <2>11 DEF TransportInv, Typed
    <3> QED BY <1>0, <1>2, <2>6, <2>8, <2>9, <3>1, <3>2, ServerStepInv
  <2> QED BY <2>5, <2>10, <2>11
<1> QED BY <1>4, <1>5

-----------------------------------------------------------------------------
(* The theorem                                                              *)

LEMMA TransportStep == TransportInv /\ [TransportNext]_transportVars => TransportInv'
<1> SUFFICES ASSUME TransportInv, [TransportNext]_transportVars PROVE TransportInv'
  OBVIOUS
<1>1. CASE ClientStep
  <2>1. ASSUME NEW r \in Req, Request(r) \/ Continue(r) \/ OnTimeout(r)
        PROVE  TransportInv'
    BY <2>1, RequestInv, ContinueInv, OnTimeoutInv
  <2>2. CASE \/ ConnectOk \/ ConnectFails \/ ClientDrain \/ ClientCloses \/ PeerCloses
             \/ ClientData
    BY <2>2, ConnectOkInv, ConnectFailsInv, ClientDrainInv, ClientClosesInv,
       PeerClosesInv, ClientDataInv
  <2> QED BY <1>1, <2>1, <2>2 DEF ClientStep
<1>2. CASE ServerStep
  <2>1. ASSUME NEW r \in Req, SendProgress(r) \/ WriteFinal(r)
        PROVE  TransportInv'
    BY <2>1, SendProgressInv, WriteFinalInv
  <2>2. CASE \/ ServerData \/ DeadData \/ FramerFails \/ ServerDrain \/ ServerCloses
             \/ Crash
    BY <2>2, ServerDataInv, SkippedInv, ServerDrainInv, ServerClosesInv, CrashInv
  <2>3. CASE Restart
    <3>1. UNCHANGED <<open, outgoing, rx, up, down, server>> /\ st' = st
          /\ connecting' = connecting
      BY <2>3 DEF Restart, client
    <3> QED BY <3>1, QuietInv DEF TransportInv, Typed, ConnInv
  <2> QED BY <1>2, <2>1, <2>2, <2>3 DEF ServerStep
<1>3. CASE UNCHANGED transportVars
  <2>1. UNCHANGED <<open, outgoing, rx, up, down, server>> /\ st' = st
        /\ connecting' = connecting
    BY <1>3 DEF transportVars, client
  <2> QED BY <2>1, QuietInv DEF TransportInv, Typed, ConnInv
<1> QED BY <1>1, <1>2, <1>3 DEF TransportNext

(* On every behaviour of the connection, whatever times out, is refused,    *)
(* fails or crashes: a request that is awaited on a healthy socket is whole *)
(* on its way to the broker, is being worked on, or has its whole final     *)
(* response on its way back (broker-client.ts onTimeout and the data        *)
(* handler, RequestLineFramer and SocketWriteQueue of server.ts).           *)
THEOREM RepliesNotLost == TransportSpec => []ReplyNotLost
<1>1. TransportInit => TransportInv
  BY TransportInvInit
<1>2. TransportInv /\ [TransportNext]_transportVars => TransportInv'
  BY TransportStep
<1>3. TransportInv => ReplyNotLost
  BY InvImplies
<1> QED BY <1>1, <1>2, <1>3, PTL DEF TransportSpec

=============================================================================

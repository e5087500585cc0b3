# TLA+ verification of the sandbox broker and its plugins

Sandbox-Agents lets coding agents work in throw-away micro VMs.  A *broker* (`src/broker`)
owns the workers, the session records and every change of the host's repositories; the
*plugins* of the agent host (`src/opencode/plugins`) talk to it over a Unix socket.  This
directory holds TLA+ models of the parts of that system whose correctness depends on
orders of events that tests hardly reach, the TLC configurations that check them, and
TLAPS proofs of the most important results.

`PROJECT.json` lists the components, the runs, a mutant for every property, the source
lines behind every definition, the hazards and the theorems.

## 1. The system

| Component | State | Operations | What is hard |
|---|---|---|---|
| Session store (`state.ts`) | one record per session, persisted as JSON | `touch`, `transition` over `LEGAL_TRANSITIONS` | records are read before an await and written after it |
| Pool, admission, queue (`queue.ts`, `policy.ts`, `service.ts`) | `allocations`, FIFO `entries`, `inFlight` | admit, park, drain, time out, cancel | lost wakeups, leaked or doubled promises, order |
| Worker life cycle (`service.ts`, `msb.ts`) | the VM, the record's worker fields | `ensureWorker`, `exec`, `destroyWorker`, `releaseWorker` | every command may fail before or after its effect |
| Result boundary (`service.ts`, `gitops.ts`) | bundle, result ref, host tree | `prepareResult`, `applyResult`, `keepResult`, `discardResult` | partial failure between export, import and record |
| Reaper (`reaper.ts`) | none of its own, takes no lock | tick: unfinished sweep, idle sweep; reap on disconnect | runs against client operations, ticks overlap |
| Install and commit (`sandbox-result.ts`, `service.ts`) | `installedCommit`, `pendingCommit`, `committedCommit` | `sandboxResultInstall`, `gitCommit`, `gitClearCommitIntent` | a crash between commit and record; another session's lock |
| Dispatch and transport (`server.ts`) | session locks, framer, write queue per socket | `onData`, `dispatchLine`, `respond`, `onSocketClose` | partial writes, oversize lines, dead sockets |
| Broker client (`broker-client.ts`) | pending requests, two buffers, deadlines | `request`, `connect`, handlers | timeouts against late replies, reconnects |
| Review runs and pipeline (`review-*.ts`) | run directories, run records, the project's `.context` | materialize, screen, prepare, merge, finalize, persist | a crash between two publications; a sweep at an await; a summary nobody vouches for any more |
| Advisor (`advisor-*.ts`, `sdd-service.ts`) | requests, claims, answers, evidence, external lineages, relay markers | ask, read, keep evidence, respond, relay, capture | who may answer what, once; gentle-ai moves on between two calls |
| Role policy, tool guard (`role-policy.ts`, `routing-guard.ts`, `session-agent-binding.ts`) | the recorded identity, the admission cache | bind, admit, dispatch, status before a read | bindings that are lost or late, cached answers, an activation in between |
| Sandbox tools (`sandbox-tools.ts`, `apply-preview-guard.ts`) | none between calls | preview, ask, effect | the worker goes on while the human reads the preview |
| Plan documents (`service.ts`) | Markdown files, one lock each | `planDocWrite`, `gateVerdict`, `taskMark`, `planDocAppend` | compare-and-swap of revisions, assessed before the lock, edits by hand |
| Reviewer relay (`reviewer-relay-core.ts`) | the shared registry, one provider child per Task | the before and after hooks, bind, dispose, deadline | several plugin instances, children mixed up, silent providers |
| SDD runtime (`sdd-runtime.ts`) | staged inputs | the executor of gentle-ai | answers lost or refused |
| Artifact collection (`artifacts.ts`) | bundles on disk | the sweep | deletes what a slow operation still needs |
| Validation, git guard, host reads; configuration, logging | none | pure functions of text | not protocols |

The broker is one event loop.  `withSessionLock` runs one client operation of a session at
a time (the review operations too: `server.ts:696`); the reaper takes no lock and only looks
whether one is held; `gitCommit` and `sandboxResultInstall` hold the lock of the *calling*
session while they work on the record of *another*; plan documents have locks of their own.
Between two awaits a handler is not interrupted, so an action of the models is the code
between two awaits, and an await is a command whose outcome (done, failed, done but reported
as failed) is chosen when it ends.  A stretch without an await that publishes several files
is atomic for other requests but not for a crash or a failing write; `ReviewStore` therefore
publishes file by file.

## 2. The modules

| Module | Models | Composes |
|---|---|---|
| `SessionState` | record, `LEGAL_TRANSITIONS`, `transition`, `touch` as pure operators | |
| `AdmissionPool` | abstract: what the pool promises | |
| `Broker` | pool and queue, worker life cycle, result boundary, reaper, disconnect, crash | `SessionState`; `INSTANCE AdmissionPool` |
| `ResultCommit` | install, commit, clear intent, against the owner session, the user and crashes | `SessionState` |
| `Transport` | one connection: client, framer, write queue, deadlines, reconnect | |
| `ReviewStore` | run directories, run records, caps, retention and recovery | |
| `ReviewPipeline` | materialize, the phases of the helper, persist | `ReviewStore` |
| `Advisor` | advisory records, external lineages, relay, the review commands they share | |
| `RolePolicy` | the tables of tools, roles and capabilities and the decisions on them | |
| `ToolGuard` | binding of a chat, the guard before each tool, admission cache, dispatch, activation | `SessionState`, `RolePolicy` |
| `SandboxTools` | the tool calls of the plugin, request by request | |
| `PlanDocs` | the four operations on a plan document | `RolePolicy` |
| `ReviewerRelay` | hooks, registry, relays, provider children | |
| `MCBroker`, `MCResultCommit`, `MCAdvisor`, `MCSandboxTools`, `MCToolGuard`, `MCReviewerRelay` | instances with symmetry (`MCReviewerRelay` fixes the session of one Task, since fairness is checked) | the module of that name |
| `BrokerProofs`, `ResultCommitProofs`, `ReviewProofs`, `AdvisorProofs`, `ToolGuardProofs`, `SandboxToolsProofs`, `PlanDocsProofs` | proofs | the module they prove about |
| `PluginProofs` | proofs about the plugins' two protocols | `ReviewerRelay`, `Transport` |

**Broker.** `rec` is the persisted record; `vm`, `tree` and `head` are the worker's VM, its
working tree and its HEAD, as sets of edits; `bundle`, `ref` and `host` are where a result
travels; `allocations`, `queue` and `inFlight` are the fields of the same names; `task[a]`
is the program point of each actor, a session's operation or a reaper task, with what it
read before its await (`snap`, `cut`, `todo`).  `made` and `lost` are history variables.
`writeFile` and `applyPatch` are `exec` with another command and are one action; `execCommit`
is an `exec` that runs `git commit` in the worker.  The divergence, protected-path and
symlink checks of apply are one verdict.  All workers have one size, so the cpu and memory
caps of `policy.ts` are the count `Slots`.

**ResultCommit.** The data is the content of the paths a result changes: the baseline 0, the
versions of the result, `Edited` for anything else.  A commit of the host's branch is its
position in `history`.  `task[c].snap` is the record as the operation read it, which is what
`gitCommit` goes by until it writes.  History variables: `landed` (the commit `gitCommit` made
last), `cleared` (an intent was cleared by hand), `crossed` (a `gitCommit` was under way
beside another caller's operation on the result) and `moved` (the user committed after
`gitCommit` had read HEAD).  The last two name the exceptions of the properties: nothing in
the code prevents either, since `gitCommit` holds the lock of its own caller only.

**Transport.** A frame has two pieces, the first with the id, the last with the newline; a
socket write takes any prefix of what is waiting, and the wire holds `WireCap` pieces.
`outgoing`, `rx`, `writes` and `framer` are the client's and the server's buffers.  What an
operation does is left to the other modules: it runs, may send queue notices, and ends.

**ReviewStore, ReviewPipeline.** A run is its directory, its artifacts (a size and a digest)
and its record, which lists the artifacts and the provenance of a finalize.  `op[s]` is the
operation that holds the session's lock, with the publications it has still to make.
`older[r]` are the directories modified before that of `r`, `expired` those past the TTL.  The
slices partition the diff; a read of the diff or of a slice serves at most
`REVIEW_DIFF_READ_MAX_BYTES` (256 KiB), so a published diff may be larger than a read serves,
a slice (45 KiB) never is.  What persist writes is not the finalize output but the document
made of it (`ReviewDocument`): its artifact, with a `schema_version` added when it has none,
serialized again.  The
helper and git are external: their answers are choices.  `pruneReviewRuns` and
`recoverInterruptedRuns` have no caller in the broker; the model lets them run at any await,
as the timer they are written for would.

**Advisor.** Every file of the advisor directory is a variable (`req`, `claim`, `response`,
`evidence`, `reserved`, `rotation`, `external`, `marker`, `staged`); `op[s]` is the request a
session has in flight.  `lineage` and `captures` belong to gentle-ai, which is external: it
may move to the next candidate between any two calls, and accepts a capture for its current
revision only.  What an answer says is abstracted to whether it is valid and to the candidate
it is about.

**ToolGuard.** One chat: the agent the host resolves, the binding hook, the session's record,
the guard's cache, and the tool calls of a turn in parallel.  `late` holds the bindings the
client gave up on; the broker handles them when it gets to them.  `quiet` is a history
variable: the calls that began, or lived on, while no worker was active.

**SandboxTools.** The content of a file is the set of the calls whose text it holds.  A request
is one step, but for the two that read the result of another session: `sandboxResult` resolves
the commit (`InstallReads`) and then reads the patch by the name of the ref
(`InstallPreviews`), and `sandboxResultInstall` checks the commit, looks at the working tree
and restores by the name of the ref (`InstallChecks`, `AlreadyInstalled` or `InstallCompares`,
`InstallRestores`), while the owner may export again.  A preview is the diff, or, when there
are added `.new` files, the comparison of those files and nothing else (`Comparison`).
`landed` records each effect on the host with what the human had been shown, `moved` the
installs whose result was exported again after the check.

**PlanDocs.** A document is the writers of its prose, whether it has a route, the order of
its sections, and the lines of those the broker writes.  A request is assessed, waits for the
document's lock, reads and writes the new text beside the file, looks at the file again
(`Recheck`), and renames; `taskMark` checks its gate on a read of its own before (`CheckGate`).
A human may edit, prose and route, between any two of these steps; `late` says that one did
where the request cannot notice: between the two reads of `taskMark`, or after `Recheck`.
Documents share neither state nor lock, so one is modelled, of any of the targets.

**ReviewerRelay.** `hooks` are the loaded plugin instances, `relays` and `reg` the registry
they share (a map in order of insertion: `relays[t]` are the Tasks inserted before `t`), `relay[t]` the closure of a Task's relay, `deferred`, `refused` and
`materializedBySession` the maps of each instance, `call[t]` and `text[t]` where the host is
with a Task and what the Task carries.  The event that announces a child may name no parent
session, and then binds the first prompt of its agent, whatever the session; `parentless`
records the children bound that way.

## 3. The runs

| Run | Instance | Shows |
|---|---|---|
| `pool` | 3 sessions, 1 slot, queue of 2, failing creations and removals | `TypeOK`; `NoLostWakeup`: nobody is parked while a slot is free; `PromisesExact`: the promises are exactly the drained creations under way and the queue exactly the parked requests; `PoolSpec`: the broker implements `AdmissionPool`, first come first served |
| `life` | 1 session with every operation, 1 reaper task, every fault, 1 crash | `CreationOwnsRecord`, `VMIsOwned`: record and VM agree through partial failure; `ReapKeepsDirty`: a reap that found edits does not lose them; `FinishExportsAll`: a finish exports every acknowledged edit |
| `overlap` | 1 session, 2 reaper tasks, 2 slots, every fault | `PoolCountsWorkers` although releases overlap a rebuild |
| `live` | 1 session, 1 reaper task, faults, fairness | `LockReleased`: every operation ends; `LeftoverReleased`: the sweep releases a leftover worker |
| `commit` | 2 orchestrators, 2 versions, 3 commits, 1 crash, all faults, the user at any time | `TypeOK`; `IntentNamesCommit`: a landed commit is never forgotten; `NoSecondCommit`; `RecordedIsTheCommit`; each up to the exceptions it names (operations of two callers that overlap, a commit of the user after HEAD was read) |
| `transport` | 3 requests (two over the cap, in two ways), 2 connections, a crash, all faults, fairness | `ReplyNotLost`: no awaited reply is swallowed or torn; `EveryRequestSettles` |
| `review` | 1 session, 1 run, 2 slices, 4 finalize outputs (one malformed, one without `schema_version`, one that is no writing artifact), slices, diffs and outputs within and over the caps, a diff over the cap of one read, 1 fault | `TypeOK`; `PublishedComplete`: a published run is whole and can be read, slice by slice where the diff is too long for one read; `SummaryVouched`: a summary in the project is the document of an accepted finalize; `RejectedNotPersisted`: a rejected one is not persisted |
| `advisor` | 2 orchestrating sessions, 2 advisors, 2 requests, 1 lineage and lens, 2 candidates, 1 fault | `TypeOK`; `AnswerBound`: what is stored under an id belongs together; `RelayOwnsFiles`: one relay at a time holds a lens; `CapturedIsStored`: a recorded external lineage is only filled with stored answers; `StatusFinal` |
| `tools` | 3 calls of the worker session, 2 of its orchestrator, every tool that changes something | `TypeOK`; `NeverBlind`: nothing reaches the host without a question that cut nothing of what it showed; `LandedAsApproved`: an install lands what was shown unless the result is exported again between its check and its restore (section 5), a copied source file stays within what a human is shown |
| `guard` | 2 parallel calls, 3 agents, 6 tools, lost and late bindings | `TypeOK`; `ReadsRouted`; `MutationIsAuthorized`: a host mutation runs under a recorded identity and not beside a worker; `OrchestratorStays` |
| `plans` | 3 writers, 3 targets, 2 tasks, at most 3 revisions, 2 verdicts, 2 ticks, edits by hand at any time | `TypeOK`; `TickIsGated`: a tick only under a PASS that still stands, and no edit by hand lost, unless the edit falls into one of the two gaps described in section 5; `RevisionsCount`: no two writers build on one revision; `AppendsKept` |
| `relay` | 2 Tasks, 2 plugin instances, 2 sessions, 1 concurrent relay, fairness | `DeliveredIsOwn`: no Task returns its child's raw words as a result; `PromptsApart`: a child gets one prompt, of its agent, and of its session unless its event named no parent; `HooksReturn` |

**Bounds.** Two parked requests behind one slot are the smallest case in which order, a
departure from the middle and a drain differ; three sessions are needed for it.  One session
is enough for what concerns its record and VM, since sessions meet only in the pool; two
reaper tasks are the smallest overlap.  Two versions of a result are needed for a finish
during an install; three commits are the first one, one of `gitCommit` and one of the user, in
either order, or a second one of `gitCommit`; two callers are the smallest overlap, and with
one of them idle the case of a single orchestrator.  Two slices and a cap of one read between
the size of a slice and that of the diff make a published diff that only its slices serve.  Three requests let two replies queue behind a partial one; two
connections cover a reconnect.  Runs of the store are independent but for the caps on their
number; `MaxRuns = 0` and `MaxPerSession = 1` let both sweeps and the refusal happen with one
run.  Two candidates let an answer go stale between any two calls, two requests let one lens
be answered twice and a request have a follow-up.  Three calls of one session are an edit
around another call with a finish in between; `MaxLines = 1` puts two texts over the limit of
a preview.  Two calls are a read beside an activation, or a cached admission beside the tool
that clears it.  Two verdicts are a PASS and its revision, before or after a mark.  One allowed relay and
two Tasks reach the cap; two instances are the smallest owner and deferrer; two sessions are
enough for a child that is bound across sessions, and which of them the first Task has makes
no difference.  `MaxCrashes`,
`MaxHistory`, `MaxConn`, `MaxNotices`, `WireCap`, `MaxFaults`, `MaxPreCode`, `MaxVersion`,
`MaxRevs`, `MaxGates` and `MaxTicks` bound the counters in the guards.  `transport`, `review`,
`advisor` and `tools` turn the deadlock check off: each request, run or call happens once, so
nothing remains to be done in the end.  All other runs check for deadlock.

**Fairness.** Every step of an operation of `Broker` is weakly fair: `runHostStep` and the
`msb` adapter give each command a timeout, so a command in flight ends.  The queue timeout is
a timer.  A tick of the reaper is strongly fair because `setInterval` starts it again and
again.  Stopping and removing a worker are strongly fair: an attempt may fail any number of
times, but `msb` does not refuse for ever, and only `LeftoverReleased` depends on it.  In
`Transport` the event loops run what is ready, armed timers fire, both kernels deliver, and a
connect succeeds or fails; the operation itself is *not* assumed to end, and the broker is
not assumed to come back.  In `ReviewerRelay` a hook that can go on does, the host answers the
look-up of a root session, and the deadline of a relay is a timer; the provider is *not*
assumed to say anything, only that its result frame answers a completion frame.

## 4. The proofs

| Theorem | States |
|---|---|
| `TypeCorrect` (`BrokerProofs`) | `Spec => []TypeOK` |
| `NoWakeupLost` (`BrokerProofs`) | `Spec => []NoLostWakeup` |
| `PromisesCounted` (`BrokerProofs`) | `Spec => []PromisesExact` |
| `PoolRefined` (`BrokerProofs`) | `Spec => PoolSpec` |
| `CreationOwned`, `WorkerOwned`, `PoolCounted` (`BrokerProofs`) | `Spec => []CreationOwnsRecord`, `Spec => []VMIsOwned`, `Spec => []PoolCountsWorkers` |
| `ReapKeepsEdits`, `FinishExports` (`BrokerProofs`) | `Spec => []ReapKeepsDirty`, `Spec => FinishExportsAll` |
| `ResultTypeCorrect` (`ResultCommitProofs`) | `Spec => []TypeOK` |
| `AtMostOneCommit` (`ResultCommitProofs`) | `Spec => NoSecondCommit` |
| `CommitNotForgotten`, `RecordedCommitIsOurs` (`ResultCommitProofs`) | `Spec => []IntentNamesCommit`, `Spec => []RecordedIsTheCommit` |
| `ReviewTypeCorrect` (`ReviewProofs`) | `Spec => []TypeOK` |
| `PublishedRunsComplete`, `SummariesVouched`, `RejectionHolds` (`ReviewProofs`) | `Spec => []PublishedComplete`, `Spec => []SummaryVouched`, `Spec => RejectedNotPersisted` |
| `AdvisorTypes`, `AnswersBound`, `RelayOwned`, `CapturedStored` (`AdvisorProofs`) | `Spec => []TypeOK`, the same for `AnswerBound`, `RelayOwnsFiles` and `CapturedIsStored` |
| `StatusIsFinal` (`AdvisorProofs`) | `Spec => StatusFinal` |
| `GuardTypeCorrect`, `ReadsAreRouted` (`ToolGuardProofs`) | `Spec => []TypeOK`, `Spec => []ReadsRouted` |
| `OrchestratorIsFinal`, `MutationsAuthorized` (`ToolGuardProofs`) | `Spec => OrchestratorStays`, `Spec => MutationIsAuthorized` |
| `ToolsTypeCorrect`, `ApprovalNeverBlind`, `LandsAsApproved` (`SandboxToolsProofs`) | `Spec => []TypeOK`, `Spec => []NeverBlind`, `Spec => []LandedAsApproved` |
| `PlanTypeCorrect` (`PlanDocsProofs`) | `Spec => []TypeOK` |
| `TicksAreGated`, `RevisionsAreCounted`, `AppendsSurvive` (`PlanDocsProofs`) | `Spec => TickIsGated`, `Spec => RevisionsCount`, `Spec => AppendsKept` |
| `DeliveriesOwn`, `PromptsKeptApart` (`PluginProofs`) | `Spec => []DeliveredIsOwn`, `Spec => []PromptsApart` of `ReviewerRelay` |
| `RepliesNotLost` (`PluginProofs`) | `TransportSpec => []ReplyNotLost` |

They hold for every value of the constants that satisfies the assumptions of the modules:
any number of sessions, reaper tasks, slots, crashes, versions and commits; of calls, agents
and tools; of writers, tasks and lines; of Tasks, plugin instances, requests and buffers.
The assumptions are `ConstantsAssumption` (kinds
and bounds), `NoneAssumption`, `ToolsAssumption` and `PlanAssumption` (`None` is no role,
call, content, preview, document or verdict; the bounds are numbers), and `AdvisorAssumption`
(advisor sessions are no sessions of the main socket; an absent file and the exits of a
command are no records), `RelayAssumption` (`None` is no Task and no registration, the first
instance is one, the cap a number), and `StoreAssumption` and `PipelineAssumption` (a diff has finitely
many slices; a slice is within what one read serves; the names of slices, screens and phases
differ; sizes and caps are numbers; `None` is no run, session, artifact, record or document).  `RepliesNotLost` uses none of the
assumptions on the constants of `Transport`.

- `TypeOK` of `Broker` is inductive as it stands.  It says more than that a variable has its
  type in one place: a task at a point that works on a session names a session.
- The pool results share one inductive invariant, `PoolInv`: `NoLostWakeup`, and
  `PromiseInv`, which is `PromisesExact` with the fact that only creations carry a promise.
  `BrokerProofs` shows what each kind of step does to the promises (a promise is given to
  exactly the entries a drain takes from the front of the queue, and given back on each of
  the ways a creation ends).  `DrainStep` shows that a drain is an admission of
  `AdmissionPool` and leaves the queue empty or the pool full; every other action leaves the
  pool alone, admits to a free slot, or parks because there is none.
- `PoolRefined` uses the same lemmas: each step is a step of `AdmissionPool` under
  `waiting <- queue`, `held <- Len(allocations) + inFlight`, `admitted <- Awaited(task)`, or
  stutters.  Since `admitted` names the requests, the refinement includes the FIFO order.
- `WorkerInv` carries the three results about workers, none of which is inductive alone.  It
  says for each session what its record, its VM, the pool and its own task may be together
  (`WorkerOK`): among the rest, a creation under way has the record in CREATING_SANDBOX and
  no worker named, a record without a worker has no allocation, and a discard under way is of
  a session in RESULT_READY.  `ActorInv` adds what a task of anyone, the reaper's too, holds:
  the operation it runs determines which program points it can be at.
- `ExportInv` follows the edits a task answers for (`Saw`: for a reap what it found in the
  tree, for a finish the whole tree) through the export: in the worker's HEAD before the
  bundle is cut, in every bundle before the fetch, in the result before the worker is removed
  (`Sees`), whatever other tasks commit, bundle, fetch, remove or rebuild in between.
  `AllMade` (an edit that is anywhere was acknowledged) makes the edits of a rebuilt worker
  new.  `FinishExportsAll` is the same fact at the last step of a finish.
- `ReviewInv` of `ReviewPipeline` looks at each run and each operation.  A run (`RunOK`): a
  record that says published lists every artifact of the diff, within the file cap, and they
  are on disk as listed (`Serves`); a record that says accepted names a vouched, well-formed
  output (`Vouches`), and the last answer was then not a rejection.  An operation (`Work`): the
  publications it has still to make.  A record on that list satisfies the same, each artifact
  it lists is on disk or written before it, and nothing on the list overwrites an artifact of
  a published record (`TodoOK`); so does every rest of the list, which is why a crash or a
  failing write at any point is harmless.  A persist under way holds the document of a vouched
  output and no rejection has been answered since.  Sessions do not disturb each other because each works
  only on runs it owns; the sweeps, which own nothing, run when no list is being worked off.
  `TypeInv` adds the rest of `TypeOK`: the directories by age are those that exist, those past
  the TTL the oldest of them (`AgesOK`), also when a persist makes a directory again that a
  sweep has removed while it awaited.
- `AdvInv` of `Advisor` has two halves.  `FilesInv` is about the advisory records: `TypeOK` of
  the files, `AnswerBound`, that a submitted lens answer has a reviewer result, and that an
  advisor keeping evidence holds the claim of a request without an answer, so no answer can
  overtake its evidence.  `MainInv` is about what a request on the main socket still knows
  after its awaits (`Knows`): a relay, that the answer it read is stored for that lens and
  candidate; a free capture, that it was not for an external lineage; a finished capture,
  that gentle-ai has it.  `Settles` (records are final) makes this stable under the steps of
  everybody else, and is `StatusFinal` read on the files.
- `NoSecondCommit` is not inductive.  `CommitInv` adds what the record knows of a landed
  commit (it is recorded, or the intent's parent is older than it) and what an operation under
  way knows of the record: what it decides by is still what the record says, and `git commit`
  runs only when none has landed since the last clearing.  This holds for any number of
  callers as long as no `gitCommit` met another caller's operation: while a `gitCommit` is
  under way and `crossed` is false it is the only operation under way, although every session
  may be the next one to start.  A second caller that starts meanwhile sets `crossed`, after
  which nothing is claimed.
- `IntentNamesCommit` follows from the same `CommitInv`, which also says that the intent's
  parent is HEAD when `git commit` runs unless the user has committed since HEAD was read
  (`moved`).  `RecordedIsTheCommit` needs `RecordedInv` besides: an operation past its first
  read works on a result without a recorded commit, and HEAD is still the one it made or set
  out to prove, again unless `moved`.
- `GuardInv` of `ToolGuard` adds to `TypeOK` and `ReadsRouted` that a recorded identity and
  the life cycle of a worker exclude each other, that a session that has not entered it is in
  HOST_READ_ONLY, and that while no worker is active every call has seen that.  The first is
  what `MutationIsAuthorized` comes from, although the guard's cache may be stale.
- `CallsInv` of `SandboxTools` says that a call that asks, or was approved, has shown something
  with nothing cut, that an edit writes what it read, and that each effect on the host belongs
  to a call that has ended with it, which is why an approval cannot be spent twice.  `LinkInv`
  is about installs: a call exports at most once, so as long as the ref names the commit an
  install expects, the content is the one it has shown; and once the commit is checked the ref
  names it unless the result was exported again (`moved`).  `FilesInv` is the type of the rest.
- `PlanInv` of `PlanDocs`: in the document every section stands once and the revisions count
  1, 2, 3, ...; at most one request holds the lock; what it has read it has accepted, and the
  document on disk is what it read, or that with an edit by hand; before the rename of a mark
  it is what was read, and that passed the gate, unless the edit was `late` (`Knows`).  The lemma on the effect of a
  step reduces every action to one of four replacements of the document; the three action
  properties follow from it.
- `RelayInv` of `ReviewerRelay` says for each Task what its stage, its text, its relay and its
  registration may be together (`TaskOK`).  `DeliveredIsOwn` rests on an order: while no hook
  has acted on a Task, the next hook to run is that of the instance loaded first or of one
  disposed meanwhile (`FreshOK`); so the owner of a registration comes first among the after
  hooks and completes it before any other instance passes the Task on, or it is gone
  (`RegisteredOK`), which is the exception the property names.  `RelayOK` makes a result frame
  answer the words of the Task's own child: an open relay whose completion was sent has its
  owner waiting for it.  `PromptInv` adds, for `PromptsApart`, that a prompt an instance holds
  for a child is of a registration bound to that child, that no two registrations are bound to
  one child, that a bound child has been launched, so no later one is taken for it, and that
  the two have one agent and, unless the child is `parentless`, one session.
- `TransportInv` of `Transport` looks at the two streams as a whole, from the writer's queue
  through the socket to the reader's buffer (`ToBroker`, `ToClient`): partial writes and reads
  leave the concatenation alone (`Flushed`, `ReadPiece`).  Both streams are `Chained`, a first
  piece followed by its own last one; a stream to the client may start with a last piece
  only if its request has settled, which is what a timeout leaves when it drops its partial
  frame.  `Awaited` then says that a pending request has its whole frame in one of the
  streams or runs at the broker, and is carried through every way a line is taken, refused
  or skipped.

Out of the prover's reach and left to TLC: liveness (`LockReleased`, `LeftoverReleased`,
`EveryRequestSettles`, `HooksReturn`).  Every invariant and every action property that a run
checks has a theorem.  Orders that a proof has to follow are kept as functions to sets (the
registry of `ReviewerRelay`, the run directories by age of `ReviewStore`: who comes before)
rather than as sequences, since `SelectSeq` is recursive and nothing can be proved of it.

## 5. Where the code and its documents disagree

The models follow the code.  Where a comment or a document says more than the code does, the
property is stated for what the code does and names the exception; the cases met are these.

| Code | Says otherwise | What happens |
|---|---|---|
| `service.ts:399` | `queue.ts:11-13` | Direct admission reserves nothing until the allocation is pushed: two requests get the last slot. |
| `service.ts:1891` | `reaper.ts:456-457` | A reap commits before it exports; if the export fails, the next reap finds a clean tree and removes the worker with the edits. |
| `service.ts:546`, `service.ts:1958` | `state.ts:47-49` | A finished session is rebuilt from the host tree, and its next finish overwrites the earlier result. |
| `service.ts:2379` | `docs/architecture.md:72-73` | `git update-ref -d` runs in the broker's directory: the result ref stays. |
| `service.ts:2912` | `docs/TODO.md:137` | RETAINED to RETAINED is no transition: the commit of a kept result can never be recorded. |
| `service.ts:3205` | `sandbox-result.ts:65` | The install restores by the *name* of the ref it checked by commit: a finish of the owner in between changes what is installed.  `LandedAsApproved` names this exception. |
| `service.ts:1777` | `sandbox-tools.ts:394` | When a `.new` file with an original was added, the preview of an apply is the comparison of such files; other changed files are applied unseen.  `NeverBlind` names this exception. |
| `service.ts:4182` | `docs/contracts/multi-agent-v2-workflow-prompt.md:36` | A gate log with a tick behind it is dropped by the next plan write. |
| `sandbox-tools.ts:402` | `sandbox-tools.ts:394` | Apply previews the worker's tree, not the result it applies. |
| `sdd-service.ts:302` | `docs/advisor/interface-contract.md:103` | A lineage whose start lost its answer is not recorded as external, and takes free-form captures. |
| `routing-guard.ts:157` | the header of the file | When the status request fails, a host read is let through. |
| `reviewer-relay-core.ts:1556` | the comment at `:1225` | An instance disposed while its hook awaits registers all the same, and the Task returns the child's raw output. |

Four exceptions that the properties name are not ruled out by any document, but a reader
should know them.

- Two orchestrating sessions may commit one result at the same time (`service.ts:2892`): each
  holds its own lock only, the second overwrites the first one's intent, and a crash then
  leads to a second commit.  `NoSecondCommit`, `IntentNamesCommit` and `RecordedIsTheCommit`
  exclude that overlap (`crossed`); without it they fail.
- A commit of the user between the reading of HEAD and `git commit`, or between `git commit`
  and the reading of HEAD (`service.ts:2907`), makes the intent's parent older than the
  commit's, or the recorded commit the user's (`moved`).
- An edit by hand between the two reads of `taskMark` (`service.ts:4610`, `:4548`) is not
  looked at by the gate check, and one between the comparison of the bytes and the rename
  (`:4562`, `:4563`) is overwritten (`late` in `PlanDocs`).
- A reviewer child whose `session.created` event names no parent gets the first unbound prompt
  of its agent, of whichever session (`reviewer-relay-core.ts:1369`; `parentless`).

## 6. What is not modelled

- `BROKER_GIT_MODE` other than `real`, and a session record that cannot be persisted.
- In `ResultCommit`: push, the release of a worker after a recorded commit, a user who
  rewrites the branch (`git reset`).
- In `Transport`: a close event that arrives after the next connect, the take-over of a
  stale socket file by `recoverStaleSocket`, and shutdown.
- In `ReviewPipeline` and `Advisor`: what the helper and gentle-ai compute, and the text of
  slices, guidance and answers.
- In `ToolGuard` and `SandboxTools`: the wording of a question, the path arguments of a read,
  and the legacy SDD tools, which are rows of argv.
- In `ReviewerRelay`: the contents of frames and the transforms that copy a bound prompt into a
  child's messages.
- The review and SDD commands beside the advisor's path: argv construction around the one
  executor that `Advisor` models.
- The artifact sweep, which one timer runs over files nobody waits for.
- `validation.ts` but for its tables, `gitguard.ts`, `hostread.ts`, `config.ts`, `logging.ts`,
  the CLI and scripts: text in, verdict or file out, without a protocol.

## 7. Plan

Done: the modules of section 2 and the proofs of section 4.  What would come next:

1. `SocketOwnership`: `recoverStaleSocket`, `start` and `shutdown` of two brokers.
2. `ArtifactGC`: the sweep against operations that still need a bundle.

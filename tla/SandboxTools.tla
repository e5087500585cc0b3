---------------------------- MODULE SandboxTools ----------------------------
(***************************************************************************)
(* The tool calls of the sandbox plugin (opencode/plugins/sandbox-tools.ts)*)
(* against one worker session and its project on the host.                 *)
(*                                                                         *)
(* A tool call is a sequence of broker requests with, for the calls that   *)
(* change the host, a question to the human between the preview and the    *)
(* effect.  The broker holds the lock of the calling session for a request.*)
(* A request is one step, but for the two that read a result of another    *)
(* session, whose lock they do not hold: they are split where they await   *)
(* git.  Between two requests of a call, requests of other calls of the    *)
(* session may run.  The content of the worker's file, of the exported     *)
(* result and of the host file is the set of the calls whose text it       *)
(* holds; its number of lines is the size of that set.  A call exports at  *)
(* most once, so it names the commit it exports.                           *)
(***************************************************************************)
EXTENDS Integers, FiniteSets

CONSTANTS Calls,           \* tool calls of the session that owns the worker
          HostCalls,       \* tool calls of the orchestrating session
          Tools,           \* the tools the calls may use
          MaxLines,        \* maxApplyDiffLines
          None

VARIABLES
    state,      \* the record's state
    tree,       \* the worker's working tree
    baseline,   \* refs/opencode-sandbox/baseline
    result,     \* refs/opencode-sandbox/result, or None: a commit and its content
    installed,  \* the record's installedCommit, or None
    host,       \* the project's working tree
    target,     \* the external file copyOut writes
    finalize,   \* the finalize artifact with recorded provenance, or None
    summary,    \* review-summary.json in the project, or None
    call,       \* the tool calls
    landed,     \* history: the effects on the host, with what was shown
    moved       \* history: the installs whose result was exported again after the check

session == <<state, tree, baseline, result, installed>>
outside == <<host, target, finalize, summary, landed>>
vars == <<session, outside, call, moved>>

AllCalls == Calls \cup HostCalls
Content == SUBSET (AllCalls \cup {"user"})

Results == [commit : AllCalls, content : Content]

\* What a question may show of a content or of a finalize artifact: all of the
\* diff or a prefix, or, instead of the diff, the comparison of added files.
Previews == [content : Content \cup AllCalls, whole : BOOLEAN, compare : BOOLEAN]

ASSUME ToolsAssumption ==
    None \notin AllCalls /\ None \notin Previews /\ None \notin Results /\ \A x \in Content : None # x

\* sandbox_* tools refuse the orchestrating agents (assertNotOrchestrator);
\* the host_* tools used here are theirs alone.
HostTools == {"host_sandbox_result_install", "host_review_pipeline_run",
              "host_review_persist"}
Activating == {"sandbox_write", "sandbox_edit", "sandbox_apply_patch",
               "sandbox_bash", "sandbox_copy_in"}

New == [tool |-> None, pc |-> "new", seen |-> None, expect |-> None]
At(c, tool, pc) == call[c].tool = tool /\ call[c].pc = pc
Goto(c, pc, seen) == call' = [call EXCEPT ![c].pc = pc, ![c].seen = seen]
\* The call returns to the model, with a result or with an error.
Done(c) == call' = [call EXCEPT ![c] = [New EXCEPT !.pc = "done"]]

\* The requests of the orchestrating session hold its lock.
Unlocked == \A h \in HostCalls : call[h].pc \notin {"patch", "checked", "restore"}

Landed(c, content) ==
    landed' = landed \cup {[call |-> c, tool |-> call[c].tool,
                            seen |-> call[c].seen, content |-> content]}

----------------------------------------------------------------------------
(* The broker's side of the requests. *)

\* requireActiveWorker.
Active == state \in {"SANDBOX_ACTIVE", "RESULT_READY"}

Begin(c, tool) ==
    /\ call[c] = New
    /\ (tool \in HostTools) = (c \in HostCalls)
    /\ call' = [call EXCEPT ![c].tool = tool,
                    ![c].pc = IF tool \in Activating THEN "ensure" ELSE "run"]
    /\ UNCHANGED <<session, outside, moved>>

\* ensureWorker reuses an active worker and creates one from the host as it
\* is otherwise.
EnsureWorker(c) ==
    /\ call[c].pc = "ensure"
    /\ Goto(c, "run", None)
    /\ IF Active
         THEN UNCHANGED session
         ELSE /\ state' = "SANDBOX_ACTIVE"
              /\ tree' = host /\ baseline' = host
              /\ UNCHANGED <<result, installed>>
    /\ UNCHANGED <<outside, moved>>

\* A request the broker refuses, or that fails in the worker, ends the call
\* and leaves everything as it was.
Fails(c) ==
    /\ call[c].pc \notin {"new", "ensure", "ask", "done"}
    /\ Done(c)
    /\ UNCHANGED <<session, outside, moved>>

\* writeFile replaces the file atomically.
writeFile(content) == Active /\ tree' = content

\* prepareResult exports the tree as it is, also from RESULT_READY.
prepareResult(c) ==
    /\ Active
    /\ result' = [commit |-> c, content |-> tree]
    /\ state' = "RESULT_READY"
    /\ moved' = moved \cup {h \in HostCalls : call[h].pc \in {"checked", "restore"}}
    /\ UNCHANGED <<tree, baseline, installed>>

----------------------------------------------------------------------------
(* Tools that change the worker only: no approval. *)

sandbox_write(c) ==
    /\ At(c, "sandbox_write", "run")
    /\ writeFile({c})
    /\ Done(c)
    /\ UNCHANGED <<state, baseline, result, installed, outside, moved>>

\* sandbox_edit reads the file and writes it whole in a second request.
EditReads(c) ==
    /\ At(c, "sandbox_edit", "run")
    /\ Active
    /\ Goto(c, "write", tree)
    /\ UNCHANGED <<session, outside, moved>>

\* applyTargetedEdit changes the text it names and keeps the rest.
applyTargetedEdit(content, c) == content \cup {c}

EditWrites(c) ==
    /\ At(c, "sandbox_edit", "write")
    /\ writeFile(applyTargetedEdit(call[c].seen, c))
    /\ Done(c)
    /\ UNCHANGED <<state, baseline, result, installed, outside, moved>>

\* git apply runs in the worker, in one request.
sandbox_apply_patch(c) ==
    /\ At(c, "sandbox_apply_patch", "run")
    /\ writeFile(tree \cup {c})
    /\ Done(c)
    /\ UNCHANGED <<state, baseline, result, installed, outside, moved>>

\* exec: any argv; the command may change the tree.
sandbox_bash(c) ==
    /\ At(c, "sandbox_bash", "run")
    /\ \E content \in {tree, tree \cup {c}} : writeFile(content)
    /\ Done(c)
    /\ UNCHANGED <<state, baseline, result, installed, outside, moved>>

sandbox_finish(c) ==
    /\ At(c, "sandbox_finish", "run")
    /\ prepareResult(c)
    /\ Done(c)
    /\ UNCHANGED outside

\* Mutant: the result is dropped and the session still says it is ready.
DiscardKeepsState(c) ==
    /\ At(c, "sandbox_discard", "run")
    /\ state = "RESULT_READY"
    /\ result' = None
    /\ Done(c)
    /\ UNCHANGED <<state, tree, baseline, installed, outside, moved>>

sandbox_discard(c) ==
    /\ At(c, "sandbox_discard", "run")
    /\ state = "RESULT_READY"
    /\ state' = "REJECTED" /\ result' = None
    /\ Done(c)
    /\ UNCHANGED <<tree, baseline, installed, outside, moved>>

----------------------------------------------------------------------------
(* The approval boundary. *)

\* What a question shows of a content: its diff, here whole.
Preview(content) == [content |-> content, whole |-> TRUE, compare |-> FALSE]

\* For added files that end in .new the diff op reports how they differ from
\* their originals, and then previews that comparison and nothing else.
Comparison(content) == [Preview(content) EXCEPT !.compare = TRUE]

\* Mutant: a cut preview is shown whatever the broker supplied.
decideWithoutFile(truncated, file) == TRUE

\* decideApplyPreviewApproval: the inline preview may be cut, and an older
\* broker writes no artifact.
decideApplyPreviewApproval(truncated, file) == ~(truncated /\ ~file)

\* requestApplyApproval refuses before it asks.  What is asked about is whole
\* when nothing is cut or a complete artifact goes with it.
requestApplyApproval(c, preview) ==
    \E truncated, file \in BOOLEAN :
        IF decideApplyPreviewApproval(truncated, file)
          THEN Goto(c, "ask", [preview EXCEPT !.whole = ~truncated \/ file])
          ELSE Done(c)

\* ctx.ask: the human approves, or the call ends.
Ask(c) ==
    /\ call[c].pc = "ask"
    /\ Goto(c, "approved", call[c].seen) \/ Done(c)
    /\ UNCHANGED <<session, outside, moved>>

----------------------------------------------------------------------------
(* sandbox_apply *)

\* workerStatus: the result is prepared unless one is ready.
ApplyStatus(c) ==
    /\ At(c, "sandbox_apply", "run")
    /\ Goto(c, IF state = "RESULT_READY" THEN "diff" ELSE "prepare", None)
    /\ UNCHANGED <<session, outside, moved>>

ApplyPrepares(c) ==
    /\ At(c, "sandbox_apply", "prepare")
    /\ prepareResult(c)
    /\ Goto(c, "diff", None)
    /\ UNCHANGED outside

\* diff, mode active: the working tree of the worker against the baseline.
ApplyPreviews(c) ==
    /\ At(c, "sandbox_apply", "diff")
    /\ Active
    /\ \/ requestApplyApproval(c, Preview(tree))
       \/ tree # baseline /\ requestApplyApproval(c, Comparison(tree))
    /\ UNCHANGED <<session, outside, moved>>

\* applyResult takes only confirm: "APPLY": the host must still be at the
\* baseline, and the exported result is applied.
applyResult(c) ==
    /\ At(c, "sandbox_apply", "approved")
    /\ state = "RESULT_READY"
    /\ host = baseline
    /\ host' = result.content
    /\ state' = "APPLIED"
    /\ Landed(c, result.content)
    /\ Done(c)
    /\ UNCHANGED <<tree, baseline, result, installed, target, finalize, summary, moved>>

----------------------------------------------------------------------------
(* sandbox_copy_out (to a source-code target: the preview of any other is   *)
(* cut at 400 lines) and sandbox_copy_in                                    *)

\* assertCopyOutReviewLimit: a source-code target is shown whole or refused.
WithinReviewLimit(content) == Cardinality(content) <= MaxLines

copyOutInfo(c) ==
    /\ At(c, "sandbox_copy_out", "run")
    /\ Active
    /\ WithinReviewLimit(tree)
    /\ Goto(c, "ask", Preview(tree))
    /\ UNCHANGED <<session, outside, moved>>

\* copyOut reads the file again and checks the bytes it copied.
copyOut(c) ==
    /\ At(c, "sandbox_copy_out", "approved")
    /\ Active
    /\ WithinReviewLimit(tree)
    /\ target' = tree
    /\ Landed(c, tree)
    /\ Done(c)
    /\ UNCHANGED <<session, host, finalize, summary, moved>>

\* copyInInfo shows the source and its size, copyIn overwrites the file.
copyInInfo(c) ==
    /\ At(c, "sandbox_copy_in", "run")
    /\ Goto(c, "ask", Preview(target))
    /\ UNCHANGED <<session, outside, moved>>

copyIn(c) ==
    /\ At(c, "sandbox_copy_in", "approved")
    /\ writeFile(target)
    /\ Done(c)
    /\ UNCHANGED <<state, baseline, result, installed, outside, moved>>

----------------------------------------------------------------------------
(* host_sandbox_result_install and host_review_persist *)

\* The read and the install take the owner's result in these states.
ResultExported == state \in {"RESULT_READY", "APPLIED"} /\ result # None

\* sandboxResult resolves the commit of the ref, ...
InstallReads(c) ==
    /\ At(c, "host_sandbox_result_install", "run")
    /\ Unlocked
    /\ ResultExported
    /\ call' = [call EXCEPT ![c].pc = "patch", ![c].expect = result.commit]
    /\ UNCHANGED <<session, outside, moved>>

\* ... and then reads the patch by the name of the ref.
InstallPreviews(c) ==
    /\ At(c, "host_sandbox_result_install", "patch")
    /\ result # None
    /\ requestApplyApproval(c, Preview(result.content))
    /\ UNCHANGED <<session, outside, moved>>

\* Mutant: the install takes whatever the ref names now.
ExpectsAny(c) == result # None

\* expectedResultCommit: the commit of the preview.
ExpectsResult(c) == result.commit = call[c].expect

\* sandboxResultInstall checks the commit, ...
InstallChecks(c) ==
    /\ At(c, "host_sandbox_result_install", "approved")
    /\ Unlocked
    /\ ResultExported
    /\ installed \in {None, call[c].expect}
    /\ ExpectsResult(c)
    /\ Goto(c, "checked", call[c].seen)
    /\ UNCHANGED <<session, outside, moved>>

\* ... answers when the commit is installed already and the host still holds
\* the result, ...
AlreadyInstalled(c) ==
    /\ At(c, "host_sandbox_result_install", "checked")
    /\ installed # None
    /\ result # None /\ host = result.content
    /\ Done(c)
    /\ UNCHANGED <<session, outside, moved>>

\* ... requires the host to be at the baseline on the result's paths, ...
InstallCompares(c) ==
    /\ At(c, "host_sandbox_result_install", "checked")
    /\ installed = None
    /\ host = baseline
    /\ Goto(c, "restore", call[c].seen)
    /\ UNCHANGED <<session, outside, moved>>

\* ... and restores them by the name of the ref, recording the expected commit.
InstallRestores(c) ==
    /\ At(c, "host_sandbox_result_install", "restore")
    /\ result # None
    /\ host' = result.content
    /\ installed' = call[c].expect
    /\ Landed(c, result.content)
    /\ Done(c)
    /\ UNCHANGED <<state, tree, baseline, result, target, finalize, summary, moved>>

\* A finalize phase of the review pipeline replaces the recorded artifact.
RunFinalize(c) ==
    /\ At(c, "host_review_pipeline_run", "run")
    /\ Unlocked
    /\ finalize' = c
    /\ Done(c)
    /\ UNCHANGED <<session, host, target, summary, landed, moved>>

\* reviewPersistPreflight reports the recorded finalize; a blocker refuses
\* before the human is asked.
PersistPreflight(c) ==
    /\ At(c, "host_review_persist", "run")
    /\ Unlocked
    /\ finalize # None
    /\ Goto(c, "ask", Preview(finalize))
    /\ UNCHANGED <<session, outside, moved>>

\* reviewPersist reads the recorded finalize again.
reviewPersist(c) ==
    /\ At(c, "host_review_persist", "approved")
    /\ Unlocked
    /\ finalize # None
    /\ summary' = finalize
    /\ Landed(c, finalize)
    /\ Done(c)
    /\ UNCHANGED <<session, host, target, finalize, moved>>

----------------------------------------------------------------------------

\* The user edits the project while the worker runs.
UserEdits ==
    /\ "user" \notin host                                    \* bound: once
    /\ host' = host \cup {"user"}
    /\ UNCHANGED <<session, target, finalize, summary, call, landed, moved>>

Init ==
    /\ state = "HOST_READ_ONLY"
    /\ tree = {} /\ baseline = {} /\ host = {} /\ target = {}
    /\ result = None /\ installed = None /\ finalize = None /\ summary = None
    /\ call = [c \in AllCalls |-> New]
    /\ landed = {} /\ moved = {}

Next ==
    \/ \E c \in AllCalls :
        \/ \E tool \in Tools : Begin(c, tool)
        \/ EnsureWorker(c) \/ Fails(c) \/ Ask(c)
        \/ sandbox_write(c) \/ EditReads(c) \/ EditWrites(c)
        \/ sandbox_apply_patch(c) \/ sandbox_bash(c)
        \/ sandbox_finish(c) \/ sandbox_discard(c)
        \/ ApplyStatus(c) \/ ApplyPrepares(c) \/ ApplyPreviews(c) \/ applyResult(c)
        \/ copyOutInfo(c) \/ copyOut(c) \/ copyInInfo(c) \/ copyIn(c)
        \/ InstallReads(c) \/ InstallPreviews(c) \/ InstallChecks(c)
        \/ AlreadyInstalled(c) \/ InstallCompares(c) \/ InstallRestores(c)
        \/ RunFinalize(c) \/ PersistPreflight(c) \/ reviewPersist(c)
    \/ UserEdits

Spec == Init /\ [][Next]_vars

----------------------------------------------------------------------------
(* Properties. *)

\* The record, the trees and the calls have their types; a result that is
\* ready has been exported.
TypeOK ==
    /\ state \in {"HOST_READ_ONLY", "SANDBOX_ACTIVE", "RESULT_READY", "APPLIED", "REJECTED"}
    /\ {tree, baseline, host, target} \subseteq Content
    /\ result # None => result \in Results
    /\ installed \in AllCalls \cup {None}
    /\ state = "RESULT_READY" => result # None
    /\ finalize \in AllCalls \cup {None} /\ summary \in AllCalls \cup {None}
    /\ \A c \in AllCalls : call[c].pc = "approved" => call[c].seen # None

\* Whatever reaches the host was put before the human with nothing cut, inline or
\* as a complete artifact (decideApplyPreviewApproval, requestApplyApproval),
\* and each approval is spent on one effect.  What was put before the human is
\* the whole change, except that sandbox_apply of a change with an added .new
\* file shows the comparison of such files and no other changed file.
NeverBlind ==
    /\ \A r \in landed : /\ r.seen # None /\ r.seen.whole
                         /\ r.seen.compare => r.tool = "sandbox_apply"
    /\ \A r, q \in landed : r.call = q.call => r = q

\* What lands is bounded by what was approved, although the worker goes on.  An
\* install lands exactly the content the human saw (expectedResultCommit), even
\* if the session that owns the result exports it again while the preview is
\* read or the question is open; the exception is an export between the check
\* of the commit and the restore by the name of the ref.  A copy to a
\* source-code target is never longer than a human is shown, even if the
\* worker's file grew after the preview (copyOut checks the bytes it copied).
LandedAsApproved ==
    \A r \in landed :
        /\ r.tool = "host_sandbox_result_install" /\ r.call \notin moved => r.content = r.seen.content
        /\ r.tool = "sandbox_copy_out" => WithinReviewLimit(r.content)

=============================================================================

------------------------- MODULE SandboxToolsProofs -------------------------
(***************************************************************************)
(* Proofs about SandboxTools: type correctness, that nothing reaches the   *)
(* host but what was shown and approved, once for each approval, and that  *)
(* an install lands what was shown.                                        *)
(***************************************************************************)
EXTENDS SandboxTools, TLAPS

Pcs == {"new", "ensure", "run", "write", "prepare", "diff", "patch", "ask", "approved",
        "checked", "restore", "done"}

(* The call has been asked about.                                           *)
Asked == {"ask", "approved", "checked", "restore"}

(* What was shown without anything missing.                                 *)
Shown == {p \in Previews : p.whole = TRUE}

CallRecord == [tool : Tools \cup {None}, pc : Pcs, seen : Content \cup Previews \cup {None},
               expect : AllCalls \cup {None}]

(* A question, and what follows it, is about something shown whole; an edit *)
(* writes what it has read.                                                 *)
CallOK(k) ==
    /\ k \in CallRecord
    /\ k.pc \in Asked => k.seen \in Shown /\ (k.seen.compare => k.tool = "sandbox_apply")
    /\ k.pc = "write" => k.seen \in Content

(* An effect belongs to a call that has ended with it.                      *)
EffectOK(r) ==
    /\ r.call \in AllCalls /\ call[r.call].pc = "done"
    /\ r.seen \in Shown /\ (r.seen.compare => r.tool = "sandbox_apply")
    /\ r.tool = "host_sandbox_result_install" /\ r.call \notin moved => r.content = r.seen.content
    /\ r.tool = "sandbox_copy_out" => WithinReviewLimit(r.content)

CallsInv ==
    /\ DOMAIN call = AllCalls /\ call = [c \in AllCalls |-> call[c]]
    /\ \A c \in AllCalls : CallOK(call[c])
    /\ \A r \in landed : EffectOK(r)
    /\ \A r, q \in landed : r.call = q.call => r = q

(* The call has made its one export, or will make none.                     *)
Past(k) == k.pc = "done" \/ (k.tool = "sandbox_apply" /\ k.pc \in {"diff", "ask", "approved"})

(* What an install knows of the result: as long as the ref names the commit *)
(* it expects the content is the one shown, and once the commit is checked  *)
(* the ref names it unless the result has been exported again.              *)
LinkOK(c, k, res, mv) ==
    /\ k.pc \notin {"new", "done"} /\ k.tool \in HostTools => c \in HostCalls
    /\ (/\ k.pc \in Asked /\ k.tool = "host_sandbox_result_install"
        /\ res # None /\ res.commit = k.expect) => k.seen.content = res.content
    /\ k.pc \in {"checked", "restore"} =>
         /\ k.tool = "host_sandbox_result_install"
         /\ c \notin mv /\ res # None => res.commit = k.expect

LinkInv ==
    /\ result # None => Past(call[result.commit])
    /\ \A c \in AllCalls : /\ LinkOK(c, call[c], result, moved)
                           /\ call[c].expect # None => Past(call[call[c].expect])

(* The record, the worker and the files.                                    *)
FilesInv ==
    /\ state \in {"HOST_READ_ONLY", "SANDBOX_ACTIVE", "RESULT_READY", "APPLIED", "REJECTED"}
    /\ tree \in Content /\ baseline \in Content /\ host \in Content /\ target \in Content
    /\ result # None => result \in Results
    /\ installed \in AllCalls \cup {None}
    /\ state = "RESULT_READY" => result # None
    /\ finalize \in AllCalls \cup {None} /\ summary \in AllCalls \cup {None}

----------------------------------------------------------------------------
(* Steps of one call. *)

(* A call that has not ended goes on to k, with no effect on the host.      *)
LEMMA CallStep ==
    ASSUME CallsInv, NEW c \in AllCalls, call[c].pc # "done", NEW k, CallOK(k),
           call' = [call EXCEPT ![c] = k], landed' = landed, moved \subseteq moved'
    PROVE  CallsInv'
<1>1. /\ DOMAIN call' = AllCalls /\ call' = [d \in AllCalls |-> call'[d]]
      /\ call'[c] = k /\ \A d \in AllCalls \ {c} : call'[d] = call[d]
  BY DEF CallsInv
<1>2. \A d \in AllCalls : CallOK(call'[d])
  BY <1>1 DEF CallsInv
<1>3. \A r \in landed : EffectOK(r)'
  BY <1>1 DEF CallsInv, EffectOK
<1> QED BY <1>1, <1>2, <1>3 DEF CallsInv, CallOK

(* The call that has ended.                                                 *)
LEMMA DoneOK ==
    LET j == [New EXCEPT !.pc = "done"] IN CallOK(j) /\ j.pc = "done" /\ j.expect = None
BY DEF New, CallOK, CallRecord, Pcs, Asked

(* A call ends without an effect on the host.                               *)
LEMMA DoneStep ==
    ASSUME CallsInv, NEW c \in AllCalls, call[c].pc # "done", Done(c), landed' = landed,
           moved \subseteq moved'
    PROVE  CallsInv'
BY CallStep, DoneOK DEF Done

(* A call goes on to another request or question.                           *)
LEMMA GotoStep ==
    ASSUME CallsInv, NEW c \in AllCalls, call[c].pc # "done", NEW pc \in Pcs,
           NEW seen \in Content \cup Previews \cup {None}, Goto(c, pc, seen),
           pc \in Asked => seen \in Shown /\ (seen.compare => call[c].tool = "sandbox_apply"),
           pc = "write" => seen \in Content, landed' = landed, moved \subseteq moved'
    PROVE  CallsInv'
<1> DEFINE k == [call[c] EXCEPT !.pc = pc, !.seen = seen]
<1>1. call[c] \in CallRecord
  BY DEF CallsInv, CallOK
<1>2. k \in CallRecord /\ k.pc = pc /\ k.seen = seen /\ k.tool = call[c].tool
  BY <1>1 DEF CallRecord
<1>3. call' = [call EXCEPT ![c] = k]
  BY DEF Goto, CallsInv
<1> HIDE DEF k
<1>4. CallOK(k)
  BY <1>2 DEF CallOK
<1> QED BY <1>3, <1>4, CallStep

(* An approved call has its effect and ends.                                *)
LEMMA LandStep ==
    ASSUME CallsInv, NEW c \in AllCalls, call[c].pc \in {"approved", "restore"}, NEW content,
           Landed(c, content), Done(c), moved' = moved,
           call[c].tool = "host_sandbox_result_install" /\ c \notin moved
             => content = call[c].seen.content,
           call[c].tool = "sandbox_copy_out" => WithinReviewLimit(content)
    PROVE  CallsInv'
<1> DEFINE k == [New EXCEPT !.pc = "done"]
<1>0. PICK e : e = [call |-> c, tool |-> call[c].tool, seen |-> call[c].seen,
                    content |-> content]
  OBVIOUS
<1>1. /\ DOMAIN call' = AllCalls /\ call' = [d \in AllCalls |-> call'[d]]
      /\ call'[c] = k /\ \A d \in AllCalls \ {c} : call'[d] = call[d]
  BY DEF CallsInv, Done
<1>2. CallOK(k) /\ k.pc = "done"
  BY DoneOK
<1>3. landed' = landed \cup {e}
  BY <1>0 DEF Landed
<1>4. /\ e.call = c /\ e.tool = call[c].tool /\ e.seen = call[c].seen
      /\ e.content = content
  BY <1>0
<1> HIDE DEF k
<1>5. \A d \in AllCalls : CallOK(call'[d])
  BY <1>1, <1>2 DEF CallsInv
<1>6. \A r \in landed : r.call # c /\ EffectOK(r)'
  BY <1>1 DEF CallsInv, EffectOK
<1>7. EffectOK(e)'
  BY <1>1, <1>2, <1>4 DEF CallsInv, CallOK, EffectOK, Asked
<1>8. \A r, q \in landed' : r.call = q.call => r = q
  BY <1>3, <1>4, <1>6 DEF CallsInv
<1> QED BY <1>1, <1>3, <1>5, <1>6, <1>7, <1>8 DEF CallsInv, CallOK

(* A preview that may be shown is whole (decideApplyPreviewApproval).       *)
LEMMA PreviewShown ==
    ASSUME NEW content \in Content \cup AllCalls
    PROVE  /\ Preview(content) \in Shown /\ Preview(content).content = content
           /\ Preview(content).compare = FALSE /\ Comparison(content) \in Shown
BY DEF Preview, Comparison, Shown, Previews

(* A question that is asked is about the preview, whole.                    *)
LEMMA ApprovalAsks ==
    ASSUME NEW c, NEW preview \in Shown, requestApplyApproval(c, preview)
    PROVE  Goto(c, "ask", preview) \/ Done(c)
<1>1. PICK truncated \in BOOLEAN, file \in BOOLEAN :
         IF decideApplyPreviewApproval(truncated, file)
           THEN Goto(c, "ask", [preview EXCEPT !.whole = ~truncated \/ file])
           ELSE Done(c)
  BY DEF requestApplyApproval
<1>2. CASE ~decideApplyPreviewApproval(truncated, file)
  BY <1>1, <1>2
<1>3. CASE decideApplyPreviewApproval(truncated, file)
  <2>1. (~truncated \/ file) = TRUE
    BY <1>3 DEF decideApplyPreviewApproval
  <2>2. [preview EXCEPT !.whole = TRUE] = preview
    BY DEF Shown, Previews
  <2> QED BY <1>1, <1>3, <2>1, <2>2
<1> QED BY <1>2, <1>3

LEMMA ApprovalStep ==
    ASSUME CallsInv, NEW c \in AllCalls, call[c].pc # "done", NEW preview \in Shown,
           preview.compare => call[c].tool = "sandbox_apply",
           requestApplyApproval(c, preview), landed' = landed, moved' = moved
    PROVE  CallsInv'
<1>1. CASE Done(c)
  BY <1>1, DoneStep
<1>2. CASE Goto(c, "ask", preview)
  BY <1>2, GotoStep DEF Pcs, Shown
<1> QED BY <1>1, <1>2, ApprovalAsks

----------------------------------------------------------------------------
(* Every action keeps the invariants. *)

LEMMA ToolsInit == Init => FilesInv /\ CallsInv /\ LinkInv
<1> SUFFICES ASSUME Init PROVE FilesInv /\ CallsInv /\ LinkInv
  OBVIOUS
<1>1. CallOK(New) /\ {} \in Content
  BY DEF New, CallOK, CallRecord, Pcs, Asked, Content
<1>2. CallsInv
  BY <1>1 DEF Init, CallsInv
<1>3. FilesInv
  BY <1>1 DEF Init, FilesInv
<1>4. LinkInv
  BY DEF Init, LinkInv, LinkOK, New, Asked
<1> QED BY <1>2, <1>3, <1>4

(* The record, the worker and the files.                                    *)
LEMMA FilesStep ==
    ASSUME FilesInv, CallsInv, Next
    PROVE  FilesInv'
<1>t. \A x \in Content, c \in AllCalls : {c} \in Content /\ x \cup {c} \in Content
  BY DEF Content
<1>n. /\ None \notin Content /\ None \notin AllCalls /\ None \notin Results
  BY ToolsAssumption
<1>1. CASE UserEdits
  <2>1. host \cup {"user"} \in Content
    BY DEF FilesInv, Content
  <2> QED BY <1>1, <2>1 DEF UserEdits, session, FilesInv
<1>2. ASSUME NEW c \in AllCalls, NEW content \in Content, writeFile(content),
             UNCHANGED <<state, baseline, result, installed, outside>>
      PROVE  FilesInv'
  BY <1>2 DEF writeFile, outside, FilesInv
<1>3. ASSUME NEW c \in AllCalls, prepareResult(c), UNCHANGED outside PROVE FilesInv'
  BY <1>3, <1>n DEF prepareResult, outside, FilesInv, Results
<1>4. ASSUME UNCHANGED <<session, outside>> PROVE FilesInv'
  BY <1>4 DEF session, outside, FilesInv
<1>5. ASSUME NEW c \in AllCalls,
             \/ (\E tool \in Tools : Begin(c, tool)) \/ Fails(c) \/ Ask(c)
             \/ EditReads(c) \/ ApplyStatus(c) \/ ApplyPreviews(c) \/ copyOutInfo(c)
             \/ copyInInfo(c) \/ InstallReads(c) \/ InstallPreviews(c) \/ InstallChecks(c)
             \/ AlreadyInstalled(c) \/ InstallCompares(c) \/ PersistPreflight(c)
      PROVE  FilesInv'
  <2>1. UNCHANGED <<session, outside>>
    BY <1>5 DEF Begin, Fails, Ask, EditReads, ApplyStatus, ApplyPreviews, copyOutInfo,
       copyInInfo, InstallReads, InstallPreviews, InstallChecks, AlreadyInstalled,
       InstallCompares, PersistPreflight
  <2> QED BY <2>1, <1>4
<1>6. ASSUME NEW c \in AllCalls,
             \/ sandbox_write(c) \/ EditWrites(c) \/ sandbox_apply_patch(c)
             \/ sandbox_bash(c) \/ copyIn(c)
      PROVE  FilesInv'
  <2>1. CASE sandbox_write(c)
    BY <2>1, <1>t, <1>2 DEF sandbox_write, FilesInv
  <2>2. CASE EditWrites(c)
    <3>1. call[c].seen \in Content
      BY <2>2 DEF EditWrites, At, CallsInv, CallOK
    <3>2. applyTargetedEdit(call[c].seen, c) \in Content
      BY <3>1, <1>t DEF applyTargetedEdit
    <3> QED BY <2>2, <3>2, <1>2 DEF EditWrites
  <2>3. CASE sandbox_apply_patch(c)
    <3>1. tree \cup {c} \in Content
      BY <1>t DEF FilesInv
    <3> QED BY <2>3, <3>1, <1>2 DEF sandbox_apply_patch
  <2>4. CASE sandbox_bash(c)
    <3>1. {tree, tree \cup {c}} \subseteq Content
      BY <1>t DEF FilesInv
    <3> QED BY <2>4, <3>1, <1>2 DEF sandbox_bash
  <2>5. CASE copyIn(c)
    <3>1. target \in Content
      BY DEF FilesInv
    <3> QED BY <2>5, <3>1, <1>2 DEF copyIn
  <2> QED BY <1>6, <2>1, <2>2, <2>3, <2>4, <2>5
<1>7. ASSUME NEW c \in AllCalls, sandbox_finish(c) \/ ApplyPrepares(c) PROVE FilesInv'
  BY <1>7, <1>3 DEF sandbox_finish, ApplyPrepares
<1>8. ASSUME NEW c \in AllCalls, EnsureWorker(c) PROVE FilesInv'
  BY <1>8 DEF EnsureWorker, session, outside, FilesInv
<1>9. ASSUME NEW c \in AllCalls, sandbox_discard(c) PROVE FilesInv'
  BY <1>9 DEF sandbox_discard, outside, FilesInv
<1>10. ASSUME NEW c \in AllCalls, applyResult(c) PROVE FilesInv'
  BY <1>10 DEF applyResult, FilesInv, Results
<1>11. ASSUME NEW c \in AllCalls, copyOut(c) PROVE FilesInv'
  BY <1>11 DEF copyOut, session, FilesInv
<1>12. ASSUME NEW c \in AllCalls, InstallRestores(c) PROVE FilesInv'
  <2>1. call[c].expect \in AllCalls \cup {None}
    BY DEF CallsInv, CallOK, CallRecord
  <2> QED BY <1>12, <2>1 DEF InstallRestores, FilesInv, Results
<1>13. ASSUME NEW c \in AllCalls, RunFinalize(c) PROVE FilesInv'
  BY <1>13 DEF RunFinalize, session, FilesInv
<1>14. ASSUME NEW c \in AllCalls, reviewPersist(c) PROVE FilesInv'
  BY <1>14 DEF reviewPersist, session, FilesInv
<1> QED
  BY <1>1, <1>5, <1>6, <1>7, <1>8, <1>9, <1>10, <1>11, <1>12, <1>13, <1>14 DEF Next

(* The calls and their effects.                                             *)
LEMMA CallsStep ==
    ASSUME FilesInv, CallsInv, LinkInv, Next
    PROVE  CallsInv'
<1>f. None \in Content \cup Previews \cup {None} /\ tree \in Content /\ target \in Content
  BY DEF FilesInv
<1>1. CASE UserEdits
  BY <1>1 DEF UserEdits, CallsInv, CallOK, EffectOK
<1>2. ASSUME NEW c \in AllCalls, NEW tool \in Tools, Begin(c, tool) PROVE CallsInv'
  <2>0. PICK w \in {"ensure", "run"} : w = IF tool \in Activating THEN "ensure" ELSE "run"
    OBVIOUS
  <2> DEFINE k == [New EXCEPT !.tool = tool, !.pc = w]
  <2>1. call[c] = New /\ call' = [call EXCEPT ![c] = k] /\ landed' = landed /\ moved' = moved
    BY <1>2, <2>0 DEF Begin, CallsInv, outside
  <2>n. New \in CallRecord /\ New.pc = "new"
    BY DEF New, CallRecord, Pcs
  <2>2. k \in CallRecord /\ k.pc = w
    BY <2>n DEF CallRecord, Pcs
  <2>3. CallOK(k)
    BY <2>2 DEF CallOK, Asked
  <2> HIDE DEF k
  <2> QED BY <2>1, <2>n, <2>3, CallStep
<1>3. ASSUME NEW c \in AllCalls,
             \/ Fails(c) \/ sandbox_write(c) \/ EditWrites(c) \/ sandbox_apply_patch(c)
             \/ sandbox_bash(c) \/ sandbox_finish(c) \/ sandbox_discard(c) \/ copyIn(c)
             \/ AlreadyInstalled(c) \/ RunFinalize(c)
      PROVE  CallsInv'
  <2>1. call[c].pc # "done" /\ Done(c) /\ landed' = landed /\ moved \subseteq moved'
    BY <1>3 DEF Fails, sandbox_write, EditWrites, sandbox_apply_patch, sandbox_bash,
       sandbox_finish, sandbox_discard, copyIn, AlreadyInstalled, RunFinalize, At, outside,
       prepareResult
  <2> QED BY <2>1, DoneStep
<1>4. ASSUME NEW c \in AllCalls, EnsureWorker(c) PROVE CallsInv'
  BY <1>4, <1>f, GotoStep DEF EnsureWorker, outside, Pcs, Asked
<1>s. ASSUME NEW c \in AllCalls, call[c].pc \in Asked
      PROVE  /\ call[c].seen \in Shown /\ (call[c].seen.compare => call[c].tool = "sandbox_apply")
             /\ call[c].seen \in Content \cup Previews \cup {None} /\ call[c].pc # "done"
  BY <1>s DEF CallsInv, CallOK, Shown, Asked
<1>5. ASSUME NEW c \in AllCalls, Ask(c) PROVE CallsInv'
  <2>1. call[c].pc \in Asked /\ landed' = landed /\ moved' = moved
    BY <1>5 DEF Ask, Asked, outside
  <2>2. CASE Done(c)
    BY <2>1, <2>2, <1>s, DoneStep
  <2>3. CASE Goto(c, "approved", call[c].seen)
    BY <2>1, <2>3, <1>s, GotoStep DEF Pcs
  <2> QED BY <1>5, <2>2, <2>3 DEF Ask
<1>6. ASSUME NEW c \in AllCalls, EditReads(c) PROVE CallsInv'
  <2>1. call[c].pc # "done" /\ landed' = landed /\ moved' = moved /\ Goto(c, "write", tree)
    BY <1>6 DEF EditReads, At, outside
  <2> QED BY <1>f, <2>1, GotoStep DEF Pcs, Asked
<1>7. ASSUME NEW c \in AllCalls, ApplyStatus(c) \/ ApplyPrepares(c) PROVE CallsInv'
  <2>1. /\ call[c].pc # "done" /\ landed' = landed /\ moved \subseteq moved'
        /\ \E pc \in {"diff", "prepare"} : Goto(c, pc, None)
    BY <1>7 DEF ApplyStatus, ApplyPrepares, At, outside, prepareResult
  <2>2. PICK pc \in {"diff", "prepare"} : Goto(c, pc, None)
    BY <2>1
  <2>3. pc \in Pcs /\ pc \notin Asked /\ pc # "write"
    BY DEF Pcs, Asked
  <2> QED BY <1>f, <2>1, <2>2, <2>3, GotoStep
<1>8. ASSUME NEW c \in AllCalls, ApplyPreviews(c) PROVE CallsInv'
  <2>1. /\ call[c].pc # "done" /\ call[c].tool = "sandbox_apply"
        /\ landed' = landed /\ moved' = moved
        /\ requestApplyApproval(c, Preview(tree)) \/ requestApplyApproval(c, Comparison(tree))
    BY <1>8 DEF ApplyPreviews, At, outside
  <2>2. Preview(tree) \in Shown /\ Comparison(tree) \in Shown
    BY <1>f, PreviewShown
  <2> QED BY <2>1, <2>2, ApprovalStep
<1>9. ASSUME NEW c \in AllCalls, InstallPreviews(c) PROVE CallsInv'
  <2>1. /\ call[c].pc # "done" /\ landed' = landed /\ moved' = moved
        /\ requestApplyApproval(c, Preview(result.content))
    BY <1>9 DEF InstallPreviews, At, outside
  <2>2. result.content \in Content
    BY <1>9 DEF InstallPreviews, FilesInv, Results
  <2>3. Preview(result.content) \in Shown /\ Preview(result.content).compare = FALSE
    BY <2>2, PreviewShown
  <2> QED BY <2>1, <2>3, ApprovalStep
<1>q. ASSUME NEW c \in AllCalls, call[c].pc # "done", landed' = landed, moved' = moved,
             NEW content \in Content \cup AllCalls, Goto(c, "ask", Preview(content))
      PROVE  CallsInv'
  <2>1. Preview(content) \in Shown /\ Preview(content).compare = FALSE
    BY PreviewShown
  <2>2. Preview(content) \in Content \cup Previews \cup {None}
    BY <2>1 DEF Shown
  <2> QED BY <1>q, <2>1, <2>2, GotoStep DEF Pcs
<1>10. ASSUME NEW c \in AllCalls, copyOutInfo(c) \/ copyInInfo(c) PROVE CallsInv'
  <2>1. /\ call[c].pc # "done" /\ landed' = landed /\ moved' = moved
        /\ \E content \in {tree, target} : Goto(c, "ask", Preview(content))
    BY <1>10 DEF copyOutInfo, copyInInfo, At, outside
  <2> QED BY <1>f, <1>q, <2>1
<1>11. ASSUME NEW c \in AllCalls, PersistPreflight(c) PROVE CallsInv'
  <2>1. /\ call[c].pc # "done" /\ landed' = landed /\ moved' = moved /\ finalize # None
        /\ Goto(c, "ask", Preview(finalize))
    BY <1>11 DEF PersistPreflight, At, outside
  <2>2. finalize \in AllCalls
    BY <2>1 DEF FilesInv
  <2> QED BY <1>q, <2>1, <2>2
<1>12. ASSUME NEW c \in AllCalls, applyResult(c) PROVE CallsInv'
  BY <1>12, LandStep DEF applyResult, At
<1>13. ASSUME NEW c \in AllCalls, copyOut(c) PROVE CallsInv'
  BY <1>13, LandStep DEF copyOut, At
<1>14. ASSUME NEW c \in AllCalls, InstallRestores(c) PROVE CallsInv'
  <2>1. /\ call[c].pc = "restore" /\ result # None /\ Landed(c, result.content) /\ Done(c)
        /\ call[c].tool = "host_sandbox_result_install" /\ moved' = moved
    BY <1>14 DEF InstallRestores, At
  <2>2. c \notin moved => result.content = call[c].seen.content
    BY <2>1 DEF LinkInv, LinkOK, Asked
  <2> QED BY <2>1, <2>2, LandStep
<1>15. ASSUME NEW c \in AllCalls, reviewPersist(c) PROVE CallsInv'
  BY <1>15, LandStep DEF reviewPersist, At
<1>16. ASSUME NEW c \in AllCalls, InstallReads(c) PROVE CallsInv'
  <2> DEFINE k == [call[c] EXCEPT !.pc = "patch", !.expect = result.commit]
  <2>1. /\ call[c].pc = "run" /\ result # None /\ landed' = landed /\ moved' = moved
    BY <1>16 DEF InstallReads, ResultExported, At, outside
  <2>2. result.commit \in AllCalls
    BY <2>1 DEF FilesInv, Results
  <2>3. call' = [call EXCEPT ![c] = k]
    BY <1>16 DEF InstallReads, CallsInv
  <2>0. call[c] \in CallRecord
    BY DEF CallsInv, CallOK
  <2>4. k \in CallRecord /\ k.pc = "patch"
    BY <2>0, <2>2 DEF CallRecord, Pcs
  <2> HIDE DEF k
  <2>5. CallOK(k)
    BY <2>4 DEF CallOK, Asked
  <2> QED BY <2>1, <2>3, <2>5, CallStep
<1>17. ASSUME NEW c \in AllCalls, InstallChecks(c) \/ InstallCompares(c) PROVE CallsInv'
  <2>1. /\ call[c].pc \in Asked /\ landed' = landed /\ moved' = moved
        /\ \E pc \in {"checked", "restore"} : Goto(c, pc, call[c].seen)
    BY <1>17 DEF InstallChecks, InstallCompares, At, Asked, outside
  <2>2. PICK pc \in {"checked", "restore"} : Goto(c, pc, call[c].seen)
    BY <2>1
  <2>3. pc \in Pcs /\ pc \in Asked /\ pc # "write"
    BY DEF Pcs, Asked
  <2> QED BY <2>1, <2>2, <2>3, <1>s, GotoStep
<1> QED
  BY <1>1, <1>2, <1>3, <1>4, <1>5, <1>6, <1>7, <1>8, <1>9, <1>10, <1>11, <1>12, <1>13,
     <1>14, <1>15, <1>16, <1>17 DEF Next

----------------------------------------------------------------------------
(* What an install knows of the result. *)

(* A call goes on to k and the result is not exported.                      *)
LEMMA LinkStep ==
    ASSUME FilesInv, CallsInv, LinkInv, NEW c \in AllCalls, NEW k,
           call' = [call EXCEPT ![c] = k], result' \in {result, None}, moved' = moved,
           Past(call[c]) => Past(k), LinkOK(c, k, result, moved),
           k.expect \in {None, call[c].expect} \/ (result # None /\ k.expect = result.commit)
    PROVE  LinkInv'
<1>1. call'[c] = k /\ \A d \in AllCalls \ {c} : call'[d] = call[d]
  BY DEF CallsInv
<1>2. \A d \in AllCalls : Past(call[d]) => Past(call'[d])
  BY <1>1
<1>3. /\ result # None => result.commit \in AllCalls
      /\ \A d \in AllCalls : call[d].expect \in AllCalls \cup {None}
  BY DEF FilesInv, Results, CallsInv, CallOK, CallRecord
<1>4. result' # None => Past(call'[result'.commit])
  BY <1>2, <1>3 DEF LinkInv
<1>5. \A d \in AllCalls : LinkOK(d, call'[d], result', moved')
  BY <1>1 DEF LinkInv, LinkOK
<1>6. \A d \in AllCalls : call'[d].expect # None => Past(call'[call'[d].expect])
  BY <1>1, <1>2, <1>3 DEF LinkInv
<1> QED BY <1>4, <1>5, <1>6 DEF LinkInv, Past

(* A call that has not exported before exports the result.                  *)
LEMMA ExportStep ==
    ASSUME FilesInv, CallsInv, LinkInv, NEW c \in AllCalls, prepareResult(c), ~Past(call[c]),
           NEW k, call' = [call EXCEPT ![c] = k], Past(k), k.pc \in {"done", "diff"},
           k.tool = call[c].tool \/ k.pc = "done", call[c].pc \notin {"new", "done"},
           k.expect \in {None, call[c].expect}
    PROVE  LinkInv'
<1>1. call'[c] = k /\ \A d \in AllCalls \ {c} : call'[d] = call[d]
  BY DEF CallsInv
<1>2. \A d \in AllCalls : Past(call[d]) => Past(call'[d])
  BY <1>1
<1>3. \A d \in AllCalls : call[d].expect \in AllCalls \cup {None}
  BY DEF CallsInv, CallOK, CallRecord
<1>4. /\ result'.commit = c /\ c # None
      /\ moved' = moved \cup {h \in HostCalls : call[h].pc \in {"checked", "restore"}}
  BY ToolsAssumption DEF prepareResult
<1>5. LinkOK(c, k, result', moved')
  BY DEF LinkInv, LinkOK, Asked
<1>6. ASSUME NEW d \in AllCalls, d # c PROVE LinkOK(d, call[d], result', moved')
  <2>1. call[d].expect # c
    BY <1>4 DEF LinkInv
  <2>2. call[d].pc \in {"checked", "restore"} => d \in moved'
    <3>1. call[d].pc \in {"checked", "restore"} =>
            call[d].tool \in HostTools /\ call[d].pc \notin {"new", "done"}
      BY DEF LinkInv, LinkOK, HostTools
    <3>2. call[d].pc \in {"checked", "restore"} => d \in HostCalls
      BY <3>1 DEF LinkInv, LinkOK
    <3> QED BY <1>4, <3>2
  <2> QED BY <1>4, <2>1, <2>2 DEF LinkInv, LinkOK
<1>7. \A d \in AllCalls : LinkOK(d, call'[d], result', moved')
  BY <1>1, <1>5, <1>6
<1>8. \A d \in AllCalls : call'[d].expect # None => Past(call'[call'[d].expect])
  BY <1>1, <1>2, <1>3 DEF LinkInv
<1>9. result' # None => Past(call'[result'.commit])
  BY <1>1, <1>4
<1> QED BY <1>7, <1>8, <1>9 DEF LinkInv, Past

LEMMA LinkDone ==
    ASSUME FilesInv, CallsInv, LinkInv, NEW c \in AllCalls, Done(c),
           result' \in {result, None}, moved' = moved
    PROVE  LinkInv'
<1> DEFINE k == [New EXCEPT !.pc = "done"]
<1>1. k.pc = "done" /\ k.expect = None
  BY DoneOK
<1>2. call' = [call EXCEPT ![c] = k]
  BY DEF Done
<1> HIDE DEF k
<1>3. Past(k) /\ LinkOK(c, k, result, moved)
  BY <1>1 DEF Past, LinkOK, Asked
<1> QED BY <1>1, <1>2, <1>3, LinkStep

LEMMA GotoCall ==
    ASSUME CallsInv, NEW c \in AllCalls, NEW pc, NEW seen, Goto(c, pc, seen)
    PROVE  \E k : /\ call' = [call EXCEPT ![c] = k] /\ k.pc = pc /\ k.seen = seen
                  /\ k.tool = call[c].tool /\ k.expect = call[c].expect
<1> DEFINE k == [call[c] EXCEPT !.pc = pc, !.seen = seen]
<1>1. call[c] \in CallRecord
  BY DEF CallsInv, CallOK
<1>2. /\ k.pc = pc /\ k.seen = seen /\ k.tool = call[c].tool /\ k.expect = call[c].expect
  BY <1>1 DEF CallRecord
<1>3. call' = [call EXCEPT ![c] = k]
  BY DEF Goto, CallsInv
<1> QED BY <1>2, <1>3

(* A request that is not of an install goes on.                             *)
LEMMA LinkGoto ==
    ASSUME FilesInv, CallsInv, LinkInv, NEW c \in AllCalls, NEW pc, NEW seen, Goto(c, pc, seen),
           call[c].pc \notin {"new", "done"}, pc \notin {"checked", "restore"},
           Past(call[c]) => pc \in {"diff", "ask", "approved"},
           \/ pc \notin Asked
           \/ call[c].tool # "host_sandbox_result_install"
           \/ result # None /\ result.commit = call[c].expect => seen.content = result.content,
           result' = result, moved' = moved
    PROVE  LinkInv'
<1>1. PICK k : /\ call' = [call EXCEPT ![c] = k] /\ k.pc = pc /\ k.seen = seen
               /\ k.tool = call[c].tool /\ k.expect = call[c].expect
  BY GotoCall
<1>2. Past(call[c]) => Past(k)
  BY <1>1 DEF Past
<1>3. LinkOK(c, k, result, moved)
  BY <1>1 DEF LinkInv, LinkOK
<1> QED BY <1>1, <1>2, <1>3, LinkStep

LEMMA LinkKept ==
    ASSUME FilesInv, CallsInv, LinkInv, Next
    PROVE  LinkInv'
<1>1. CASE UserEdits
  BY <1>1 DEF UserEdits, session, LinkInv
<1>2. ASSUME NEW c \in AllCalls, NEW tool \in Tools, Begin(c, tool) PROVE LinkInv'
  <2>0. PICK w \in {"ensure", "run"} : w = IF tool \in Activating THEN "ensure" ELSE "run"
    OBVIOUS
  <2> DEFINE k == [New EXCEPT !.tool = tool, !.pc = w]
  <2>1. /\ call[c] = New /\ call' = [call EXCEPT ![c] = k] /\ result' = result /\ moved' = moved
        /\ tool \in HostTools => c \in HostCalls
    BY <1>2, <2>0 DEF Begin, CallsInv, session
  <2>2. k.pc = w /\ k.tool = tool /\ k.expect = None /\ ~Past(New)
    BY DEF New, Past
  <2> HIDE DEF k
  <2>3. LinkOK(c, k, result, moved)
    BY <2>1, <2>2 DEF LinkOK, Asked
  <2> QED BY <2>1, <2>2, <2>3, LinkStep
<1>3. ASSUME NEW c \in AllCalls,
             \/ Fails(c) \/ sandbox_write(c) \/ EditWrites(c) \/ sandbox_apply_patch(c)
             \/ sandbox_bash(c) \/ sandbox_discard(c) \/ copyIn(c) \/ applyResult(c) \/ copyOut(c)
             \/ AlreadyInstalled(c) \/ InstallRestores(c) \/ RunFinalize(c) \/ reviewPersist(c)
      PROVE  LinkInv'
  <2>1. Done(c) /\ result' \in {result, None} /\ moved' = moved
    BY <1>3 DEF Fails, sandbox_write, EditWrites, sandbox_apply_patch, sandbox_bash,
       sandbox_discard, copyIn, applyResult, copyOut, AlreadyInstalled, InstallRestores,
       RunFinalize, reviewPersist, session
  <2> QED BY <2>1, LinkDone
<1>4. ASSUME NEW c \in AllCalls, EnsureWorker(c) \/ EditReads(c) \/ ApplyStatus(c) PROVE LinkInv'
  <2>1. /\ call[c].pc \in {"ensure", "run"} /\ result' = result /\ moved' = moved
        /\ \E pc \in {"run", "write", "diff", "prepare"}, seen \in {None, tree} : Goto(c, pc, seen)
    BY <1>4 DEF EnsureWorker, EditReads, ApplyStatus, At, session
  <2>2. ~Past(call[c]) /\ call[c].pc \notin {"new", "done"}
    BY <2>1 DEF Past
  <2>3. PICK pc \in {"run", "write", "diff", "prepare"}, seen \in {None, tree} : Goto(c, pc, seen)
    BY <2>1
  <2>4. pc \notin Asked /\ pc \notin {"checked", "restore"}
    BY DEF Asked
  <2> QED BY <2>1, <2>2, <2>3, <2>4, LinkGoto
<1>5. ASSUME NEW c \in AllCalls, Ask(c) PROVE LinkInv'
  <2>1. call[c].pc = "ask" /\ result' = result /\ moved' = moved
    BY <1>5 DEF Ask, session
  <2>2. CASE Done(c)
    BY <2>1, <2>2, LinkDone
  <2>3. CASE Goto(c, "approved", call[c].seen)
    <3>1. \/ call[c].tool # "host_sandbox_result_install"
          \/ result # None /\ result.commit = call[c].expect => call[c].seen.content = result.content
      BY <2>1 DEF LinkInv, LinkOK, Asked
    <3> QED BY <2>1, <2>3, <3>1, LinkGoto
  <2> QED BY <1>5, <2>2, <2>3 DEF Ask
<1>6. ASSUME NEW c \in AllCalls, NEW content \in Content \cup AllCalls,
             NEW preview \in {Preview(content), Comparison(content)},
             Goto(c, "ask", preview) \/ Done(c),
             call[c].pc \in {"run", "diff", "patch"}, result' = result, moved' = moved,
             \/ call[c].tool # "host_sandbox_result_install"
             \/ preview = Preview(content) /\ content = result.content
      PROVE  LinkInv'
  <2>1. CASE Done(c)
    BY <1>6, <2>1, LinkDone
  <2>2. CASE Goto(c, "ask", preview)
    <3>1. call[c].pc \notin {"new", "done"} /\ "ask" \notin {"checked", "restore"}
      BY <1>6
    <3>2. \/ call[c].tool # "host_sandbox_result_install"
          \/ result # None /\ result.commit = call[c].expect => preview.content = result.content
      BY <1>6, PreviewShown
    <3> QED BY <1>6, <2>2, <3>1, <3>2, LinkGoto
  <2> QED BY <1>6, <2>1, <2>2
<1>7. ASSUME NEW c \in AllCalls, copyOutInfo(c) \/ copyInInfo(c) \/ PersistPreflight(c)
      PROVE  LinkInv'
  <2>1. /\ call[c].pc = "run" /\ call[c].tool # "host_sandbox_result_install"
        /\ result' = result /\ moved' = moved
        /\ \E content \in Content \cup AllCalls : Goto(c, "ask", Preview(content))
    BY <1>7 DEF copyOutInfo, copyInInfo, PersistPreflight, At, session, FilesInv
  <2> QED BY <1>6, <2>1
<1>8. ASSUME NEW c \in AllCalls, ApplyPreviews(c) PROVE LinkInv'
  <2>1. /\ call[c].pc = "diff" /\ call[c].tool # "host_sandbox_result_install"
        /\ result' = result /\ moved' = moved /\ tree \in Content
        /\ requestApplyApproval(c, Preview(tree)) \/ requestApplyApproval(c, Comparison(tree))
    BY <1>8 DEF ApplyPreviews, At, session, FilesInv
  <2>2. PICK preview \in {Preview(tree), Comparison(tree)} : requestApplyApproval(c, preview)
    BY <2>1
  <2>3. preview \in Shown
    BY <2>1, PreviewShown
  <2>4. Goto(c, "ask", preview) \/ Done(c)
    BY <2>2, <2>3, ApprovalAsks
  <2> QED BY <1>6, <2>1, <2>4
<1>9. ASSUME NEW c \in AllCalls, InstallPreviews(c) PROVE LinkInv'
  <2>1. /\ call[c].pc = "patch" /\ result' = result /\ moved' = moved /\ result # None
        /\ requestApplyApproval(c, Preview(result.content))
    BY <1>9 DEF InstallPreviews, At, session
  <2>2. result.content \in Content
    BY <2>1 DEF FilesInv, Results
  <2>3. Goto(c, "ask", Preview(result.content)) \/ Done(c)
    BY <2>1, <2>2, PreviewShown, ApprovalAsks
  <2> QED BY <1>6, <2>1, <2>2, <2>3
<1>10. ASSUME NEW c \in AllCalls, InstallReads(c) PROVE LinkInv'
  <2> DEFINE k == [call[c] EXCEPT !.pc = "patch", !.expect = result.commit]
  <2>1. /\ call[c].pc = "run" /\ result # None /\ result' = result /\ moved' = moved
    BY <1>10 DEF InstallReads, ResultExported, At, session
  <2>2. call' = [call EXCEPT ![c] = k]
    BY <1>10 DEF InstallReads, CallsInv
  <2>3. call[c] \in CallRecord
    BY DEF CallsInv, CallOK
  <2>4. k.pc = "patch" /\ k.expect = result.commit /\ k.tool = call[c].tool
    BY <2>3 DEF CallRecord
  <2> HIDE DEF k
  <2>5. LinkOK(c, k, result, moved) /\ ~Past(call[c])
    BY <2>1, <2>4 DEF LinkInv, LinkOK, Past, Asked
  <2> QED BY <2>1, <2>2, <2>4, <2>5, LinkStep
<1>11. ASSUME NEW c \in AllCalls, InstallChecks(c) \/ InstallCompares(c) PROVE LinkInv'
  <2>1. /\ call[c].tool = "host_sandbox_result_install"
        /\ result' = result /\ moved' = moved
        /\ \E pc \in {"checked", "restore"} : Goto(c, pc, call[c].seen)
        /\ \/ call[c].pc = "approved" /\ result.commit = call[c].expect
           \/ call[c].pc = "checked"
    BY <1>11 DEF InstallChecks, ExpectsResult, InstallCompares, At, session
  <2>2. PICK pc \in {"checked", "restore"} : Goto(c, pc, call[c].seen)
    BY <2>1
  <2>3. PICK k : /\ call' = [call EXCEPT ![c] = k] /\ k.pc = pc /\ k.seen = call[c].seen
                 /\ k.tool = call[c].tool /\ k.expect = call[c].expect
    BY <2>2, GotoCall
  <2>4. ~Past(call[c])
    BY <2>1 DEF Past
  <2>5. LinkOK(c, k, result, moved)
    BY <2>1, <2>3 DEF LinkInv, LinkOK, Asked
  <2> QED BY <2>1, <2>3, <2>4, <2>5, LinkStep
<1>12. ASSUME NEW c \in AllCalls, sandbox_finish(c) PROVE LinkInv'
  <2> DEFINE k == [New EXCEPT !.pc = "done"]
  <2>1. call[c].pc = "run" /\ prepareResult(c) /\ call' = [call EXCEPT ![c] = k]
    BY <1>12 DEF sandbox_finish, At, Done
  <2>2. k.pc = "done" /\ k.expect = None
    BY DoneOK
  <2> HIDE DEF k
  <2>3. ~Past(call[c]) /\ Past(k)
    BY <2>1, <2>2 DEF Past
  <2> QED BY <2>1, <2>2, <2>3, ExportStep
<1>13. ASSUME NEW c \in AllCalls, ApplyPrepares(c) PROVE LinkInv'
  <2>1. /\ call[c].pc = "prepare" /\ call[c].tool = "sandbox_apply" /\ prepareResult(c)
        /\ Goto(c, "diff", None)
    BY <1>13 DEF ApplyPrepares, At
  <2>2. PICK k : /\ call' = [call EXCEPT ![c] = k] /\ k.pc = "diff" /\ k.seen = None
                 /\ k.tool = call[c].tool /\ k.expect = call[c].expect
    BY <2>1, GotoCall
  <2>3. ~Past(call[c]) /\ Past(k)
    BY <2>1, <2>2 DEF Past
  <2> QED BY <2>1, <2>2, <2>3, ExportStep
<1> QED
  BY <1>1, <1>2, <1>3, <1>4, <1>5, <1>7, <1>8, <1>9, <1>10, <1>11, <1>12, <1>13 DEF Next

(* The inductive invariant holds of every reachable state.                  *)
LEMMA ToolsCorrect == Spec => [](FilesInv /\ CallsInv /\ LinkInv)
<1>1. FilesInv /\ CallsInv /\ LinkInv /\ [Next]_vars => (FilesInv /\ CallsInv /\ LinkInv)'
  <2> SUFFICES ASSUME FilesInv, CallsInv, LinkInv, [Next]_vars
               PROVE  (FilesInv /\ CallsInv /\ LinkInv)'
    OBVIOUS
  <2>1. CASE Next
    BY <2>1, FilesStep, CallsStep, LinkKept
  <2>2. CASE UNCHANGED vars
    BY <2>2 DEF vars, session, outside, FilesInv, CallsInv, CallOK, EffectOK, LinkInv
  <2> QED BY <2>1, <2>2
<1> QED BY <1>1, ToolsInit, PTL DEF Spec

(* The record, the worker and the files of a session stay well typed        *)
(* through every interleaving of the requests of any number of tool calls.  *)
THEOREM ToolsTypeCorrect == Spec => []TypeOK
<1>1. FilesInv /\ CallsInv => TypeOK
  <2> SUFFICES ASSUME FilesInv, CallsInv PROVE TypeOK
    OBVIOUS
  <2>1. \A c \in AllCalls : call[c].pc = "approved" => call[c].seen # None
    BY ToolsAssumption DEF CallsInv, CallOK, Shown, Asked
  <2> QED BY <2>1 DEF FilesInv, TypeOK
<1> QED BY <1>1, ToolsCorrect, PTL

(* Whatever reaches the host was shown with nothing cut and approved, an    *)
(* approval is spent once, and only sandbox_apply shows a comparison of     *)
(* added files in place of the change (decideApplyPreviewApproval,          *)
(* requestApplyApproval).                                                   *)
THEOREM ApprovalNeverBlind == Spec => []NeverBlind
<1>1. CallsInv => NeverBlind
  <2> SUFFICES ASSUME CallsInv PROVE NeverBlind
    OBVIOUS
  <2>1. ASSUME NEW r \in landed
        PROVE  /\ r.seen # None /\ r.seen.whole
               /\ r.seen.compare => r.tool = "sandbox_apply"
    BY <2>1, ToolsAssumption DEF CallsInv, EffectOK, Shown
  <2>2. ASSUME NEW r \in landed, NEW q \in landed, r.call = q.call PROVE r = q
    BY <2>2 DEF CallsInv
  <2> QED BY <2>1, <2>2 DEF NeverBlind
<1> QED BY <1>1, ToolsCorrect, PTL

(* An install lands what was shown although the owner of the result exports *)
(* it again while the preview is read or the question is open, unless it    *)
(* does so after the commit was checked (expectedResultCommit), and a       *)
(* copied source file is within what a human is shown (copyOut).            *)
THEOREM LandsAsApproved == Spec => []LandedAsApproved
<1>1. CallsInv => LandedAsApproved
  BY DEF CallsInv, EffectOK, LandedAsApproved
<1> QED BY <1>1, ToolsCorrect, PTL
=============================================================================

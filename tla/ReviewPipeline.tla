--------------------------- MODULE ReviewPipeline ---------------------------
(***************************************************************************)
(* The review operations of the broker over the run store: materialize a   *)
(* commit range into a run (review-materialize.ts), run one phase of the   *)
(* pinned helper over it (review-pipeline.ts), and persist the finalized   *)
(* review into the project (review-persist.ts), as service.ts builds them. *)
(*                                                                         *)
(* A request holds its session's lock until it is answered, so a session   *)
(* runs one operation at a time; operations of different sessions          *)
(* interleave wherever one awaits git or the helper.  The helper and git   *)
(* are external: their answers are choices.                                *)
(***************************************************************************)
EXTENDS ReviewStore

CONSTANTS
    SliceSizes,   \* sizes of a slice that are tried
    OutputSizes,  \* sizes of a phase output that are tried
    Documents,    \* the finalize outputs the helper may produce (not 0)
    Malformed,    \* those whose validator requests are malformed
    NotWriting,   \* those that are not a writing artifact, or hold no JSON object
    Unversioned,  \* those whose artifact has no schema_version
    MaxFaults     \* bound: crashes and failing writes

Contents == [gen : {0} \cup Documents, bytes : Nat]

Records == [state : {"publishing", "published", "failed"},
            first : [Names -> Contents \cup {None}],
            total : Nat,
            provenance : {None} \cup [outcome : {"accepted", "rejected", "unavailable"},
                                      gen : {None} \cup Documents, bytes : Nat]]

\* review-summary.json: the artifact of a finalize output, and where its
\* schema_version comes from.
Reviews == [artifact : {0} \cup Documents, schema_version : {"own", "added"}]

ASSUME PipelineAssumption ==
    /\ Documents \subseteq Nat \ {0} /\ SliceSizes \cup OutputSizes \subseteq Nat
    /\ Malformed \cup NotWriting \cup Unversioned \subseteq Documents
    /\ MaxFaults \in Nat
    /\ None \notin Contents /\ None \notin Records /\ None \notin Reviews

Phases == {"screen", "prepare", "merge", "finalize"}

VARIABLES
    op,         \* op[s]: the operation the session's lock is held by
    entries,    \* the run entries of the project's .context/.gitignore
    staged,     \* staged[r]: the staging directory exists in the run
    summary,    \* summary[r]: review-summary.json in the project, None if absent
    faults,     \* crashes and failed writes so far
    vouched,    \* history: well-formed outputs of a finalize that exited zero
    answered    \* history: the answer to the last finalize phase started

vars == <<storeVars, op, entries, staged, summary, faults, vouched, answered>>
projectVars == <<entries, staged, summary>>
historyVars == <<vouched, answered>>

Plain(b) == [gen |-> 0, bytes |-> b]

Idle == [pc |-> "idle", run |-> None, phase |-> None, todo |-> <<>>,
         content |-> None, guarded |-> FALSE, answer |-> None]

\* The session in the middle of a synchronous stretch, if any: the event loop
\* runs nothing else until it ends.
Running == {s \in Sessions : op[s].pc = "sync"}
Yielded == Running = {}

Goto(s, o) == op' = [op EXCEPT ![s] = o]
Return(s) == Goto(s, Idle)

----------------------------------------------------------------------------
(* A synchronous stretch: the publications, in order.  `guarded' is a       *)
(* stretch inside materialize's try, whose catch writes the failed record.  *)

Sync(s, r, todo) == [Idle EXCEPT !.pc = "sync", !.run = r, !.todo = todo]

Answer(r, answer) ==
    answered' = IF answer = None THEN answered ELSE [answered EXCEPT ![r] = answer]

PublishNext(s) ==
    LET o == op[s] IN
    /\ o.pc = "sync"
    /\ Publish(o.run, Head(o.todo))
    /\ IF Len(o.todo) > 1
         THEN Goto(s, [o EXCEPT !.todo = Tail(o.todo),
                                !.guarded = @ \/ (o.phase = "materialize" /\ Head(o.todo).kind = "meta")])
              /\ UNCHANGED answered
         ELSE Return(s) /\ Answer(o.run, o.answer)
    /\ UNCHANGED <<owner, projectVars, faults, vouched>>

\* Mutant: the catch keeps the run published.
FailedRecordPublished(r, p) ==
    [(IF p.kind = "meta" THEN p.record ELSE meta[r]) EXCEPT !.state = "published"]

\* A write throws, before its rename or in the directory sync after it.  Inside
\* materialize's try the writer is failed: the record, with the artifacts it
\* had pushed, is written as failed.
FailedRecord(r, p) ==
    [(IF p.kind = "meta" THEN p.record ELSE meta[r]) EXCEPT !.state = "failed"]

WriteFails(s) ==
    LET o == op[s]
        p == Head(o.todo)
    IN  /\ o.pc = "sync"
        /\ faults < MaxFaults
        /\ faults' = faults + 1
        /\ UNCHANGED <<owner, projectVars, historyVars>>
        /\ \/ Publish(o.run, p)
           \/ UNCHANGED storeVars
        /\ IF o.guarded /\ p # Meta(FailedRecord(o.run, p))
             THEN Goto(s, Sync(s, o.run, <<Meta(FailedRecord(o.run, p))>>))
             ELSE Return(s)

\* The broker dies: every operation is gone, the disk stays as it is.
Crash ==
    /\ faults < MaxFaults
    /\ faults' = faults + 1
    /\ \E s \in Sessions : op[s].pc # "idle"
    /\ op' = [s \in Sessions |-> Idle]
    /\ UNCHANGED <<storeVars, projectVars, historyVars>>

----------------------------------------------------------------------------
(* reviewMaterialize                                                       *)

materializeReviewRange(s) ==
    /\ op[s].pc = "idle"
    /\ Yielded
    /\ Admitted(s)
    /\ Goto(s, [Idle EXCEPT !.pc = "git"])
    /\ UNCHANGED <<storeVars, projectVars, faults, historyVars>>

\* git refuses a ref, fails, or the range is over a cap or protected.
GitRefuses(s) ==
    /\ op[s].pc = "git"
    /\ Yielded
    /\ Return(s)
    /\ UNCHANGED <<storeVars, projectVars, faults, historyVars>>

\* The diff is the artifact "scope", its slices the rest.  Slices are cut where
\* files begin and partition the diff; all of them have the size b here.
RangeNames == <<"scope">> \o SetToSeq(Slices)

DiffBytes(b) == Cardinality(Slices) * b

Part(b, n) == Plain(IF n = "scope" THEN DiffBytes(b) ELSE b)

\* The record after the first k artifacts of the range.
RangeRecord(b, k) ==
    [NewRecord EXCEPT
        !.first = [n \in Names |-> IF \E i \in 1..k : RangeNames[i] = n THEN Part(b, n) ELSE None],
        !.total = IF k = 0 THEN 0 ELSE DiffBytes(b) + (k - 1) * b]

\* The writer accepts k artifacts: all of them, or those before the first that
\* a cap refuses.
Accepted(b, k) ==
    /\ \A i \in 1..k : WithinCaps(RangeRecord(b, i - 1), Part(b, RangeNames[i]))
    /\ k < Len(RangeNames) => ~WithinCaps(RangeRecord(b, k), Part(b, RangeNames[k + 1]))

RangeAdd(b, i) == WriterAdd(RangeRecord(b, i - 1), RangeNames[i], Part(b, RangeNames[i]))

WriterTodo(b, k) ==
    RunCreated
      \o [j \in 1..(2 * k) |-> RangeAdd(b, (j + 1) \div 2)[IF j % 2 = 1 THEN 1 ELSE 2]]
      \o <<Meta([RangeRecord(b, k) EXCEPT
                    !.state = IF k = Len(RangeNames) THEN "published" ELSE "failed"])>>

\* The range cap is checked on the diff alone and the slice cap on a section;
\* the run cap counts the diff and its slices.
GitAnswers(s) ==
    /\ op[s].pc = "git"
    /\ Yielded
    /\ Admitted(s)
    /\ \E b \in SliceSizes, r \in {x \in Runs : owner[x] = None}, k \in 0..Len(RangeNames) :
        /\ DiffBytes(b) <= MaxBytes
        /\ b <= MaxSliceBytes
        /\ Accepted(b, k)
        /\ owner' = [owner EXCEPT ![r] = s]
        /\ Goto(s, [Sync(s, r, WriterTodo(b, k)) EXCEPT !.phase = "materialize"])
    /\ UNCHANGED <<dir, files, meta, older, expired, projectVars, faults, historyVars>>

----------------------------------------------------------------------------
(* reviewPipelineRun                                                       *)

Screens(record) == {x \in Reviewers : Listed(record, x)}

\* The references a phase reads from the run: none (stdin), the screens of the
\* selected reviewers or an earlier phase for prepare, the prepared artifact
\* for merge, and both with every recorded screen for finalize.
InputRefs(r, phase) ==
    CASE phase = "screen"   -> {{}}
      [] phase = "prepare"  -> SUBSET Reviewers
      [] phase = "merge"    -> {{"prepare"}}
      [] phase = "finalize" -> {{"prepare", "merge"} \cup Screens(meta[r])}

\* Phase inputs are read as files; only finalize consults the record, and it
\* needs a screened artifact there.
runReviewPipeline(s) ==
    /\ op[s].pc = "idle"
    /\ Yielded
    /\ \E r \in Runs, phase \in Phases :
        /\ owner[r] = s
        /\ phase \in {"merge", "finalize"} => Readable(s, r)
        /\ phase = "finalize" => Screens(meta[r]) # {}
        /\ \E refs \in InputRefs(r, phase) : \A n \in refs : ReadArtifact(r, n, MaxFileBytes)
        /\ Goto(s, [Idle EXCEPT !.pc = "helper", !.run = r, !.phase = phase])
        /\ answered' = IF phase = "finalize" THEN [answered EXCEPT ![r] = None] ELSE answered
    /\ UNCHANGED <<storeVars, projectVars, faults, vouched>>

\* The helper is missing or cannot be started: answered, nothing recorded.  A
\* helper that is unpinned, or whose output is too large or not JSON, throws.
HelperUnavailable(s) ==
    LET o == op[s] IN
    /\ o.pc = "helper"
    /\ Yielded
    /\ Return(s)
    /\ Answer(o.run, IF o.phase = "finalize" THEN "unavailable" ELSE None)
    /\ UNCHANGED <<storeVars, projectVars, faults, vouched>>

Provenance(outcome, content) ==
    [outcome |-> outcome, gen |-> IF content = None THEN None ELSE content.gen,
     bytes |-> IF content = None THEN 0 ELSE content.bytes]

\* Mutant: a rejection is answered and not recorded.
HelperRejectsUnrecorded(s) ==
    /\ op[s].pc = "helper"
    /\ Yielded
    /\ Return(s)
    /\ Answer(op[s].run, IF op[s].phase = "finalize" THEN "rejected" ELSE None)
    /\ UNCHANGED <<storeVars, projectVars, faults, vouched>>

\* The helper exits non-zero: a finalize phase records how it ended, when the
\* record can still be read, before it is answered.
HelperRejects(s) ==
    LET o == op[s]
        r == o.run
    IN  /\ o.pc = "helper"
        /\ Yielded
        /\ \E outcome \in {"rejected", "unavailable"} :
            IF o.phase = "finalize" /\ Readable(s, r)
              THEN Goto(s, [Sync(s, r, <<Meta([meta[r] EXCEPT
                                !.provenance = Provenance(outcome, None)])>>)
                              EXCEPT !.answer = outcome])
              ELSE Return(s)
        /\ UNCHANGED <<storeVars, projectVars, faults, historyVars>>

ArtifactName(phase, reviewer) == IF phase = "screen" THEN reviewer ELSE phase

\* Only the bytes of a finalize output are compared later on.
Outputs(phase) ==
    [gen : IF phase = "finalize" THEN Documents ELSE {0}, bytes : OutputSizes]

\* The helper exits zero: the output is added to the run as it is now, and for
\* finalize the provenance is recorded last.  An output whose validator
\* requests are malformed is kept but answered as invalid, without provenance.
HelperAccepts(s) ==
    LET o == op[s]
        r == o.run
    IN  /\ o.pc = "helper"
        /\ Yielded
        /\ \E c \in Outputs(o.phase), reviewer \in Reviewers :
            LET n == ArtifactName(o.phase, reviewer)
                added == WithEntry(meta[r], n, c)
                proven == Meta([added EXCEPT !.provenance = Provenance("accepted", c)])
                final == o.phase = "finalize"
                valid == c.gen \notin Malformed
            IN  /\ vouched' = IF final /\ valid THEN [vouched EXCEPT ![r] = @ \cup {c}] ELSE vouched
                /\ IF Readable(s, r) /\ AddAllowed(meta[r], c)
                     THEN Goto(s, [Sync(s, r, StoreAdd(meta[r], n, c)
                                               \o (IF final /\ valid THEN <<proven>> ELSE <<>>))
                                     EXCEPT !.answer = IF ~final THEN None
                                                       ELSE IF valid THEN "accepted" ELSE "invalid"])
                     ELSE Return(s)
        /\ UNCHANGED <<storeVars, projectVars, faults, answered>>

----------------------------------------------------------------------------
(* reviewPersist                                                           *)

\* Mutant: only the length is compared.
FinalizeIntactUnhashed(r) ==
    LET p == meta[r].provenance IN
    /\ p # None
    /\ p.outcome = "accepted"
    /\ ReadArtifact(r, "finalize", MaxFileBytes)
    /\ files[r]["finalize"].bytes = p.bytes

\* The recorded finalize was accepted and its artifact still has the recorded
\* length and digest.
FinalizeIntact(r) ==
    LET p == meta[r].provenance IN
    /\ p # None
    /\ p.outcome = "accepted"
    /\ ReadArtifact(r, "finalize", MaxFileBytes)
    /\ files[r]["finalize"].gen = p.gen
    /\ files[r]["finalize"].bytes = p.bytes

\* The document written for a finalize output: its artifact, with a
\* schema_version added when it has none of its own, serialized again.
ReviewDocument(c) ==
    [artifact |-> c.gen, schema_version |-> IF c.gen \in Unversioned THEN "added" ELSE "own"]

\* Only a writing artifact is persisted; the document made here is the one
\* staged, validated and published after the awaits.
persistReviewArtifact(s) ==
    /\ op[s].pc = "idle"
    /\ Yielded
    /\ \E r \in Runs :
        /\ Readable(s, r)
        /\ FinalizeIntact(r)
        /\ files[r]["finalize"].gen \notin NotWriting
        /\ Goto(s, [Idle EXCEPT !.pc = "check", !.run = r,
                               !.content = ReviewDocument(files[r]["finalize"])])
    /\ UNCHANGED <<storeVars, projectVars, faults, historyVars>>

\* git check-ignore answers.  A run that is not ignored gets its entry: the
\* file is read, extended and renamed in one stretch.
ensureReviewIgnored(s) ==
    LET o == op[s]
        r == o.run
    IN  /\ o.pc = "check"
        /\ Yielded
        /\ IF r \in entries
             THEN Goto(s, [o EXCEPT !.pc = "stage"]) /\ UNCHANGED entries
             ELSE entries' = entries \cup {r} /\ Goto(s, [o EXCEPT !.pc = "verify"])
        /\ UNCHANGED <<storeVars, staged, summary, faults, historyVars>>

\* The second check-ignore must agree.
IgnoreVerified(s) ==
    /\ op[s].pc = "verify"
    /\ Yielded
    /\ op[s].run \in entries
    /\ Goto(s, [op[s] EXCEPT !.pc = "stage"])
    /\ UNCHANGED <<storeVars, projectVars, faults, historyVars>>

\* The document is staged in the run's directory, which is made again if the
\* sweep has removed it meanwhile.
Stage(s) ==
    LET r == op[s].run IN
    /\ op[s].pc = "stage"
    /\ Yielded
    /\ staged' = [staged EXCEPT ![r] = TRUE]
    /\ dir' = [dir EXCEPT ![r] = TRUE]
    /\ IF dir[r] /\ staged[r] THEN UNCHANGED <<older, expired>> ELSE Touched(r)
    /\ Goto(s, [op[s] EXCEPT !.pc = "validate"])
    /\ UNCHANGED <<owner, files, meta, entries, summary, faults, historyVars>>

\* The validator passes the staged document, which is then renamed into the
\* project's run directory.
ValidatorPasses(s) ==
    LET o == op[s] IN
    /\ o.pc = "validate"
    /\ Yielded
    /\ summary' = [summary EXCEPT ![o.run] = o.content]
    /\ Return(s)
    /\ UNCHANGED <<storeVars, entries, staged, faults, vouched, answered>>

\* The persist ends early: git fails, the entry is ineffective, the validator
\* does not pass, or the project's directory has moved.
PersistStops(s) ==
    /\ op[s].pc \in {"check", "verify", "stage", "validate"}
    /\ Yielded
    /\ Return(s)
    /\ UNCHANGED <<storeVars, projectVars, faults, historyVars>>

----------------------------------------------------------------------------
Sweep(A) == Yielded /\ A /\ UNCHANGED <<op, entries, summary, faults, historyVars>>

Prune == Sweep(pruneReviewRuns)
         /\ staged' = [r \in Runs |-> staged[r] /\ r \notin PruneSet]
Recover == Sweep(recoverInterruptedRuns) /\ UNCHANGED staged
TimePasses == Sweep(Age) /\ UNCHANGED staged

Init ==
    /\ StoreInit
    /\ op = [s \in Sessions |-> Idle]
    /\ entries = {}
    /\ staged = [r \in Runs |-> FALSE]
    /\ summary = [r \in Runs |-> None]
    /\ faults = 0
    /\ vouched = [r \in Runs |-> {}]
    /\ answered = [r \in Runs |-> None]

Next ==
    \/ \E s \in Sessions :
        \/ PublishNext(s) \/ WriteFails(s)
        \/ materializeReviewRange(s) \/ GitRefuses(s) \/ GitAnswers(s)
        \/ runReviewPipeline(s) \/ HelperUnavailable(s) \/ HelperRejects(s) \/ HelperAccepts(s)
        \/ persistReviewArtifact(s) \/ ensureReviewIgnored(s) \/ IgnoreVerified(s)
        \/ Stage(s) \/ ValidatorPasses(s) \/ PersistStops(s)
    \/ Crash
    \/ Prune \/ Recover \/ TimePasses

Spec == Init /\ [][Next]_vars

----------------------------------------------------------------------------
\* The types of the store, of the operations and of the history variables; the
\* directories by age are those that exist, and those past the TTL the oldest.
TypeOK ==
    /\ owner \in [Runs -> Sessions \cup {None}]
    /\ dir \in [Runs -> BOOLEAN]
    /\ files \in [Runs -> [Names -> Contents \cup {None}]]
    /\ \A r \in Runs : meta[r] = None \/ meta[r] \in Records
    /\ DOMAIN older = {r \in Runs : dir[r]}
    /\ \A r \in DOMAIN older : older[r] \subseteq DOMAIN older \ {r}
    /\ expired \subseteq DOMAIN older /\ \A r \in expired : older[r] \subseteq expired
    /\ \A s \in Sessions :
        /\ op[s].pc \in {"idle", "sync", "git", "helper", "check", "verify", "stage", "validate"}
        /\ op[s].run \in Runs \cup {None}
        /\ op[s].pc = "sync" <=> op[s].todo # <<>>
    /\ entries \subseteq Runs
    /\ staged \in [Runs -> BOOLEAN]
    /\ summary \in [Runs -> Reviews \cup {None}]
    /\ faults \in 0..MaxFaults
    /\ vouched \in [Runs -> SUBSET Contents]
    /\ answered \in [Runs -> {None, "accepted", "rejected", "unavailable", "invalid"}]

\* A run whose record says published is complete, whatever crashed or threw
\* while it was written or while a later phase added to it: the diff and every
\* slice are on disk with the recorded bytes, its owner can read every slice,
\* and the whole diff too unless it is over the cap of one read
\* (REVIEW_DIFF_READ_MAX_BYTES), which sends the reader to the slices.
PublishedComplete ==
    \A r \in Runs : (meta[r] # None /\ meta[r].state = "published") =>
        /\ \A n \in DiffNames : Listed(meta[r], n) /\ files[r][n] = meta[r].first[n]
        /\ \A n \in Slices : DiffServed(owner[r], r, n)
        /\ DiffServed(owner[r], r, "scope") \/ meta[r].first["scope"].bytes > MaxDiffBytes

\* A review summary in the project is the document of a well-formed output of a
\* finalize phase of its own run, that output's artifact with a schema_version
\* and nothing of another, whatever finalize published after it.
SummaryVouched ==
    \A r \in Runs : summary[r] # None => \E c \in vouched[r] : summary[r] = ReviewDocument(c)

\* Once the last finalize phase of a run was answered as rejected or invalid, no
\* persist publishes a summary, although an earlier one was accepted and its
\* artifact may still be on disk.
RejectedNotPersisted ==
    [][\A r \in Runs : summary'[r] # summary[r] => answered[r] \notin {"rejected", "invalid"}]_vars
============================================================================

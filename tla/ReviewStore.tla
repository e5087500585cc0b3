---------------------------- MODULE ReviewStore ----------------------------
(***************************************************************************)
(* The broker's review-run store (broker/src/review-run.ts): one directory *)
(* per run, the artifacts in it and the run record metadata.json, with the *)
(* byte caps, the retention sweep and the recovery of interrupted runs.    *)
(*                                                                         *)
(* Everything the store writes goes through one primitive, a temporary     *)
(* file renamed into place, so a file is seen whole or not at all.  An     *)
(* operation that publishes several files does so in one synchronous       *)
(* stretch of the event loop: no other request runs in between, but the    *)
(* process may die, or one of the writes may throw.  Such a stretch is     *)
(* modelled as the sequence of publications it will make (its todo list),  *)
(* performed one at a time.                                                *)
(***************************************************************************)
EXTENDS Naturals, Sequences, SequencesExt, FiniteSets, FiniteSetsExt

CONSTANTS
    Sessions,       \* the owning sessions
    Runs,           \* run identifiers (32 hex digits in the code)
    Slices,         \* names of the diff slices of a range, besides "scope"
    Reviewers,      \* reviewer personas; each names its screen artifact
    MaxBytes,       \* caps.maxBytes, the bytes of one run
    MaxFileBytes,   \* caps.maxFileBytes, the bytes of one artifact
    MaxSliceBytes,  \* REVIEW_SLICE_MAX_BYTES, the bytes of one slice
    MaxDiffBytes,   \* REVIEW_DIFF_READ_MAX_BYTES, what one read of a diff serves
    MaxPerSession,  \* caps.maxPerSession, the runs of one session
    MaxRuns,        \* the global bound of the retention sweep
    None

DiffNames == {"scope"} \cup Slices
PhaseNames == Reviewers \cup {"prepare", "merge", "finalize"}
Names == DiffNames \cup PhaseNames

\* A diff has finitely many slices, and a slice (45 KiB) is within what one read
\* serves (256 KiB).  The names of slices (slice-NNNN.diff), of screens
\* (phase-screen-<persona>.json) and of phases (phase-<phase>.json) differ.
ASSUME StoreAssumption ==
    /\ {MaxBytes, MaxFileBytes, MaxSliceBytes, MaxDiffBytes, MaxPerSession, MaxRuns} \subseteq Nat
    /\ MaxSliceBytes <= MaxDiffBytes
    /\ None \notin Sessions \cup Runs \cup {"materialize", "finalize", "rejected", "invalid"}
    /\ IsFiniteSet(Slices) /\ "scope" \notin Slices /\ DiffNames \cap PhaseNames = {}
    /\ {"prepare", "merge", "finalize"} \cap Reviewers = {}

VARIABLES
    owner,    \* owner[r]: the session a run was created for, None when unused
    dir,      \* dir[r]: whether the run's directory exists
    files,    \* files[r][n]: the artifact on disk, None when there is none
    meta,     \* meta[r]: the run record on disk, None when there is none
    older,    \* older[r], for each run directory: the directories modified before it
    expired   \* the directories past the TTL

storeVars == <<owner, dir, files, meta, older, expired>>

----------------------------------------------------------------------------
(* The run record.  An artifact entry is the length and the digest of the   *)
(* published bytes; the digest is the identity `gen' of the bytes.  Of the  *)
(* list of entries the code uses the sum of the lengths and, for a name,    *)
(* the first entry: those two are kept.                                     *)

NewRecord == [state |-> "publishing", first |-> [n \in Names |-> None],
              total |-> 0, provenance |-> None]

Listed(record, n) == record.first[n] # None

WithEntry(record, n, content) ==
    [record EXCEPT !.first[n] = IF @ = None THEN content ELSE @,
                   !.total = @ + content.bytes]

\* The per-file and per-run byte caps; exactly at the cap is accepted, and a
\* name published again is counted again.
WithinCaps(record, content) ==
    /\ content.bytes <= MaxFileBytes
    /\ record.total + content.bytes <= MaxBytes

----------------------------------------------------------------------------
(* Publications: the directory, an artifact, the record.                    *)

Dir == [kind |-> "dir"]
File(n, content) == [kind |-> "file", name |-> n, content |-> content]
Meta(record) == [kind |-> "meta", record |-> record]

\* A change inside a run directory renews its modification time.
Touched(r) ==
    /\ older' = [x \in DOMAIN older \cup {r} |->
                   IF x = r THEN DOMAIN older \ {r} ELSE older[x] \ {r}]
    /\ expired' = expired \ {r}

Publish(r, p) ==
    /\ dir' = [dir EXCEPT ![r] = TRUE]
    /\ files' = IF p.kind = "file" THEN [files EXCEPT ![r][p.name] = p.content] ELSE files
    /\ meta' = IF p.kind = "meta" THEN [meta EXCEPT ![r] = p.record] ELSE meta
    /\ Touched(r)

\* What ReviewRunWriter.addArtifact publishes: the artifact, then the record,
\* still open, that lists it.
WriterAdd(record, n, content) ==
    <<File(n, content), Meta(WithEntry(record, n, content))>>

\* What ReviewRunStore.addArtifact publishes for the record it has read: an
\* open run is continued by a new writer, whose constructor writes the record
\* first; a published run gets the artifact and the longer record.
StoreAdd(record, n, content) ==
    (IF record.state = "publishing" THEN <<Meta(record)>> ELSE <<>>)
        \o WriterAdd(record, n, content)

AddAllowed(record, content) ==
    record.state \in {"publishing", "published"} /\ WithinCaps(record, content)

\* readRecord: the record is there and names the session and the run.
Readable(s, r) == dir[r] /\ meta[r] # None /\ owner[r] = s

\* readRunArtifact: the file is there and within the cap it is read with.
ReadArtifact(r, n, cap) == dir[r] /\ files[r][n] # None /\ files[r][n].bytes <= cap

\* countRunsForSession counts directories, with or without a record.
RunCount(s) == Cardinality({r \in Runs : dir[r] /\ owner[r] = s})

Admitted(s) == RunCount(s) < MaxPerSession

\* createRun's writer publishes the directory, then the record.
RunCreated == <<Dir, Meta(NewRecord)>>

----------------------------------------------------------------------------
(* readReviewDiff: a published run serves a listed diff artifact whose     *)
(* bytes still have the recorded length and digest, up to the smaller of   *)
(* the file cap and its own.                                               *)

DiffReadCap == IF MaxFileBytes < MaxDiffBytes THEN MaxFileBytes ELSE MaxDiffBytes

DiffServed(s, r, n) ==
    /\ Readable(s, r)
    /\ meta[r].state = "published"
    /\ Listed(meta[r], n)
    /\ ReadArtifact(r, n, DiffReadCap)
    /\ files[r][n] = meta[r].first[n]

----------------------------------------------------------------------------
(* Retention.  The sweeps are synchronous; a run is open when its record   *)
(* can be read and says publishing.                                        *)

Open(r) == meta[r] # None /\ meta[r].state = "publishing"

\* Pass 1 removes the closed runs past the TTL, pass 2 the oldest closed runs
\* until the rest is within MaxRuns.
PruneSet ==
    LET first == {r \in expired : ~Open(r)}
        rest == DOMAIN older \ first
        closed == {r \in rest : ~Open(r)}
    IN  first \cup {r \in closed :
                     Cardinality(older[r] \cap closed) + MaxRuns < Cardinality(rest)}

\* Mutant: the removed directories are still listed.
pruneKeepsOrder ==
    /\ PruneSet # {}
    /\ dir' = [r \in Runs |-> dir[r] /\ r \notin PruneSet]
    /\ files' = [r \in Runs |-> IF r \in PruneSet THEN [n \in Names |-> None] ELSE files[r]]
    /\ meta' = [r \in Runs |-> IF r \in PruneSet THEN None ELSE meta[r]]
    /\ UNCHANGED <<owner, older, expired>>

pruneReviewRuns ==
    /\ PruneSet # {}
    /\ dir' = [r \in Runs |-> dir[r] /\ r \notin PruneSet]
    /\ files' = [r \in Runs |-> IF r \in PruneSet THEN [n \in Names |-> None] ELSE files[r]]
    /\ meta' = [r \in Runs |-> IF r \in PruneSet THEN None ELSE meta[r]]
    /\ older' = [r \in DOMAIN older \ PruneSet |-> older[r] \ PruneSet]
    /\ expired' = expired \ PruneSet
    /\ UNCHANGED owner

\* An open run past the TTL is rewritten, first as open, then as failed, in the
\* order in which the directories are listed (discoverRuns).
recoverInterruptedRuns ==
    LET stale == {r \in expired : Open(r)}
    IN  /\ stale # {}
        /\ meta' = [r \in Runs |-> IF r \in stale THEN [meta[r] EXCEPT !.state = "failed"] ELSE meta[r]]
        /\ \E rank \in Injection(stale, 1..Cardinality(stale)) :
             older' = [r \in DOMAIN older |->
                         IF r \in stale THEN (DOMAIN older \ stale) \cup {x \in stale : rank[x] < rank[r]}
                         ELSE older[r] \ stale]
        /\ expired' = expired \ stale
        /\ UNCHANGED <<owner, dir, files>>

\* Time passes: the oldest run not yet past the TTL passes it.
Age ==
    /\ \E r \in DOMAIN older \ expired :
        older[r] \subseteq expired /\ expired' = expired \cup {r}
    /\ UNCHANGED <<owner, dir, files, meta, older>>

StoreInit ==
    /\ owner = [r \in Runs |-> None]
    /\ dir = [r \in Runs |-> FALSE]
    /\ files = [r \in Runs |-> [n \in Names |-> None]]
    /\ meta = [r \in Runs |-> None]
    /\ older = [r \in {} |-> {}]
    /\ expired = {}
============================================================================

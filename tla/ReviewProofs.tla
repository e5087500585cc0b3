---------------------------- MODULE ReviewProofs ----------------------------
(***************************************************************************)
(* Proofs about ReviewPipeline, for every set of sessions, runs, slices,   *)
(* reviewers and documents, all caps and any number of faults.             *)
(***************************************************************************)
EXTENDS ReviewPipeline, TLAPS, SequenceTheorems, FiniteSetTheorems

Publication ==
  {Dir} \cup [kind : {"file"}, name : Names, content : Contents]
        \cup [kind : {"meta"}, record : Records]

(* The record says that its finalize was accepted, ...                      *)
Approves(record) == record.provenance # None /\ record.provenance.outcome = "accepted"

(* ... and that output is among the vouched ones V.                         *)
Vouches(record, V) ==
  Approves(record) =>
    /\ [gen |-> record.provenance.gen, bytes |-> record.provenance.bytes] \in V
    /\ record.provenance.gen \notin Malformed

(* A record that may say published lists the diff and its slices, the       *)
(* slices within what one read serves, ...                                  *)
Lists(record) ==
  \A n \in DiffNames : /\ record.first[n] # None /\ record.first[n].bytes <= MaxFileBytes
                       /\ n \in Slices => record.first[n].bytes <= MaxDiffBytes

(* ... and the artifacts F are the ones it lists.                           *)
Serves(record, F) ==
  record.state = "published" => Lists(record) /\ \A n \in DiffNames : F[n] = record.first[n]

(* The documents persisted for the vouched outputs V.                       *)
DocumentsOf(V) == {ReviewDocument(c) : c \in V}

(* One run: its owner w, directory D, artifacts F, record M, summary S, the *)
(* vouched outputs V and the last answer A.                                 *)
RunOK(w, D, F, M, S, V, A) ==
  /\ F \in [Names -> Contents \cup {None}] /\ V \subseteq Contents
  /\ M = None \/ (/\ w # None /\ D /\ M \in Records /\ Serves(M, F) /\ Vouches(M, V)
                  /\ A = "rejected" => ~Approves(M))
  /\ S # None => S \in DocumentsOf(V)
  /\ A = "invalid" /\ F["finalize"] # None => F["finalize"].gen \in Malformed

(* What a synchronous stretch is still to publish.  A record it publishes   *)
(* is vouched for and lists what is on disk by then; an artifact it writes  *)
(* is not another one than a published record lists.                        *)
MetaOK(record, V, A) ==
  /\ Vouches(record, V)
  /\ A = "rejected" => ~Approves(record)
  /\ record.state = "published" => Lists(record)

FileOK(p, M, A) ==
  /\ A = "invalid" /\ p.name = "finalize" => p.content.gen \in Malformed
  /\ p.name \in DiffNames /\ M # None /\ M.state = "published" => p.content = M.first[p.name]

Written(todo, n, i) == \E j \in 1..(i - 1) : todo[j].kind = "file" /\ todo[j].name = n

TodoOK(todo, F, M, V, A) ==
  /\ todo \in Seq(Publication) /\ todo # <<>>
  /\ \A i \in 1..Len(todo) : todo[i].kind = "meta" => MetaOK(todo[i].record, V, A)
  /\ \A i \in 1..Len(todo) : todo[i].kind = "file" => FileOK(todo[i], M, A)
  /\ \A i, j \in 1..Len(todo) :
       (/\ todo[i].kind = "meta" /\ todo[i].record.state = "published"
        /\ todo[j].kind = "file" /\ todo[j].name \in DiffNames)
         => todo[j].content = todo[i].record.first[todo[j].name]
  /\ \A i \in 1..Len(todo) : todo[i].kind = "meta" /\ todo[i].record.state = "published" =>
       \A n \in DiffNames : F[n] = todo[i].record.first[n] \/ Written(todo, n, i)

(* What it will have published when it is answered.                         *)
AnswerOK(todo, answer, F) ==
  /\ answer = "rejected" =>
       \A i \in 1..Len(todo) : todo[i].kind = "meta" /\ ~Approves(todo[i].record)
  /\ answer = "invalid" =>
       /\ \A i \in 1..Len(todo) :
            todo[i].kind = "file" /\ todo[i].name = "finalize" => todo[i].content.gen \in Malformed
       /\ \/ \E i \in 1..Len(todo) : todo[i].kind = "file" /\ todo[i].name = "finalize"
          \/ F["finalize"] # None /\ F["finalize"].gen \in Malformed

PersistPcs == {"check", "verify", "stage", "validate"}

(* One operation, on its run.                                               *)
Work(o, F, M, V, A) ==
  /\ o.pc = "sync" => /\ TodoOK(o.todo, F, M, V, A) /\ AnswerOK(o.todo, o.answer, F)
                      /\ o.guarded => M # None
  /\ o.pc = "helper" => o.phase \in Phases /\ (o.phase = "finalize" => A = None)
  /\ o.pc \in PersistPcs => o.content \in DocumentsOf(V) /\ A \notin {"rejected", "invalid"}

OpFields == {"pc", "run", "phase", "todo", "content", "guarded", "answer"}

Shape(o) ==
  /\ DOMAIN o = OpFields
  /\ o.run \in Runs \cup {None}
  /\ o.pc \in {"sync", "helper"} \cup PersistPcs => o.run # None

OpOK(s, o) ==
  /\ Shape(o)
  /\ o.run # None => /\ owner[o.run] = s
                     /\ Work(o, files[o.run], meta[o.run], vouched[o.run], answered[o.run])

RunNow(r) == RunOK(owner[r], dir[r], files[r], meta[r], summary[r], vouched[r], answered[r])

StateTypes ==
  /\ owner \in [Runs -> Sessions \cup {None}]
  /\ DOMAIN dir = Runs /\ DOMAIN files = Runs /\ DOMAIN meta = Runs /\ DOMAIN summary = Runs
  /\ DOMAIN vouched = Runs /\ DOMAIN answered = Runs /\ DOMAIN op = Sessions

(* The inductive invariant.                                                 *)
ReviewInv ==
  /\ StateTypes
  /\ \A r \in Runs : RunNow(r)
  /\ \A s \in Sessions : OpOK(s, op[s])

-----------------------------------------------------------------------------
(* Publications                                                            *)

LEMMA PublicationKinds ==
  /\ \A p \in Publication : /\ p.kind = "file" => p.name \in Names /\ p.content \in Contents
                            /\ p.kind = "meta" => p.record \in Records
  /\ Dir \in Publication /\ Dir.kind = "dir"
  /\ \A n \in Names, c \in Contents :
       /\ File(n, c) \in Publication /\ File(n, c).kind = "file"
       /\ File(n, c).name = n /\ File(n, c).content = c
  /\ \A record \in Records :
       /\ Meta(record) \in Publication /\ Meta(record).kind = "meta"
       /\ Meta(record).record = record
<1>1. Dir \in Publication /\ Dir.kind = "dir"
  BY DEF Publication, Dir
<1>2. \A n \in Names, c \in Contents :
       /\ File(n, c) \in Publication /\ File(n, c).kind = "file"
       /\ File(n, c).name = n /\ File(n, c).content = c
  BY DEF Publication, File
<1>3. \A record \in Records :
       /\ Meta(record) \in Publication /\ Meta(record).kind = "meta"
       /\ Meta(record).record = record
  BY DEF Publication, Meta
<1>4. \A p \in Publication : /\ p.kind = "file" => p.name \in Names /\ p.content \in Contents
                             /\ p.kind = "meta" => p.record \in Records
  <2> SUFFICES ASSUME NEW p \in Publication
               PROVE  /\ p.kind = "file" => p.name \in Names /\ p.content \in Contents
                      /\ p.kind = "meta" => p.record \in Records
    OBVIOUS
  <2>1. CASE p = Dir
    BY <2>1 DEF Dir
  <2>2. CASE p \in [kind : {"file"}, name : Names, content : Contents]
    BY <2>2
  <2>3. CASE p \in [kind : {"meta"}, record : Records]
    BY <2>3
  <2> QED BY <2>1, <2>2, <2>3 DEF Publication
<1> QED BY <1>1, <1>2, <1>3, <1>4

(* The artifacts and the record after the publication p.                    *)
FilesAfter(F, p) == IF p.kind = "file" THEN [F EXCEPT ![p.name] = p.content] ELSE F
MetaAfter(M, p) == IF p.kind = "meta" THEN p.record ELSE M

LEMMA NoneApart ==
  None \notin Contents /\ None \notin Records /\ "finalize" \in Names /\ "finalize" \notin DiffNames
BY StoreAssumption, PipelineAssumption DEF Names, PhaseNames

LEMMA PublishRun ==
  ASSUME NEW w, NEW D, NEW F, NEW M, NEW S, NEW V, NEW A, RunOK(w, D, F, M, S, V, A), w # None,
         NEW todo, TodoOK(todo, F, M, V, A), NEW answer, AnswerOK(todo, answer, F)
  PROVE  /\ RunOK(w, TRUE, FilesAfter(F, todo[1]), MetaAfter(M, todo[1]), S, V, A)
         /\ Len(todo) = 1 =>
              RunOK(w, TRUE, FilesAfter(F, todo[1]), MetaAfter(M, todo[1]), S, V, answer)
<1> DEFINE p == todo[1]
           F2 == FilesAfter(F, p)
           M2 == MetaAfter(M, p)
<1>1. p \in Publication /\ 1 \in 1..Len(todo)
  BY DEF TodoOK
<1>k. /\ p.kind = "file" => p.name \in Names /\ p.content \in Contents
      /\ p.kind = "meta" => p.record \in Records
  BY <1>1, PublicationKinds
<1>2. F2 \in [Names -> Contents \cup {None}] /\ V \subseteq Contents
  BY <1>k DEF RunOK, FilesAfter
<1>3. p.kind = "file" => \A n \in Names : F2[n] = IF n = p.name THEN p.content ELSE F[n]
  BY <1>k DEF RunOK, FilesAfter
<1>4. CASE p.kind = "meta"
  <2>1. M2 = p.record /\ F2 = F /\ p.record \in Records
    BY <1>4, <1>k DEF MetaAfter, FilesAfter
  <2>2. MetaOK(p.record, V, A)
    BY <1>1, <1>4 DEF TodoOK
  <2>3. p.record.state = "published" => \A n \in DiffNames : F[n] = p.record.first[n]
    BY <1>1, <1>4 DEF TodoOK, Written
  <2>4. Serves(p.record, F) /\ Vouches(p.record, V)
    BY <2>2, <2>3 DEF Serves, MetaOK
  <2>5. /\ A = "rejected" => ~Approves(p.record)
        /\ answer = "rejected" => ~Approves(p.record)
    BY <1>1, <2>2 DEF MetaOK, AnswerOK
  <2> HIDE DEF p, F2, M2
  <2>6. Len(todo) = 1 /\ answer = "invalid" => F["finalize"] # None /\ F["finalize"].gen \in Malformed
    BY <1>4 DEF AnswerOK, p
  <2> QED BY <1>2, <2>1, <2>4, <2>5, <2>6 DEF RunOK, p, F2, M2
<1>5. CASE p.kind = "file"
  <2>1. M2 = M
    BY <1>5 DEF MetaAfter
  <2>2. FileOK(p, M, A)
    BY <1>1, <1>5 DEF TodoOK
  <2>3. M # None => Serves(M, F2)
    BY <1>3, <1>5, <2>2 DEF Serves, FileOK, RunOK, Names
  <2>4. A = "invalid" /\ F2["finalize"] # None => F2["finalize"].gen \in Malformed
    BY <1>3, <1>5, <2>2, NoneApart DEF FileOK, RunOK
  <2>5. answer # "rejected"
    BY <1>1, <1>5 DEF AnswerOK
  <2>6. Len(todo) = 1 /\ answer = "invalid" => F2["finalize"].gen \in Malformed
    BY <1>1, <1>3, <1>5, NoneApart DEF AnswerOK
  <2> HIDE DEF p, F2, M2
  <2> QED BY <1>2, <2>1, <2>3, <2>4, <2>5, <2>6 DEF RunOK, p, F2, M2
<1>6. CASE p.kind \notin {"file", "meta"}
  <2>1. M2 = M /\ F2 = F
    BY <1>6 DEF MetaAfter, FilesAfter
  <2>2. answer # "rejected"
    BY <1>1, <1>6 DEF AnswerOK
  <2>3. Len(todo) = 1 /\ answer = "invalid" => F["finalize"].gen \in Malformed
    BY <1>1, <1>6 DEF AnswerOK
  <2> HIDE DEF p, F2, M2
  <2> QED BY <2>1, <2>2, <2>3 DEF RunOK, p, F2, M2
<1> QED BY <1>4, <1>5, <1>6

LEMMA TailElems ==
  ASSUME NEW T, NEW todo \in Seq(T), Len(todo) > 1
  PROVE  /\ Tail(todo) \in Seq(T) /\ Tail(todo) # <<>>
         /\ Len(Tail(todo)) = Len(todo) - 1
         /\ \A i \in 1..Len(Tail(todo)) : i + 1 \in 1..Len(todo) /\ Tail(todo)[i] = todo[i + 1]
<1>1. Tail(todo) \in Seq(T) /\ Len(Tail(todo)) = Len(todo) - 1 /\ Len(todo) \in Nat
  OBVIOUS
<1>2. \A i \in 1..Len(Tail(todo)) : i + 1 \in 1..Len(todo) /\ Tail(todo)[i] = todo[i + 1]
  BY <1>1
<1>3. Tail(todo) # <<>>
  <2>1. Len(Tail(todo)) # Len(<<>>)
    BY <1>1
  <2> QED BY <2>1
<1> QED BY <1>1, <1>2, <1>3

LEMMA PublishTodo ==
  ASSUME NEW F, NEW M, NEW V, NEW A, F \in [Names -> Contents \cup {None}],
         NEW todo, TodoOK(todo, F, M, V, A), Len(todo) > 1
  PROVE  TodoOK(Tail(todo), FilesAfter(F, todo[1]), MetaAfter(M, todo[1]), V, A)
<1> DEFINE p == todo[1]
           F2 == FilesAfter(F, p)
           M2 == MetaAfter(M, p)
           rest == Tail(todo)
<1>1. /\ todo \in Seq(Publication) /\ Len(todo) \in Nat /\ 1 \in 1..Len(todo)
      /\ p \in Publication
  BY DEF TodoOK
<1>2. /\ rest \in Seq(Publication) /\ rest # <<>> /\ Len(rest) = Len(todo) - 1
      /\ \A i \in 1..Len(rest) : i + 1 \in 1..Len(todo) /\ rest[i] = todo[i + 1]
  BY <1>1, TailElems
<1>3. p.kind = "file" => \A n \in Names : F2[n] = IF n = p.name THEN p.content ELSE F[n]
  BY <1>1, PublicationKinds DEF FilesAfter
<1>4. p.kind # "file" => F2 = F
  BY DEF FilesAfter
<1>5. M2 = IF p.kind = "meta" THEN p.record ELSE M
  BY DEF MetaAfter
<1> HIDE DEF rest, F2, M2
<1>6. \A i \in 1..Len(rest) : rest[i].kind = "meta" => MetaOK(rest[i].record, V, A)
  BY <1>2 DEF TodoOK
<1>7. ASSUME NEW i \in 1..Len(rest), rest[i].kind = "file" PROVE FileOK(rest[i], M2, A)
  <2>1. i + 1 \in 1..Len(todo) /\ rest[i] = todo[i + 1] /\ todo[i + 1].kind = "file"
    BY <1>2, <1>7
  <2>2. FileOK(todo[i + 1], M, A)
    BY <2>1 DEF TodoOK
  <2>3. p.kind = "meta" /\ p.record.state = "published" /\ todo[i + 1].name \in DiffNames
          => todo[i + 1].content = p.record.first[todo[i + 1].name]
    BY <1>1, <2>1 DEF TodoOK
  <2> HIDE DEF p
  <2> QED BY <1>5, <2>1, <2>2, <2>3 DEF FileOK
<1>8. ASSUME NEW i \in 1..Len(rest), NEW j \in 1..Len(rest),
             rest[i].kind = "meta", rest[i].record.state = "published",
             rest[j].kind = "file", rest[j].name \in DiffNames
      PROVE  rest[j].content = rest[i].record.first[rest[j].name]
  <2>1. /\ i + 1 \in 1..Len(todo) /\ rest[i] = todo[i + 1]
        /\ j + 1 \in 1..Len(todo) /\ rest[j] = todo[j + 1]
    BY <1>2
  <2> QED BY <1>8, <2>1 DEF TodoOK
<1>9. ASSUME NEW i \in 1..Len(rest), rest[i].kind = "meta", rest[i].record.state = "published",
             NEW n \in DiffNames
      PROVE  F2[n] = rest[i].record.first[n] \/ Written(rest, n, i)
  <2>1. i + 1 \in 1..Len(todo) /\ rest[i] = todo[i + 1] /\ n \in Names /\ i \in Nat
    BY <1>2 DEF Names
  <2>2. F[n] = todo[i + 1].record.first[n] \/ Written(todo, n, i + 1)
    BY <1>9, <2>1 DEF TodoOK
  <2>3. p.kind = "file" /\ p.name = n => p.content = todo[i + 1].record.first[n]
    BY <1>1, <1>9, <2>1 DEF TodoOK
  <2>4. CASE p.kind = "file" /\ p.name = n
    BY <1>3, <2>1, <2>3, <2>4
  <2>5. CASE ~(p.kind = "file" /\ p.name = n) /\ F[n] = todo[i + 1].record.first[n]
    BY <1>3, <1>4, <2>1, <2>5
  <2>6. CASE ~(p.kind = "file" /\ p.name = n) /\ Written(todo, n, i + 1)
    <3>1. PICK j \in 1..i : todo[j].kind = "file" /\ todo[j].name = n
      BY <2>1, <2>6 DEF Written
    <3>2. j # 1 /\ j \in Int
      BY <2>6, <3>1
    <3>3. j - 1 \in 1..(i - 1) /\ rest[j - 1] = todo[(j - 1) + 1] /\ (j - 1) + 1 = j
      BY <1>2, <3>1, <3>2
    <3> QED BY <3>1, <3>3 DEF Written
  <2> QED BY <2>2, <2>4, <2>5, <2>6
<1>10. TodoOK(rest, F2, M2, V, A)
  BY <1>2, <1>6, <1>7, <1>8, <1>9 DEF TodoOK
<1> QED BY <1>10 DEF rest, F2, M2

LEMMA PublishAnswer ==
  ASSUME NEW F, F \in [Names -> Contents \cup {None}],
         NEW todo \in Seq(Publication), Len(todo) > 1, NEW answer, AnswerOK(todo, answer, F)
  PROVE  AnswerOK(Tail(todo), answer, FilesAfter(F, todo[1]))
<1> DEFINE p == todo[1]
           F2 == FilesAfter(F, p)
           rest == Tail(todo)
<1>1. Len(todo) \in Nat /\ 1 \in 1..Len(todo) /\ p \in Publication
  OBVIOUS
<1>2. /\ rest \in Seq(Publication) /\ rest # <<>> /\ Len(rest) = Len(todo) - 1
      /\ \A i \in 1..Len(rest) : i + 1 \in 1..Len(todo) /\ rest[i] = todo[i + 1]
  BY TailElems
<1>3. p.kind = "file" => \A n \in Names : F2[n] = IF n = p.name THEN p.content ELSE F[n]
  BY <1>1, PublicationKinds DEF FilesAfter
<1>c. p.kind = "file" => p.content \in Contents
  BY <1>1, PublicationKinds
<1>4. p.kind # "file" => F2 = F
  BY DEF FilesAfter
<1> HIDE DEF rest, F2
<1>5. answer = "rejected" =>
        \A i \in 1..Len(rest) : rest[i].kind = "meta" /\ ~Approves(rest[i].record)
  BY <1>2 DEF AnswerOK
<1>6. ASSUME answer = "invalid"
      PROVE  /\ \A i \in 1..Len(rest) : rest[i].kind = "file" /\ rest[i].name = "finalize"
                                          => rest[i].content.gen \in Malformed
             /\ \/ \E i \in 1..Len(rest) : rest[i].kind = "file" /\ rest[i].name = "finalize"
                \/ F2["finalize"] # None /\ F2["finalize"].gen \in Malformed
  <2>1. /\ \A i \in 1..Len(todo) : todo[i].kind = "file" /\ todo[i].name = "finalize"
                                     => todo[i].content.gen \in Malformed
        /\ \/ \E i \in 1..Len(todo) : todo[i].kind = "file" /\ todo[i].name = "finalize"
           \/ F["finalize"] # None /\ F["finalize"].gen \in Malformed
    BY <1>6 DEF AnswerOK
  <2>2. \A i \in 1..Len(rest) : rest[i].kind = "file" /\ rest[i].name = "finalize"
                                  => rest[i].content.gen \in Malformed
    BY <1>2, <2>1
  <2>3. CASE p.kind = "file" /\ p.name = "finalize"
    BY <1>1, <1>3, <1>c, <2>1, <2>2, <2>3, NoneApart
  <2>4. CASE ~(p.kind = "file" /\ p.name = "finalize") /\ F["finalize"] # None
             /\ F["finalize"].gen \in Malformed
    BY <1>3, <1>4, <2>2, <2>4, NoneApart
  <2>5. ASSUME ~(p.kind = "file" /\ p.name = "finalize"),
               NEW i \in 1..Len(todo), todo[i].kind = "file", todo[i].name = "finalize"
        PROVE  \E k \in 1..Len(rest) : rest[k].kind = "file" /\ rest[k].name = "finalize"
    <3>1. i # 1 /\ i \in Int
      BY <2>5
    <3>2. i - 1 \in 1..Len(rest) /\ rest[i - 1] = todo[(i - 1) + 1] /\ (i - 1) + 1 = i
      BY <1>1, <1>2, <3>1
    <3> QED BY <2>5, <3>2
  <2> QED BY <2>1, <2>2, <2>3, <2>4, <2>5
<1> QED BY <1>5, <1>6 DEF AnswerOK, rest, F2

-----------------------------------------------------------------------------
(* Records that are written                                                *)

(* A record written over M: what it lists of the diff is what M lists, and  *)
(* it says published only if M does.                                        *)
Succeeds(record, M, V, A) ==
  /\ record \in Records /\ Vouches(record, V) /\ (A = "rejected" => ~Approves(record))
  /\ record.state = "published" =>
       M.state = "published" /\ \A n \in DiffNames : record.first[n] = M.first[n]

(* A stretch that writes such records, and artifacts of phases, is sound.   *)
LEMMA SucceedsTodo ==
  ASSUME NEW w, NEW D, NEW F, NEW M, NEW S, NEW V, NEW A, RunOK(w, D, F, M, S, V, A), M # None,
         NEW V2, V \subseteq V2,
         NEW todo \in Seq(Publication), todo # <<>>,
         \A i \in 1..Len(todo) :
           /\ todo[i].kind = "meta" => Succeeds(todo[i].record, M, V2, A)
           /\ todo[i].kind = "file" => /\ todo[i].name \notin DiffNames
                                       /\ todo[i].name = "finalize" => A # "invalid"
  PROVE  TodoOK(todo, F, M, V2, A)
<1>1. Serves(M, F)
  BY DEF RunOK
<1>2. ASSUME NEW i \in 1..Len(todo), todo[i].kind = "meta" PROVE MetaOK(todo[i].record, V2, A)
  <2>1. Succeeds(todo[i].record, M, V2, A)
    BY <1>2
  <2> QED BY <1>1, <2>1 DEF Succeeds, MetaOK, Serves, Lists
<1>3. \A i \in 1..Len(todo) : todo[i].kind = "file" => FileOK(todo[i], M, A)
  BY DEF FileOK
<1>4. ASSUME NEW i \in 1..Len(todo), todo[i].kind = "meta", todo[i].record.state = "published",
             NEW n \in DiffNames
      PROVE  F[n] = todo[i].record.first[n]
  BY <1>1, <1>4 DEF Succeeds, Serves
<1> QED BY <1>2, <1>3, <1>4 DEF TodoOK

ProvenanceType ==
  {None} \cup [outcome : {"accepted", "rejected", "unavailable"},
               gen : {None} \cup Documents, bytes : Nat]

LEMMA RecordType ==
  \A M : M \in Records <=>
    M \in [state : {"publishing", "published", "failed"}, first : [Names -> Contents \cup {None}],
           total : Nat, provenance : ProvenanceType]
BY DEF Records, ProvenanceType

(* A record succeeds itself; its state may become failed, its provenance    *)
(* may change.                                                              *)
LEMMA SucceedsSelf ==
  ASSUME NEW w, NEW D, NEW F, NEW M, NEW S, NEW V, NEW A, RunOK(w, D, F, M, S, V, A), M # None,
         NEW V2, V \subseteq V2
  PROVE  Succeeds(M, M, V2, A)
BY DEF RunOK, Succeeds, Vouches

LEMMA SucceedsFailed ==
  ASSUME NEW M \in Records, NEW V, NEW A, Vouches(M, V), A = "rejected" => ~Approves(M), NEW N
  PROVE  Succeeds([M EXCEPT !.state = "failed"], N, V, A)
<1> DEFINE R == [M EXCEPT !.state = "failed"]
<1>1. R \in Records /\ R.state = "failed" /\ R.provenance = M.provenance
  BY DEF Records
<1> HIDE DEF R
<1>2. Succeeds(R, N, V, A)
  BY <1>1 DEF Succeeds, Vouches, Approves
<1> QED BY <1>2 DEF R

LEMMA SucceedsProvenance ==
  ASSUME NEW M \in Records, NEW V, NEW A, NEW q \in ProvenanceType,
         q.outcome = "accepted" => /\ [gen |-> q.gen, bytes |-> q.bytes] \in V
                                   /\ q.gen \notin Malformed /\ A # "rejected"
  PROVE  Succeeds([M EXCEPT !.provenance = q], M, V, A)
<1> DEFINE R == [M EXCEPT !.provenance = q]
<1>1. /\ R \in Records /\ R.state = M.state /\ R.provenance = q /\ R.first = M.first
  BY RecordType
<1> HIDE DEF R
<1>2. Succeeds(R, M, V, A)
  BY <1>1 DEF Succeeds, Vouches, Approves
<1> QED BY <1>2 DEF R

LEMMA SucceedsTransitive ==
  ASSUME NEW R, NEW M, NEW N, NEW V, NEW A, Succeeds(R, M, V, A), Succeeds(M, N, V, A)
  PROVE  Succeeds(R, N, V, A)
BY DEF Succeeds

(* WithEntry keeps the state and the provenance, and changes no other name. *)
LEMMA EntryRecord ==
  ASSUME NEW M \in Records, NEW n \in Names, NEW c \in Contents
  PROVE  /\ WithEntry(M, n, c) \in Records
         /\ WithEntry(M, n, c).state = M.state
         /\ WithEntry(M, n, c).provenance = M.provenance
         /\ \A k \in Names \ {n} : WithEntry(M, n, c).first[k] = M.first[k]
<1>1. /\ M \in [state : {"publishing", "published", "failed"}, first : [Names -> Contents \cup {None}],
               total : Nat, provenance : ProvenanceType]
      /\ c.bytes \in Nat
  BY RecordType, PipelineAssumption DEF Contents
<1> DEFINE f == [M.first EXCEPT ![n] = IF @ = None THEN c ELSE @]
           P == [M EXCEPT !.first = f]
           R == [P EXCEPT !.total = @ + c.bytes]
<1>2. f \in [Names -> Contents \cup {None}] /\ \A k \in Names \ {n} : f[k] = M.first[k]
  BY <1>1
<1>3. WithEntry(M, n, c) = R
  BY <1>1 DEF WithEntry
<1> HIDE DEF f
<1>4. /\ P \in [state : {"publishing", "published", "failed"}, first : [Names -> Contents \cup {None}],
               total : Nat, provenance : ProvenanceType]
      /\ P.first = f /\ P.state = M.state /\ P.provenance = M.provenance
  BY <1>1, <1>2
<1> HIDE DEF P
<1>5. /\ R \in [state : {"publishing", "published", "failed"}, first : [Names -> Contents \cup {None}],
               total : Nat, provenance : ProvenanceType]
      /\ R.first = f /\ R.state = M.state /\ R.provenance = M.provenance
  BY <1>1, <1>4
<1> HIDE DEF R
<1> QED BY <1>2, <1>3, <1>5, RecordType

LEMMA SucceedsEntry ==
  ASSUME NEW M \in Records, NEW V, NEW A, Vouches(M, V), A = "rejected" => ~Approves(M),
         NEW n \in PhaseNames, NEW c \in Contents
  PROVE  Succeeds(WithEntry(M, n, c), M, V, A)
<1>1. n \in Names /\ \A k \in DiffNames : k \in Names \ {n}
  BY StoreAssumption DEF Names
<1> DEFINE R == WithEntry(M, n, c)
<1>2. /\ R \in Records /\ R.state = M.state /\ R.provenance = M.provenance
      /\ \A k \in DiffNames : R.first[k] = M.first[k]
  BY <1>1, EntryRecord
<1> HIDE DEF R
<1>3. Succeeds(R, M, V, A)
  BY <1>2 DEF Succeeds, Vouches, Approves
<1> QED BY <1>3 DEF R

-----------------------------------------------------------------------------
(* The artifacts of a range                                                *)

LEMMA SlicesSequence ==
  /\ Cardinality(Slices) \in Nat
  /\ SetToSeq(Slices) \in [1..Cardinality(Slices) -> Slices]
  /\ \A n \in Slices : \E i \in 1..Cardinality(Slices) : SetToSeq(Slices)[i] = n
<1> DEFINE c == Cardinality(Slices)
           f == SetToSeq(Slices)
<1>1. IsFiniteSet(Slices) /\ c \in Nat /\ ExistsBijection(1..c, Slices)
  BY StoreAssumption, FS_CardinalityType
<1>2. PICK g : g \in Bijection(1..c, Slices)
  BY <1>1 DEF ExistsBijection
<1>3. g \in [1..c -> Slices] /\ IsInjective(g)
  BY <1>2 DEF Bijection, Injection, IsInjective
<1>4. f \in [1..c -> Slices] /\ IsInjective(f)
  BY <1>3 DEF SetToSeq
<1>5. f \in Injection(1..c, Slices)
  BY <1>4 DEF Injection
<1>6. Cardinality(1..c) = c
  BY <1>1, FS_Interval
<1>7. f \in Surjection(1..c, Slices)
  BY <1>1, <1>5, <1>6, FS_Injection
<1>8. \A n \in Slices : \E i \in 1..c : f[i] = n
  BY <1>7 DEF Surjection
<1> QED BY <1>1, <1>4, <1>8

LEMMA RangeSequence ==
  /\ RangeNames \in Seq(DiffNames) /\ Len(RangeNames) \in Nat /\ Len(RangeNames) >= 1
  /\ \A n \in DiffNames : \E i \in 1..Len(RangeNames) : RangeNames[i] = n
<1> DEFINE c == Cardinality(Slices)
           f == SetToSeq(Slices)
           g == <<"scope">>
<1>1. /\ c \in Nat /\ f \in [1..c -> Slices]
      /\ \A n \in Slices : \E i \in 1..c : f[i] = n
  BY SlicesSequence
<1> HIDE DEF c, f
<1>2. f \in Seq(DiffNames) /\ Len(f) = c
  BY <1>1 DEF DiffNames
<1>3. g \in Seq(DiffNames) /\ Len(g) = 1 /\ g[1] = "scope"
  BY DEF DiffNames
<1>4. RangeNames = g \o f
  BY DEF RangeNames, f
<1> HIDE DEF g
<1>s. f \in Seq(DiffNames) /\ g \in Seq(DiffNames)
  BY <1>2, <1>3
<1>l. RangeNames \in Seq(DiffNames) /\ Len(RangeNames) = Len(g) + Len(f)
  BY <1>s, <1>4, ConcatProperties
<1>5. RangeNames \in Seq(DiffNames) /\ Len(RangeNames) = c + 1
  BY <1>1, <1>2, <1>3, <1>l
<1>7. \A i \in 1..Len(g) + Len(f) :
        RangeNames[i] = IF i <= Len(g) THEN g[i] ELSE f[i - Len(g)]
  BY <1>s, <1>4, ConcatProperties
<1>8. RangeNames[1] = "scope"
  BY <1>1, <1>2, <1>3, <1>7
<1>9. \A i \in 1..c : RangeNames[i + 1] = f[i]
  BY <1>1, <1>2, <1>3, <1>7
<1>6. ASSUME NEW n \in DiffNames PROVE \E i \in 1..Len(RangeNames) : RangeNames[i] = n
  <2>1. CASE n = "scope"
    BY <1>1, <1>5, <1>8, <2>1
  <2>2. CASE n \in Slices
    <3>1. PICK i \in 1..c : f[i] = n
      BY <1>1, <2>2
    <3>2. i + 1 \in 1..Len(RangeNames) /\ RangeNames[i + 1] = n
      BY <1>1, <1>5, <1>9, <3>1
    <3> QED BY <3>2
  <2> QED BY <2>1, <2>2 DEF DiffNames
<1> QED BY <1>1, <1>5, <1>6

LEMMA RangeBytes ==
  ASSUME NEW b \in SliceSizes
  PROVE  b \in Nat /\ DiffBytes(b) \in Nat /\ \A k \in Nat : k * b \in Nat
<1>1. b \in Nat /\ Cardinality(Slices) \in Nat
  BY SlicesSequence, PipelineAssumption
<1>2. \A k \in Nat : k * b \in Nat
  BY <1>1
<1> QED BY <1>1, <1>2 DEF DiffBytes

LEMMA RangeRecordType ==
  ASSUME NEW b \in SliceSizes, NEW k \in Nat
  PROVE  /\ \A n : Part(b, n) \in Contents
         /\ RangeRecord(b, k) \in Records
         /\ RangeRecord(b, k).state = "publishing" /\ RangeRecord(b, k).provenance = None
         /\ \A n \in Names : (\E i \in 1..k : RangeNames[i] = n) => RangeRecord(b, k).first[n] = Part(b, n)
<1>1. \A n : Part(b, n) \in Contents
  BY RangeBytes DEF Part, Plain, Contents
<1> DEFINE t == IF k = 0 THEN 0 ELSE DiffBytes(b) + (k - 1) * b
           f == [n \in Names |-> IF \E i \in 1..k : RangeNames[i] = n THEN Part(b, n) ELSE None]
           P == [NewRecord EXCEPT !.first = f]
           R == [P EXCEPT !.total = t]
<1>2. t \in Nat
  BY RangeBytes
<1>3. f \in [Names -> Contents \cup {None}]
  BY <1>1
<1>4. \A n \in Names : (\E i \in 1..k : RangeNames[i] = n) => f[n] = Part(b, n)
  OBVIOUS
<1>r. RangeRecord(b, k) = R
  BY DEF RangeRecord
<1> HIDE DEF f, t
<1>5. P = [state |-> "publishing", first |-> f, total |-> 0, provenance |-> None]
  BY DEF NewRecord
<1> HIDE DEF P
<1>6. R = [state |-> "publishing", first |-> f, total |-> t, provenance |-> None]
  BY <1>5
<1> HIDE DEF R
<1>7. R \in Records /\ R.state = "publishing" /\ R.provenance = None /\ R.first = f
  BY <1>2, <1>3, <1>6 DEF Records
<1> QED BY <1>1, <1>4, <1>7, <1>r

LEMMA NewRecordType ==
  NewRecord \in Records /\ NewRecord.state = "publishing" /\ NewRecord.provenance = None
BY DEF NewRecord, Records

(* The middle of the writer's stretch: artifact, record, artifact, ...      *)
AddElem(b, j) == RangeAdd(b, (j + 1) \div 2)[IF j % 2 = 1 THEN 1 ELSE 2]

LastRecord(b, k) ==
  [RangeRecord(b, k) EXCEPT !.state = IF k = Len(RangeNames) THEN "published" ELSE "failed"]

LEMMA RangeAddElems ==
  ASSUME NEW b \in SliceSizes, NEW i \in 1..Len(RangeNames)
  PROVE  /\ RangeAdd(b, i)[1] = File(RangeNames[i], Part(b, RangeNames[i])) /\ RangeNames[i] \in DiffNames
         /\ \E record \in Records : /\ RangeAdd(b, i)[2] = Meta(record)
                                    /\ record.state = "publishing" /\ record.provenance = None
<1>1. RangeNames[i] \in DiffNames /\ RangeNames[i] \in Names /\ i \in Nat /\ i - 1 \in Nat
  BY RangeSequence DEF Names
<1> DEFINE R == RangeRecord(b, i - 1)
           E == WithEntry(R, RangeNames[i], Part(b, RangeNames[i]))
<1>2. /\ Part(b, RangeNames[i]) \in Contents /\ R \in Records
      /\ R.state = "publishing" /\ R.provenance = None
  BY <1>1, RangeRecordType
<1> HIDE DEF R
<1>3. E \in Records /\ E.state = "publishing" /\ E.provenance = None
  BY <1>1, <1>2, EntryRecord
<1>4. RangeAdd(b, i) = <<File(RangeNames[i], Part(b, RangeNames[i])), Meta(E)>>
  BY DEF RangeAdd, WriterAdd, R
<1> HIDE DEF E
<1> QED BY <1>1, <1>3, <1>4

LEMMA AddElems ==
  ASSUME NEW b \in SliceSizes, NEW k \in Nat, k <= Len(RangeNames), NEW j \in 1..(2 * k)
  PROVE  \/ \E n \in DiffNames : AddElem(b, j) = File(n, Part(b, n))
         \/ \E record \in Records : /\ AddElem(b, j) = Meta(record)
                                    /\ record.state = "publishing" /\ record.provenance = None
<1> DEFINE i == (j + 1) \div 2
<1>1. Len(RangeNames) \in Nat
  BY RangeSequence
<1>2. i \in 1..Len(RangeNames)
  BY <1>1
<1>3. AddElem(b, j) = RangeAdd(b, i)[1] \/ AddElem(b, j) = RangeAdd(b, i)[2]
  BY DEF AddElem
<1> HIDE DEF i
<1> QED BY <1>2, <1>3, RangeAddElems

LEMMA AddFiles ==
  ASSUME NEW b \in SliceSizes, NEW k \in Nat, k <= Len(RangeNames), NEW i \in 1..k
  PROVE  2 * i - 1 \in 1..(2 * k) /\ AddElem(b, 2 * i - 1) = File(RangeNames[i], Part(b, RangeNames[i]))
<1>1. Len(RangeNames) \in Nat
  BY RangeSequence
<1>2. 2 * i - 1 \in 1..(2 * k) /\ i \in 1..Len(RangeNames)
  BY <1>1
<1>3. ((2 * i - 1) + 1) \div 2 = i /\ (2 * i - 1) % 2 = 1
  BY <1>2
<1>4. AddElem(b, 2 * i - 1) = RangeAdd(b, i)[1]
  BY <1>3 DEF AddElem
<1> QED BY <1>2, <1>4, RangeAddElems

LEMMA LastRecordType ==
  ASSUME NEW b \in SliceSizes, NEW k \in 0..Len(RangeNames), Accepted(b, k)
  PROVE  /\ LastRecord(b, k) \in Records /\ LastRecord(b, k).provenance = None
         /\ LastRecord(b, k).state = "published" =>
              /\ k = Len(RangeNames)
              /\ \A n \in DiffNames : /\ LastRecord(b, k).first[n] = Part(b, n)
                                     /\ Part(b, n).bytes <= MaxFileBytes
<1>1. Len(RangeNames) \in Nat /\ Len(RangeNames) >= 1 /\ k \in Nat
  BY RangeSequence
<1> DEFINE R == RangeRecord(b, k)
           st == IF k = Len(RangeNames) THEN "published" ELSE "failed"
           L == [R EXCEPT !.state = st]
<1>2. /\ R \in Records /\ R.provenance = None
      /\ \A n \in Names : (\E i \in 1..k : RangeNames[i] = n) => R.first[n] = Part(b, n)
  BY <1>1, RangeRecordType
<1>3. LastRecord(b, k) = L
  BY DEF LastRecord
<1>4. st \in {"published", "failed"} /\ (st = "published" => k = Len(RangeNames))
  OBVIOUS
<1> HIDE DEF R, st
<1>5. /\ L \in Records /\ L.provenance = None /\ L.state = st /\ L.first = R.first
  BY <1>2, <1>4 DEF Records
<1> HIDE DEF L
<1>6. ASSUME k = Len(RangeNames), NEW n \in DiffNames PROVE Part(b, n).bytes <= MaxFileBytes
  <2>1. PICK i \in 1..k : RangeNames[i] = n
    BY <1>6, RangeSequence
  <2>2. WithinCaps(RangeRecord(b, i - 1), Part(b, n))
    BY <2>1 DEF Accepted
  <2> QED BY <2>2 DEF WithinCaps
<1>7. k = Len(RangeNames) => \A n \in DiffNames : R.first[n] = Part(b, n)
  BY <1>2, RangeSequence DEF Names
<1> QED BY <1>3, <1>4, <1>5, <1>6, <1>7

LEMMA WriterElems ==
  ASSUME NEW b \in SliceSizes, NEW k \in 0..Len(RangeNames), Accepted(b, k)
  PROVE  /\ WriterTodo(b, k) \in Seq(Publication) /\ Len(WriterTodo(b, k)) = 2 * k + 3
         /\ WriterTodo(b, k)[1] = Dir /\ WriterTodo(b, k)[2] = Meta(NewRecord)
         /\ \A j \in 1..(2 * k) : WriterTodo(b, k)[j + 2] = AddElem(b, j)
         /\ WriterTodo(b, k)[2 * k + 3] = Meta(LastRecord(b, k))
<1>k. k \in Nat /\ k <= Len(RangeNames) /\ Len(RangeNames) \in Nat /\ 2 * k \in Nat
  BY RangeSequence
<1> DEFINE m == 2 * k
           a == <<Dir, Meta(NewRecord)>>
           mid == [j \in 1..m |-> AddElem(b, j)]
           z == <<Meta(LastRecord(b, k))>>
           am == a \o mid
           todo == WriterTodo(b, k)
<1>1. todo = am \o z
  BY DEF WriterTodo, RunCreated, AddElem, LastRecord
<1>2. a \in Seq(Publication) /\ Len(a) = 2 /\ a[1] = Dir /\ a[2] = Meta(NewRecord)
  BY PublicationKinds, NewRecordType
<1>3. ASSUME NEW j \in 1..m PROVE AddElem(b, j) \in Publication
  <2>1. (\A n : Part(b, n) \in Contents) /\ DiffNames \subseteq Names
    BY RangeRecordType DEF Names
  <2> QED BY <1>k, <2>1, AddElems, PublicationKinds
<1>4. mid \in Seq(Publication) /\ Len(mid) = m /\ \A j \in 1..m : mid[j] = AddElem(b, j)
  BY <1>k, <1>3
<1>5. z \in Seq(Publication) /\ Len(z) = 1 /\ z[1] = Meta(LastRecord(b, k))
  BY LastRecordType, PublicationKinds
<1>m. m \in Nat
  BY <1>k
<1> HIDE DEF m, a, mid, z, todo
<1>s. a \in Seq(Publication) /\ mid \in Seq(Publication) /\ z \in Seq(Publication)
  BY <1>2, <1>4, <1>5
<1>6. /\ am \in Seq(Publication) /\ Len(am) = Len(a) + Len(mid)
      /\ \A i \in 1..Len(a) + Len(mid) : am[i] = IF i <= Len(a) THEN a[i] ELSE mid[i - Len(a)]
  BY <1>s, ConcatProperties
<1> HIDE DEF am
<1>7. /\ todo \in Seq(Publication) /\ Len(todo) = Len(am) + Len(z)
      /\ \A i \in 1..Len(am) + Len(z) : todo[i] = IF i <= Len(am) THEN am[i] ELSE z[i - Len(am)]
  <2>1. am \in Seq(Publication)
    BY <1>6
  <2> QED BY <1>s, <1>1, <2>1, ConcatProperties
<1>8. Len(am) = m + 2 /\ Len(todo) = m + 3
  BY <1>2, <1>4, <1>5, <1>6, <1>7, <1>m
<1>9. am[1] = Dir /\ am[2] = Meta(NewRecord)
  <2>1. 1 \in 1..Len(a) + Len(mid) /\ 2 \in 1..Len(a) + Len(mid) /\ 1 <= Len(a) /\ 2 <= Len(a)
    BY <1>2, <1>4, <1>m
  <2>2. am[1] = a[1] /\ am[2] = a[2]
    BY <1>6, <2>1, Zenon
  <2> QED BY <1>2, <2>2
<1>10. todo[1] = Dir /\ todo[2] = Meta(NewRecord)
  BY <1>5, <1>7, <1>8, <1>9, <1>m
<1>11. ASSUME NEW j \in 1..m PROVE todo[j + 2] = AddElem(b, j)
  <2>1. am[j + 2] = mid[j]
    BY <1>2, <1>4, <1>6, <1>m
  <2>2. todo[j + 2] = am[j + 2]
    BY <1>5, <1>7, <1>8, <1>m
  <2> QED BY <1>4, <2>1, <2>2
<1>12. todo[m + 3] = Meta(LastRecord(b, k))
  BY <1>5, <1>7, <1>8, <1>m
<1> QED BY <1>7, <1>8, <1>10, <1>11, <1>12 DEF m, todo

LEMMA NoApproval ==
  ASSUME NEW record, record.provenance = None, NEW V
  PROVE  ~Approves(record) /\ Vouches(record, V)
BY DEF Approves, Vouches

(* The stretch that writes a range, into a run that has no record.          *)
LEMMA WriterSound ==
  ASSUME NEW b \in SliceSizes, NEW k \in 0..Len(RangeNames), Accepted(b, k), b <= MaxSliceBytes,
         NEW F, NEW V, NEW A
  PROVE  TodoOK(WriterTodo(b, k), F, None, V, A) /\ AnswerOK(WriterTodo(b, k), None, F)
<1>k. k \in Nat /\ k <= Len(RangeNames) /\ Len(RangeNames) \in Nat /\ 2 * k \in Nat
  BY RangeSequence
<1> DEFINE todo == WriterTodo(b, k)
           m == 2 * k
           L == LastRecord(b, k)
           P(n) == Part(b, n)
<1>1. /\ todo \in Seq(Publication) /\ Len(todo) = m + 3
      /\ todo[1] = Dir /\ todo[2] = Meta(NewRecord)
      /\ \A j \in 1..m : todo[j + 2] = AddElem(b, j)
      /\ todo[m + 3] = Meta(L)
  BY WriterElems
<1>2. /\ L \in Records /\ L.provenance = None
      /\ L.state = "published" => /\ k = Len(RangeNames)
                                  /\ \A n \in DiffNames : /\ L.first[n] = P(n)
                                                         /\ P(n).bytes <= MaxFileBytes
  BY LastRecordType
<1>3. (\A n : P(n) \in Contents) /\ None \notin Contents /\ DiffNames \subseteq Names
  BY RangeRecordType, NoneApart DEF Names
<1>4. \A j \in 1..m : \/ \E n \in DiffNames : AddElem(b, j) = File(n, P(n))
                      \/ \E record \in Records : /\ AddElem(b, j) = Meta(record)
                                                 /\ record.state = "publishing"
                                                 /\ record.provenance = None
  BY <1>k, AddElems
<1>f. \A i \in 1..k : 2 * i - 1 \in 1..m /\ AddElem(b, 2 * i - 1) = File(RangeNames[i], P(RangeNames[i]))
  BY <1>k, AddFiles
<1>m. m \in Nat
  BY <1>k
<1>n. NewRecord \in Records /\ NewRecord.state = "publishing" /\ NewRecord.provenance = None
  BY NewRecordType
<1>s. \A n \in Slices : P(n).bytes <= MaxDiffBytes
  <2>1. b \in Nat /\ MaxSliceBytes \in Nat /\ MaxDiffBytes \in Nat /\ MaxSliceBytes <= MaxDiffBytes
    BY RangeBytes, StoreAssumption
  <2>2. \A n \in Slices : P(n).bytes = b
    BY StoreAssumption DEF Part, Plain
  <2> QED BY <2>1, <2>2
<1> HIDE DEF todo, L, P
<1>5. ASSUME NEW i \in 1..Len(todo)
      PROVE  \/ todo[i] = Dir
             \/ \E n \in DiffNames : todo[i] = File(n, P(n))
             \/ \E record \in Records : /\ todo[i] = Meta(record)
                                        /\ record.state = "publishing" /\ record.provenance = None
             \/ i = m + 3 /\ todo[i] = Meta(L)
  <2> HIDE DEF m
  <2>1. CASE i \in {1, 2, m + 3}
    BY <1>1, <1>n, <2>1
  <2>2. CASE i \notin {1, 2, m + 3}
    <3>1. i - 2 \in 1..m /\ (i - 2) + 2 = i
      BY <1>1, <1>m, <2>2
    <3>2. todo[i] = AddElem(b, i - 2)
      BY <1>1, <3>1
    <3> QED BY <1>4, <3>1, <3>2
  <2> QED BY <2>1, <2>2
<1>6. ASSUME NEW i \in 1..Len(todo), todo[i].kind = "meta"
      PROVE  /\ todo[i].record.provenance = None
             /\ todo[i].record.state = "published" => i = m + 3 /\ todo[i].record = L
  BY <1>2, <1>3, <1>5, <1>6, PublicationKinds
<1>7. ASSUME NEW i \in 1..Len(todo), todo[i].kind = "file"
      PROVE  todo[i].name \in DiffNames /\ todo[i].content = P(todo[i].name)
  BY <1>2, <1>3, <1>5, <1>7, PublicationKinds
<1>8. L.state = "published" => Lists(L)
  BY <1>2, <1>3, <1>s DEF Lists
<1>9. ASSUME NEW i \in 1..Len(todo), todo[i].kind = "meta" PROVE MetaOK(todo[i].record, V, A)
  BY <1>6, <1>8, <1>9, NoApproval DEF MetaOK
<1>10. ASSUME NEW i \in 1..Len(todo), todo[i].kind = "file" PROVE FileOK(todo[i], None, A)
  BY <1>7, <1>10, NoneApart DEF FileOK
<1>11. ASSUME NEW i \in 1..Len(todo), todo[i].kind = "meta", todo[i].record.state = "published"
       PROVE  /\ i = m + 3 /\ k = Len(RangeNames)
              /\ \A n \in DiffNames : todo[i].record.first[n] = P(n)
  BY <1>2, <1>6, <1>11
<1>12. ASSUME k = Len(RangeNames), NEW n \in DiffNames PROVE Written(todo, n, m + 3)
  <2>1. PICK i \in 1..k : RangeNames[i] = n
    BY <1>12, RangeSequence
  <2>2. 2 * i - 1 \in 1..m /\ AddElem(b, 2 * i - 1) = File(n, P(n))
    BY <1>f, <2>1
  <2> DEFINE j == 2 * i - 1
  <2>3. j \in 1..m /\ todo[j + 2] = File(n, P(n))
    BY <1>1, <2>2
  <2> HIDE DEF j, m
  <2>4. j + 2 \in 1..((m + 3) - 1)
    BY <1>m, <2>3
  <2>5. todo[j + 2].kind = "file" /\ todo[j + 2].name = n
    BY <1>3, <2>3, PublicationKinds
  <2> QED BY <2>4, <2>5 DEF Written
<1>13. todo # <<>>
  <2>1. Len(todo) # 0
    BY <1>1, <1>m
  <2> QED BY <1>1, <2>1
<1> HIDE DEF m
<1>14. TodoOK(todo, F, None, V, A)
  BY <1>1, <1>7, <1>9, <1>10, <1>11, <1>12, <1>13 DEF TodoOK
<1>15. AnswerOK(todo, None, F)
  BY StoreAssumption DEF AnswerOK
<1> QED BY <1>14, <1>15 DEF todo

-----------------------------------------------------------------------------
(* The stretches of the phases and of the catch                            *)

LEMMA SequenceOf ==
  ASSUME NEW T, NEW todo \in Seq(T), T \subseteq Publication
  PROVE  todo \in Seq(Publication) /\ \A i \in 1..Len(todo) : todo[i] \in T
OBVIOUS

(* What an accepted phase publishes over the record M.                      *)
AcceptTodo(M, n, c, proven) ==
  StoreAdd(M, n, c)
    \o (IF proven THEN <<Meta([WithEntry(M, n, c) EXCEPT !.provenance = Provenance("accepted", c)])>>
        ELSE <<>>)

AcceptSet(M, n, c, proven) ==
  {Meta(M), File(n, c), Meta(WithEntry(M, n, c))}
    \cup (IF proven THEN {Meta([WithEntry(M, n, c) EXCEPT !.provenance = Provenance("accepted", c)])}
          ELSE {})

LEMMA AcceptRecord ==
  ASSUME NEW E \in Records, NEW c \in Contents, c.gen \in Documents \ Malformed,
         NEW V, c \in V, NEW A, A # "rejected"
  PROVE  Succeeds([E EXCEPT !.provenance = Provenance("accepted", c)], E, V, A)
<1> DEFINE q == Provenance("accepted", c)
<1>1. c # None
  BY NoneApart
<1>2. q = [outcome |-> "accepted", gen |-> c.gen, bytes |-> c.bytes]
  BY <1>1 DEF Provenance
<1>3. c.bytes \in Nat /\ c = [gen |-> c.gen, bytes |-> c.bytes]
  BY DEF Contents
<1> HIDE DEF q
<1>4. /\ q \in ProvenanceType /\ q.outcome = "accepted"
      /\ [gen |-> q.gen, bytes |-> q.bytes] \in V /\ q.gen \notin Malformed
  BY <1>2, <1>3 DEF ProvenanceType
<1>5. Succeeds([E EXCEPT !.provenance = q], E, V, A)
  BY <1>4, SucceedsProvenance
<1> QED BY <1>5 DEF q

LEMMA RejectRecord ==
  ASSUME NEW M \in Records, NEW outcome \in {"rejected", "unavailable"}, NEW V, NEW A
  PROVE  /\ Succeeds([M EXCEPT !.provenance = Provenance(outcome, None)], M, V, A)
         /\ ~Approves([M EXCEPT !.provenance = Provenance(outcome, None)])
<1> DEFINE q == Provenance(outcome, None)
<1>1. q \in ProvenanceType /\ q.outcome # "accepted"
  BY DEF Provenance, ProvenanceType
<1> HIDE DEF q
<1>2. Succeeds([M EXCEPT !.provenance = q], M, V, A)
  BY <1>1, SucceedsProvenance
<1>3. [M EXCEPT !.provenance = q].provenance = q
  BY RecordType
<1> QED BY <1>1, <1>2, <1>3 DEF Approves, q

LEMMA Optional ==
  ASSUME NEW T, NEW B, NEW e, B => e \in T
  PROVE  (IF B THEN <<e>> ELSE <<>>) \in Seq(T) /\ Len(IF B THEN <<e>> ELSE <<>>) \in Nat
<1>1. CASE B
  BY <1>1
<1>2. CASE ~B
  BY <1>2
<1> QED BY <1>1, <1>2

LEMMA AcceptElems ==
  ASSUME NEW M \in Records, NEW n \in Names, NEW c \in Contents, NEW proven \in BOOLEAN
  PROVE  /\ AcceptTodo(M, n, c, proven) \in Seq(AcceptSet(M, n, c, proven))
         /\ \E i \in 1..Len(AcceptTodo(M, n, c, proven)) : AcceptTodo(M, n, c, proven)[i] = File(n, c)
<1> DEFINE E == WithEntry(M, n, c)
           Q == [WithEntry(M, n, c) EXCEPT !.provenance = Provenance("accepted", c)]
           T == AcceptSet(M, n, c, proven)
           x == IF M.state = "publishing" THEN <<Meta(M)>> ELSE <<>>
           y == <<File(n, c), Meta(E)>>
           z == IF proven THEN <<Meta(Q)>> ELSE <<>>
           xy == x \o y
           todo == AcceptTodo(M, n, c, proven)
<1>1. todo = xy \o z
  BY DEF AcceptTodo, StoreAdd, WriterAdd
<1>e. /\ Meta(M) \in T /\ File(n, c) \in T /\ Meta(E) \in T
      /\ proven => Meta(Q) \in T
  BY DEF AcceptSet
<1> HIDE DEF E, Q, T
<1>2. x \in Seq(T) /\ Len(x) \in Nat
  BY <1>e, Optional
<1>3. y \in Seq(T) /\ Len(y) = 2 /\ y[1] = File(n, c)
  BY <1>e
<1>4. z \in Seq(T) /\ Len(z) \in Nat
  BY <1>e, Optional
<1> HIDE DEF T, x, y, z, todo
<1>s. x \in Seq(T) /\ y \in Seq(T) /\ z \in Seq(T)
  BY <1>2, <1>3, <1>4
<1>5. /\ xy \in Seq(T) /\ Len(xy) = Len(x) + Len(y)
      /\ \A i \in 1..Len(x) + Len(y) : xy[i] = IF i <= Len(x) THEN x[i] ELSE y[i - Len(x)]
  BY <1>s, ConcatProperties
<1> HIDE DEF xy
<1>6. /\ todo \in Seq(T) /\ Len(todo) = Len(xy) + Len(z)
      /\ \A i \in 1..Len(xy) + Len(z) : todo[i] = IF i <= Len(xy) THEN xy[i] ELSE z[i - Len(xy)]
  <2>1. xy \in Seq(T)
    BY <1>5
  <2> QED BY <1>s, <1>1, <2>1, ConcatProperties
<1>7. Len(x) + 1 \in 1..Len(todo) /\ todo[Len(x) + 1] = y[1]
  <2>1. xy[Len(x) + 1] = y[1]
    BY <1>2, <1>3, <1>5
  <2>2. todo[Len(x) + 1] = xy[Len(x) + 1]
    BY <1>2, <1>3, <1>4, <1>5, <1>6
  <2> QED BY <1>2, <1>3, <1>4, <1>5, <1>6, <2>1, <2>2
<1> QED BY <1>3, <1>6, <1>7 DEF T, todo

(* The output c of a phase, added to the run as n: when it is vouched for,  *)
(* and how it is answered.                                                  *)
Acceptable(M, V, V2, A, n, c, proven, answer) ==
  /\ M # None /\ V \subseteq V2 /\ n \in PhaseNames /\ c \in Contents /\ proven \in BOOLEAN
  /\ n = "finalize" => A \notin {"rejected", "invalid"}
  /\ proven => n = "finalize" /\ c \in V2 /\ c.gen \in Documents \ Malformed
  /\ answer # "rejected"
  /\ answer = "invalid" => n = "finalize" /\ c.gen \in Malformed

LEMMA AcceptSound ==
  ASSUME NEW w, NEW D, NEW F, NEW M, NEW S, NEW V, NEW A, RunOK(w, D, F, M, S, V, A),
         NEW V2, NEW n, NEW c, NEW proven, NEW answer,
         Acceptable(M, V, V2, A, n, c, proven, answer)
  PROVE  /\ TodoOK(AcceptTodo(M, n, c, proven), F, M, V2, A)
         /\ AnswerOK(AcceptTodo(M, n, c, proven), answer, F)
<1>h. /\ M # None /\ V \subseteq V2 /\ n \in PhaseNames /\ c \in Contents /\ proven \in BOOLEAN
      /\ n = "finalize" => A \notin {"rejected", "invalid"}
      /\ proven => n = "finalize" /\ c \in V2 /\ c.gen \in Documents \ Malformed
      /\ answer # "rejected"
      /\ answer = "invalid" => n = "finalize" /\ c.gen \in Malformed
  BY DEF Acceptable
<1>1. /\ M \in Records /\ Vouches(M, V2) /\ (A = "rejected" => ~Approves(M))
  BY <1>h, <1>h DEF RunOK, Vouches
<1>2. n \in Names /\ n \notin DiffNames
  BY <1>h, StoreAssumption DEF Names
<1> DEFINE E == WithEntry(M, n, c)
           Q == [WithEntry(M, n, c) EXCEPT !.provenance = Provenance("accepted", c)]
           T == AcceptSet(M, n, c, proven)
           todo == AcceptTodo(M, n, c, proven)
<1>3. Succeeds(M, M, V2, A) /\ Succeeds(E, M, V2, A)
  BY <1>h, <1>1, SucceedsSelf, SucceedsEntry
<1>4. ASSUME proven PROVE Succeeds(Q, M, V2, A)
  <2>1. E \in Records
    BY <1>h, <1>3 DEF Succeeds
  <2>2. Succeeds([E EXCEPT !.provenance = Provenance("accepted", c)], E, V2, A)
    BY <1>h, <1>4, <2>1, AcceptRecord
  <2> QED BY <1>h, <1>3, <2>2, SucceedsTransitive
<1>5. /\ todo \in Seq(T)
      /\ \E i \in 1..Len(todo) : todo[i] = File(n, c)
  <2>1. n \in Names /\ M \in Records
    BY <1>h, <1>1, <1>2
  <2> QED BY <1>h, <2>1, AcceptElems
<1>t. \A p \in T : p = Meta(M) \/ p = Meta(E) \/ p = File(n, c) \/ (proven /\ p = Meta(Q))
  BY DEF AcceptSet
<1> HIDE DEF E, Q, T, todo
<1>6. /\ Meta(M) \in Publication /\ Meta(M).kind = "meta" /\ Meta(M).record = M
      /\ Meta(E) \in Publication /\ Meta(E).kind = "meta" /\ Meta(E).record = E
      /\ File(n, c) \in Publication /\ File(n, c).kind = "file"
      /\ File(n, c).name = n /\ File(n, c).content = c
      /\ proven => Meta(Q) \in Publication /\ Meta(Q).kind = "meta" /\ Meta(Q).record = Q
  BY <1>h, <1>1, <1>2, <1>3, <1>4, PublicationKinds DEF Succeeds
<1>7. todo \in Seq(Publication) /\ \A i \in 1..Len(todo) : todo[i] \in T
  <2>1. T \subseteq Publication
    BY <1>h, <1>6, <1>t
  <2>2. todo \in Seq(T)
    BY <1>h, <1>5
  <2> HIDE DEF T
  <2> QED BY <1>h, <2>1, <2>2, SequenceOf
<1>8. todo # <<>>
  BY <1>h, <1>5, <1>7
<1>9. ASSUME NEW i \in 1..Len(todo)
      PROVE  /\ todo[i].kind = "meta" => Succeeds(todo[i].record, M, V2, A)
             /\ todo[i].kind = "file" => todo[i].name = n /\ todo[i].content = c
  <2>1. \/ todo[i] = Meta(M) \/ todo[i] = Meta(E) \/ todo[i] = File(n, c)
        \/ proven /\ todo[i] = Meta(Q)
    BY <1>h, <1>7, <1>t
  <2> QED BY <1>h, <1>3, <1>4, <1>6, <2>1
<1>10. TodoOK(todo, F, M, V2, A)
  BY <1>h, <1>2, <1>7, <1>8, <1>9, SucceedsTodo
<1>11. AnswerOK(todo, answer, F)
  BY <1>h, <1>5, <1>6, <1>9 DEF AnswerOK
<1> QED BY <1>h, <1>10, <1>11 DEF todo

(* A stretch of one record.                                                 *)
LEMMA OneRecord ==
  ASSUME NEW R \in Records, NEW F, NEW M, NEW V, NEW A, Vouches(R, V),
         A = "rejected" => ~Approves(R),
         R.state = "published" => Lists(R) /\ \A n \in DiffNames : F[n] = R.first[n],
         NEW answer, answer = "rejected" => ~Approves(R), answer # "invalid"
  PROVE  TodoOK(<<Meta(R)>>, F, M, V, A) /\ AnswerOK(<<Meta(R)>>, answer, F)
<1> DEFINE todo == <<Meta(R)>>
<1>1. Meta(R) \in Publication /\ Meta(R).kind = "meta" /\ Meta(R).record = R
  BY PublicationKinds
<1>2. todo \in Seq(Publication) /\ Len(todo) = 1 /\ todo # <<>> /\ \A i \in 1..1 : todo[i] = Meta(R)
  BY <1>1
<1>3. MetaOK(R, V, A)
  BY DEF MetaOK
<1> HIDE DEF todo
<1>4. TodoOK(todo, F, M, V, A)
  BY <1>1, <1>2, <1>3 DEF TodoOK
<1>5. AnswerOK(todo, answer, F)
  BY <1>1, <1>2 DEF AnswerOK
<1> QED BY <1>4, <1>5 DEF todo

-----------------------------------------------------------------------------
(* Steps of one session                                                    *)

(* What the next state must satisfy, with the primes written out.           *)
RunNext(r) ==
  RunOK(owner'[r], dir'[r], files'[r], meta'[r], summary'[r], vouched'[r], answered'[r])

OpNext(s, o) ==
  /\ Shape(o)
  /\ o.run # None => /\ owner'[o.run] = s
                     /\ Work(o, files'[o.run], meta'[o.run], vouched'[o.run], answered'[o.run])

TypesNext ==
  /\ owner' \in [Runs -> Sessions \cup {None}]
  /\ DOMAIN dir' = Runs /\ DOMAIN files' = Runs /\ DOMAIN meta' = Runs /\ DOMAIN summary' = Runs
  /\ DOMAIN vouched' = Runs /\ DOMAIN answered' = Runs /\ DOMAIN op' = Sessions

SameRun(x) ==
  /\ owner'[x] = owner[x] /\ dir'[x] = dir[x] /\ files'[x] = files[x] /\ meta'[x] = meta[x]
  /\ summary'[x] = summary[x] /\ vouched'[x] = vouched[x] /\ answered'[x] = answered[x]

LEMMA NextInv ==
  ASSUME TypesNext, \A r \in Runs : RunNext(r), \A s \in Sessions : OpNext(s, op'[s])
  PROVE  ReviewInv'
BY DEF ReviewInv, TypesNext, RunNext, OpNext, StateTypes, RunNow, OpOK

LEMMA InvNow ==
  ASSUME ReviewInv
  PROVE  /\ StateTypes
         /\ \A r \in Runs : RunOK(owner[r], dir[r], files[r], meta[r], summary[r], vouched[r], answered[r])
         /\ \A s \in Sessions :
              /\ Shape(op[s])
              /\ op[s].run # None =>
                   /\ op[s].run \in Runs /\ owner[op[s].run] = s
                   /\ Work(op[s], files[op[s].run], meta[op[s].run], vouched[op[s].run],
                           answered[op[s].run])
BY DEF ReviewInv, RunNow, OpOK, Shape

LEMMA OthersNext ==
  ASSUME ReviewInv, NEW s \in Sessions, NEW r, r \in Runs => owner[r] \in {s, None},
         \A x \in Runs : x # r => SameRun(x),
         NEW q \in Sessions, q # s
  PROVE  OpNext(q, op[q])
<1> DEFINE o == op[q]
           x == o.run
<1>1. /\ Shape(o)
      /\ x # None => /\ x \in Runs /\ owner[x] = q
                     /\ Work(o, files[x], meta[x], vouched[x], answered[x])
  BY InvNow
<1>2. q # None
  BY StoreAssumption
<1>3. x # None => x # r
  BY <1>1, <1>2
<1>4. x # None => /\ owner'[x] = q
                  /\ files'[x] = files[x] /\ meta'[x] = meta[x]
                  /\ vouched'[x] = vouched[x] /\ answered'[x] = answered[x]
  BY <1>1, <1>3 DEF SameRun
<1> HIDE DEF o
<1>5. OpNext(q, o)
  BY <1>1, <1>4 DEF OpNext
<1> QED BY <1>5 DEF o

(* A step of s that changes at most the run r, which s owns or nobody does. *)
LEMMA SessionStep ==
  ASSUME ReviewInv, NEW s \in Sessions, NEW r, r \in Runs => owner[r] \in {s, None},
         \A x \in Runs : x # r => SameRun(x), TypesNext,
         NEW o, op' = [op EXCEPT ![s] = o],
         r \in Runs => RunNext(r), OpNext(s, o)
  PROVE  ReviewInv'
<1>1. ASSUME NEW x \in Runs PROVE RunNext(x)
  <2>1. CASE x = r
    BY <2>1
  <2>2. CASE x # r
    <3>1. RunOK(owner[x], dir[x], files[x], meta[x], summary[x], vouched[x], answered[x])
      BY InvNow
    <3>2. SameRun(x)
      BY <2>2
    <3> QED BY <3>1, <3>2 DEF RunNext, SameRun
  <2> QED BY <2>1, <2>2
<1>2. ASSUME NEW q \in Sessions PROVE OpNext(q, op'[q])
  <2>1. DOMAIN op = Sessions
    BY DEF ReviewInv, StateTypes
  <2>2. CASE q = s
    BY <2>1, <2>2
  <2>3. CASE q # s
    <3>1. op'[q] = op[q]
      BY <2>1, <2>3
    <3>2. OpNext(q, op[q])
      BY <2>3, OthersNext
    <3> QED BY <3>1, <3>2
  <2> QED BY <2>2, <2>3
<1> QED BY <1>1, <1>2, NextInv

LEMMA IdleOp ==
  /\ Idle.run = None /\ Idle.pc = "idle" /\ Idle.answer = None /\ Idle.guarded = FALSE
  /\ \A s : OpNext(s, Idle)
<1>1. Idle.run = None /\ Idle.pc = "idle" /\ Idle.answer = None /\ Idle.guarded = FALSE
  BY DEF Idle
<1>2. DOMAIN Idle = OpFields
  BY DEF Idle, OpFields
<1>3. Shape(Idle)
  BY <1>1, <1>2 DEF Shape, PersistPcs
<1> QED BY <1>1, <1>3 DEF OpNext

(* A step that answers the operation.                                       *)
LEMMA ReturnStep ==
  ASSUME ReviewInv, NEW s \in Sessions, NEW r, r \in Runs => owner[r] \in {s, None},
         \A x \in Runs : x # r => SameRun(x), TypesNext,
         op' = [op EXCEPT ![s] = Idle], r \in Runs => RunNext(r)
  PROVE  ReviewInv'
<1> DEFINE o == Idle
<1>1. op' = [op EXCEPT ![s] = o] /\ OpNext(s, o)
  BY IdleOp
<1> HIDE DEF o
<1> QED BY <1>1, SessionStep

(* A step that changes no run.                                              *)
LEMMA LocalStep ==
  ASSUME ReviewInv, NEW s \in Sessions,
         UNCHANGED <<owner, dir, files, meta, summary, vouched, answered>>,
         NEW o, op' = [op EXCEPT ![s] = o], OpNext(s, o)
  PROVE  ReviewInv'
<1>1. TypesNext
  BY DEF ReviewInv, StateTypes, TypesNext
<1>2. \A x \in Runs : x # None => SameRun(x)
  BY DEF SameRun
<1>3. None \notin Runs
  BY StoreAssumption
<1> QED BY <1>1, <1>2, <1>3, SessionStep

(* The operations a stretch, a phase and a persist are.                     *)
LEMMA ChangedOp ==
  ASSUME NEW o, DOMAIN o = OpFields, NEW f \in OpFields, NEW v
  PROVE  /\ DOMAIN [o EXCEPT ![f] = v] = OpFields
         /\ [o EXCEPT ![f] = v][f] = v
         /\ \A g \in OpFields \ {f} : [o EXCEPT ![f] = v][g] = o[g]
OBVIOUS

Stretch(o, r, todo, answer) ==
  /\ Shape(o) /\ o.pc = "sync" /\ o.run = r /\ o.todo = todo /\ o.answer = answer
  /\ o.guarded = FALSE

LEMMA SyncOp ==
  ASSUME NEW s, NEW r \in Runs, NEW todo
  PROVE  Stretch(Sync(s, r, todo), r, todo, None)
<1> DEFINE a == [Idle EXCEPT !.pc = "sync"]
           b == [a EXCEPT !.run = r]
           c == [b EXCEPT !.todo = todo]
<1>1. DOMAIN Idle = OpFields
  BY DEF Idle, OpFields
<1>f. \A f \in {"pc", "run", "todo", "answer", "guarded"} : f \in OpFields
  BY DEF OpFields
<1>3. DOMAIN a = OpFields /\ a.pc = "sync" /\ a.answer = Idle.answer /\ a.guarded = Idle.guarded
  BY <1>1, <1>f
<1>4. Sync(s, r, todo) = c
  BY DEF Sync
<1> HIDE DEF a
<1>5. /\ DOMAIN b = OpFields /\ b.pc = "sync" /\ b.run = r
      /\ b.answer = Idle.answer /\ b.guarded = Idle.guarded
  BY <1>3, <1>f
<1> HIDE DEF b
<1>6. /\ DOMAIN c = OpFields /\ c.pc = "sync" /\ c.run = r /\ c.todo = todo
      /\ c.answer = Idle.answer /\ c.guarded = Idle.guarded
  BY <1>5, <1>f
<1> HIDE DEF c
<1>7. r # None
  BY StoreAssumption
<1>8. Shape(c)
  BY <1>6, <1>7 DEF Shape
<1> QED BY <1>4, <1>6, <1>8, IdleOp DEF Stretch

LEMMA StretchChanged ==
  ASSUME NEW o, NEW r \in Runs, NEW todo, NEW answer, Stretch(o, r, todo, answer), NEW v
  PROVE  /\ Stretch([o EXCEPT !.answer = v], r, todo, v)
         /\ Stretch([o EXCEPT !.phase = v], r, todo, answer)
<1>1. DOMAIN o = OpFields /\ \A f \in {"pc", "run", "todo", "answer", "guarded", "phase"} : f \in OpFields
  BY DEF Stretch, Shape, OpFields
<1>2. r # None
  BY StoreAssumption
<1> DEFINE a == [o EXCEPT !.answer = v]
           p == [o EXCEPT !.phase = v]
<1>3. /\ DOMAIN a = OpFields /\ a.pc = o.pc /\ a.run = o.run /\ a.todo = o.todo /\ a.answer = v
      /\ a.guarded = o.guarded
  BY <1>1
<1>4. /\ DOMAIN p = OpFields /\ p.pc = o.pc /\ p.run = o.run /\ p.todo = o.todo
      /\ p.answer = o.answer /\ p.guarded = o.guarded
  BY <1>1
<1> HIDE DEF a, p
<1>5. o.pc = "sync" /\ o.run = r /\ o.todo = todo /\ o.answer = answer /\ o.guarded = FALSE
  BY DEF Stretch
<1>6. Shape(a) /\ Shape(p)
  BY <1>2, <1>3, <1>4, <1>5 DEF Shape
<1>7. Stretch(a, r, todo, v)
  BY <1>3, <1>5, <1>6 DEF Stretch
<1>8. Stretch(p, r, todo, answer)
  BY <1>4, <1>5, <1>6 DEF Stretch
<1> QED BY <1>7, <1>8 DEF a, p

LEMMA SyncNow ==
  ASSUME ReviewInv, NEW s \in Sessions, op[s].pc = "sync",
         NEW r, r = op[s].run, NEW todo, todo = op[s].todo
  PROVE  /\ r \in Runs /\ owner[r] = s /\ s # None /\ DOMAIN op[s] = OpFields
         /\ RunOK(owner[r], dir[r], files[r], meta[r], summary[r], vouched[r], answered[r])
         /\ TodoOK(todo, files[r], meta[r], vouched[r], answered[r])
         /\ AnswerOK(todo, op[s].answer, files[r])
         /\ op[s].guarded => meta[r] # None
         /\ todo \in Seq(Publication) /\ Len(todo) \in Nat /\ Len(todo) >= 1
         /\ Head(todo) = todo[1] /\ todo[1] \in Publication
<1>1. Shape(op[s]) /\ r # None
  BY InvNow DEF Shape
<1>2. /\ r \in Runs /\ owner[r] = s /\ Work(op[s], files[r], meta[r], vouched[r], answered[r])
      /\ DOMAIN op[s] = OpFields
  BY <1>1, InvNow DEF Shape
<1>3. /\ TodoOK(todo, files[r], meta[r], vouched[r], answered[r])
      /\ AnswerOK(todo, op[s].answer, files[r]) /\ (op[s].guarded => meta[r] # None)
  BY <1>2 DEF Work
<1>4. todo \in Seq(Publication) /\ todo # <<>>
  BY <1>3 DEF TodoOK
<1>5. Len(todo) \in Nat /\ Len(todo) >= 1 /\ Head(todo) = todo[1] /\ todo[1] \in Publication
  BY <1>4
<1>6. s # None
  BY StoreAssumption
<1> QED BY <1>2, <1>3, <1>4, <1>5, <1>6, InvNow

LEMMA PublishFrame ==
  ASSUME ReviewInv, NEW r \in Runs, NEW p \in Publication, Publish(r, p)
  PROVE  /\ DOMAIN dir' = Runs /\ DOMAIN files' = Runs /\ DOMAIN meta' = Runs
         /\ dir'[r] = TRUE /\ files'[r] = FilesAfter(files[r], p) /\ meta'[r] = MetaAfter(meta[r], p)
         /\ \A x \in Runs : x # r => dir'[x] = dir[x] /\ files'[x] = files[x] /\ meta'[x] = meta[x]
<1>1. DOMAIN dir = Runs /\ DOMAIN files = Runs /\ DOMAIN meta = Runs
  BY DEF ReviewInv, StateTypes
<1>2. /\ dir' = [dir EXCEPT ![r] = TRUE]
      /\ files' = IF p.kind = "file" THEN [files EXCEPT ![r][p.name] = p.content] ELSE files
      /\ meta' = IF p.kind = "meta" THEN [meta EXCEPT ![r] = p.record] ELSE meta
  BY DEF Publish
<1>3. DOMAIN dir' = Runs /\ dir'[r] = TRUE /\ \A x \in Runs : x # r => dir'[x] = dir[x]
  BY <1>1, <1>2
<1>4. /\ DOMAIN files' = Runs /\ files'[r] = FilesAfter(files[r], p)
      /\ \A x \in Runs : x # r => files'[x] = files[x]
  BY <1>1, <1>2 DEF FilesAfter
<1>5. /\ DOMAIN meta' = Runs /\ meta'[r] = MetaAfter(meta[r], p)
      /\ \A x \in Runs : x # r => meta'[x] = meta[x]
  BY <1>1, <1>2 DEF MetaAfter
<1> QED BY <1>3, <1>4, <1>5

(* The run after a publication, with the answer still to come or given.     *)
LEMMA PublishStep ==
  ASSUME ReviewInv, NEW s \in Sessions, op[s].pc = "sync",
         NEW r, r = op[s].run, NEW todo, todo = op[s].todo,
         Publish(r, Head(todo)), UNCHANGED <<owner, summary, vouched>>,
         DOMAIN answered' = Runs, \A x \in Runs : x # r => answered'[x] = answered[x],
         answered'[r] = answered[r] \/ (Len(todo) = 1 /\ answered'[r] = op[s].answer)
  PROVE  /\ r \in Runs /\ owner[r] = s /\ \A x \in Runs : x # r => SameRun(x)
         /\ RunNext(r) /\ (DOMAIN op' = Sessions => TypesNext)
<1>1. /\ r \in Runs /\ owner[r] = s /\ s # None
      /\ RunOK(owner[r], dir[r], files[r], meta[r], summary[r], vouched[r], answered[r])
      /\ TodoOK(todo, files[r], meta[r], vouched[r], answered[r])
      /\ AnswerOK(todo, op[s].answer, files[r])
      /\ Head(todo) = todo[1] /\ todo[1] \in Publication
  BY SyncNow
<1> DEFINE p == todo[1]
<1>2. Publish(r, p) /\ p \in Publication
  BY <1>1
<1>3. /\ DOMAIN dir' = Runs /\ DOMAIN files' = Runs /\ DOMAIN meta' = Runs
      /\ dir'[r] = TRUE /\ files'[r] = FilesAfter(files[r], p) /\ meta'[r] = MetaAfter(meta[r], p)
      /\ \A x \in Runs : x # r => dir'[x] = dir[x] /\ files'[x] = files[x] /\ meta'[x] = meta[x]
  BY <1>1, <1>2, PublishFrame
<1>4. /\ RunOK(owner[r], TRUE, FilesAfter(files[r], p), MetaAfter(meta[r], p), summary[r],
               vouched[r], answered[r])
      /\ Len(todo) = 1 =>
           RunOK(owner[r], TRUE, FilesAfter(files[r], p), MetaAfter(meta[r], p), summary[r],
                 vouched[r], op[s].answer)
  BY <1>1, PublishRun
<1> HIDE DEF p
<1>5. RunNext(r)
  BY <1>3, <1>4 DEF RunNext
<1>6. \A x \in Runs : x # r => SameRun(x)
  BY <1>3 DEF SameRun
<1>7. DOMAIN op' = Sessions => TypesNext
  BY <1>3 DEF TypesNext, ReviewInv, StateTypes
<1> QED BY <1>1, <1>5, <1>6, <1>7

LEMMA OpDomain ==
  ASSUME ReviewInv, NEW s \in Sessions, NEW o, op' = [op EXCEPT ![s] = o]
  PROVE  DOMAIN op' = Sessions
BY DEF ReviewInv, StateTypes

LEMMA PublishNextKeeps ==
  ASSUME ReviewInv, NEW s \in Sessions, PublishNext(s)
  PROVE  ReviewInv'
<1> SUFFICES ASSUME NEW o, o = op[s], NEW r, r = op[s].run, NEW todo, todo = op[s].todo
             PROVE  ReviewInv'
  OBVIOUS
<1>1. op[s].pc = "sync" /\ Publish(r, Head(todo)) /\ UNCHANGED <<owner, summary, vouched>>
  BY DEF PublishNext, projectVars
<1>2. /\ r \in Runs /\ owner[r] = s /\ DOMAIN o = OpFields
      /\ RunOK(owner[r], dir[r], files[r], meta[r], summary[r], vouched[r], answered[r])
      /\ TodoOK(todo, files[r], meta[r], vouched[r], answered[r])
      /\ AnswerOK(todo, o.answer, files[r])
      /\ o.guarded => meta[r] # None
      /\ todo \in Seq(Publication) /\ Len(todo) \in Nat /\ Len(todo) >= 1
      /\ Head(todo) = todo[1] /\ todo[1] \in Publication
  BY <1>1, SyncNow
<1>3. DOMAIN answered = Runs
  BY DEF ReviewInv, StateTypes
<1>4. CASE Len(todo) > 1
  <2> DEFINE g == o.guarded \/ (o.phase = "materialize" /\ Head(todo).kind = "meta")
             n1 == [o EXCEPT !.todo = Tail(todo)]
             n == [n1 EXCEPT !.guarded = g]
             p == todo[1]
  <2>1. op' = [op EXCEPT ![s] = n] /\ UNCHANGED answered
    BY <1>4 DEF PublishNext, Goto
  <2>2. /\ \A x \in Runs : x # r => SameRun(x)
        /\ RunNext(r) /\ TypesNext
    <3> HIDE DEF n
    <3>1. DOMAIN op' = Sessions
      BY <2>1, OpDomain
    <3>2. /\ DOMAIN answered' = Runs /\ \A x \in Runs : x # r => answered'[x] = answered[x]
          /\ answered'[r] = answered[r] \/ (Len(todo) = 1 /\ answered'[r] = op[s].answer)
      BY <1>3, <2>1
    <3> QED BY <1>1, <3>1, <3>2, PublishStep
  <2>3. /\ files'[r] = FilesAfter(files[r], p) /\ meta'[r] = MetaAfter(meta[r], p)
    <3>1. Publish(r, p) /\ p \in Publication /\ r \in Runs
      BY <1>1, <1>2
    <3> HIDE DEF p
    <3> QED BY <3>1, PublishFrame
  <2>4. g => meta'[r] # None
    BY <1>2, <2>3, PublicationKinds, NoneApart DEF MetaAfter
  <2>5. files[r] \in [Names -> Contents \cup {None}]
    BY <1>2 DEF RunOK
  <2>6. /\ TodoOK(Tail(todo), files'[r], meta'[r], vouched'[r], answered'[r])
        /\ AnswerOK(Tail(todo), o.answer, files'[r])
    BY <1>1, <1>2, <1>4, <2>1, <2>3, <2>5, PublishTodo, PublishAnswer
  <2> HIDE DEF g
  <2>f. \A f \in {"pc", "run", "todo", "answer", "guarded", "phase", "content"} : f \in OpFields
    BY DEF OpFields
  <2>7. /\ DOMAIN n1 = OpFields /\ n1.pc = o.pc /\ n1.run = o.run /\ n1.todo = Tail(todo)
        /\ n1.answer = o.answer
    BY <1>2, <2>f
  <2> HIDE DEF n1
  <2>8. /\ DOMAIN n = OpFields /\ n.pc = o.pc /\ n.run = o.run /\ n.todo = Tail(todo)
        /\ n.answer = o.answer /\ n.guarded = g
    BY <2>7, <2>f
  <2> HIDE DEF n
  <2>9. n.pc = "sync" /\ n.run = r /\ r # None /\ n.pc \notin PersistPcs
    BY <1>1, <1>2, <2>8, StoreAssumption DEF PersistPcs
  <2>10. Shape(n)
    BY <1>2, <2>8, <2>9 DEF Shape
  <2>11. Work(n, files'[r], meta'[r], vouched'[r], answered'[r])
    BY <2>4, <2>6, <2>8, <2>9 DEF Work
  <2>12. OpNext(s, n)
    BY <1>1, <1>2, <2>9, <2>10, <2>11 DEF OpNext
  <2> QED BY <1>2, <2>1, <2>2, <2>12, SessionStep
<1>5. CASE Len(todo) = 1
  <2>1. op' = [op EXCEPT ![s] = Idle] /\ Answer(r, o.answer)
    BY <1>5 DEF PublishNext, Return, Goto
  <2>2. /\ DOMAIN answered' = Runs /\ \A x \in Runs : x # r => answered'[x] = answered[x]
        /\ answered'[r] = answered[r] \/ (Len(todo) = 1 /\ answered'[r] = op[s].answer)
    BY <1>2, <1>3, <1>5, <2>1 DEF Answer
  <2>3. /\ \A x \in Runs : x # r => SameRun(x)
        /\ RunNext(r) /\ TypesNext
    <3>1. DOMAIN op' = Sessions
      BY <2>1, OpDomain
    <3> QED BY <1>1, <2>2, <3>1, PublishStep
  <2>4. r \in Runs => owner[r] \in {s, None}
    BY <1>2
  <2> QED BY <2>1, <2>3, <2>4, ReturnStep
<1>6. Len(todo) > 1 \/ Len(todo) = 1
  <2> DEFINE l == Len(todo)
  <2>1. l \in Nat /\ l >= 1
    BY <1>2
  <2> HIDE DEF l
  <2>2. l > 1 \/ l = 1
    BY <2>1
  <2> QED BY <2>2 DEF l
<1> QED BY <1>4, <1>5, <1>6

LEMMA FailedSound ==
  ASSUME NEW base \in Records, NEW V, NEW A, Vouches(base, V), A = "rejected" => ~Approves(base),
         NEW F, NEW M
  PROVE  /\ TodoOK(<<Meta([base EXCEPT !.state = "failed"])>>, F, M, V, A)
         /\ AnswerOK(<<Meta([base EXCEPT !.state = "failed"])>>, None, F)
<1> DEFINE R == [base EXCEPT !.state = "failed"]
<1>1. R.state = "failed"
  BY DEF Records
<1>2. Succeeds(R, base, V, A)
  BY SucceedsFailed
<1>3. None # "rejected" /\ None # "invalid"
  BY StoreAssumption
<1> HIDE DEF R
<1>4. TodoOK(<<Meta(R)>>, F, M, V, A) /\ AnswerOK(<<Meta(R)>>, None, F)
  BY <1>1, <1>2, <1>3, OneRecord DEF Succeeds
<1> QED BY <1>4 DEF R

LEMMA SyncNext ==
  ASSUME NEW s, NEW r \in Runs, owner'[r] = s, NEW todo, NEW answer,
         TodoOK(todo, files'[r], meta'[r], vouched'[r], answered'[r]),
         AnswerOK(todo, answer, files'[r]),
         NEW o, Stretch(o, r, todo, answer)
  PROVE  OpNext(s, o)
<1>1. o.pc \notin PersistPcs /\ o.pc # "helper" /\ ~o.guarded
  BY DEF Stretch, PersistPcs
<1>2. Work(o, files'[r], meta'[r], vouched'[r], answered'[r])
  BY <1>1 DEF Stretch, Work
<1> QED BY <1>2 DEF Stretch, OpNext

LEMMA WriteFailsKeeps ==
  ASSUME ReviewInv, NEW s \in Sessions, WriteFails(s)
  PROVE  ReviewInv'
<1> SUFFICES ASSUME NEW o, o = op[s], NEW r, r = op[s].run, NEW todo, todo = op[s].todo
             PROVE  ReviewInv'
  OBVIOUS
<1>1. /\ op[s].pc = "sync" /\ UNCHANGED <<owner, summary, vouched, answered>>
      /\ Publish(r, Head(todo)) \/ UNCHANGED <<dir, files, meta>>
  BY DEF WriteFails, projectVars, historyVars, storeVars
<1>2. /\ r \in Runs /\ owner[r] = s
      /\ RunOK(owner[r], dir[r], files[r], meta[r], summary[r], vouched[r], answered[r])
      /\ TodoOK(todo, files[r], meta[r], vouched[r], answered[r])
      /\ op[s].guarded => meta[r] # None
      /\ Len(todo) \in Nat /\ Len(todo) >= 1
      /\ Head(todo) = todo[1] /\ todo[1] \in Publication
  BY <1>1, SyncNow
<1>3. DOMAIN answered = Runs /\ DOMAIN dir = Runs /\ DOMAIN files = Runs /\ DOMAIN meta = Runs
  BY DEF ReviewInv, StateTypes
<1>4. /\ \A x \in Runs : x # r => SameRun(x)
      /\ RunNext(r) /\ (DOMAIN op' = Sessions => TypesNext)
  <2>1. CASE Publish(r, Head(todo))
    <3>1. /\ DOMAIN answered' = Runs /\ \A x \in Runs : x # r => answered'[x] = answered[x]
          /\ answered'[r] = answered[r] \/ (Len(todo) = 1 /\ answered'[r] = op[s].answer)
      BY <1>1, <1>3
    <3> QED BY <1>1, <2>1, <3>1, PublishStep
  <2>2. CASE UNCHANGED <<dir, files, meta>>
    <3>1. \A x \in Runs : SameRun(x)
      BY <1>1, <2>2 DEF SameRun
    <3>2. RunNext(r)
      BY <1>2, <3>1 DEF RunNext, SameRun
    <3>3. DOMAIN op' = Sessions => TypesNext
      BY <1>1, <2>2 DEF TypesNext, ReviewInv, StateTypes
    <3> QED BY <3>1, <3>2, <3>3
  <2> QED BY <1>1, <2>1, <2>2
<1>5. r \in Runs => owner[r] \in {s, None}
  BY <1>2
<1> DEFINE p == todo[1]
           base == IF p.kind = "meta" THEN p.record ELSE meta[r]
           R == [base EXCEPT !.state = "failed"]
           T == <<Meta(R)>>
           n == Sync(s, r, T)
<1>6. \/ op[s].guarded /\ op' = [op EXCEPT ![s] = n]
      \/ op' = [op EXCEPT ![s] = Idle]
  BY <1>2 DEF WriteFails, FailedRecord, Goto, Return
<1>7. CASE op' = [op EXCEPT ![s] = Idle]
  <2>1. DOMAIN op' = Sessions
    BY <1>7, OpDomain
  <2> QED BY <1>4, <1>5, <1>7, <2>1, ReturnStep
<1>8. CASE op[s].guarded /\ op' = [op EXCEPT ![s] = n]
  <2>1. meta[r] # None
    BY <1>2, <1>8
  <2>2. meta[r] \in Records /\ Vouches(meta[r], vouched[r])
        /\ (answered[r] = "rejected" => ~Approves(meta[r]))
    BY <1>2, <2>1 DEF RunOK
  <2>3. p.kind = "meta" => p.record \in Records /\ MetaOK(p.record, vouched[r], answered[r])
    <3>1. 1 \in 1..Len(todo)
      BY <1>2
    <3>2. p.kind = "meta" => MetaOK(p.record, vouched[r], answered[r])
      BY <1>2, <3>1 DEF TodoOK
    <3> QED BY <1>2, <3>2, PublicationKinds
  <2> HIDE DEF p
  <2>4. /\ base \in Records /\ Vouches(base, vouched[r])
        /\ (answered[r] = "rejected" => ~Approves(base))
    BY <2>2, <2>3 DEF MetaOK
  <2> HIDE DEF base
  <2>5. TodoOK(T, files'[r], meta'[r], vouched[r], answered[r]) /\ AnswerOK(T, None, files'[r])
    BY <2>4, FailedSound
  <2> HIDE DEF R, T
  <2>6. TodoOK(T, files'[r], meta'[r], vouched'[r], answered'[r]) /\ owner'[r] = s
    BY <1>1, <1>2, <2>5
  <2>7. Stretch(n, r, T, None)
    BY <1>2, SyncOp
  <2> HIDE DEF n
  <2>8. OpNext(s, n)
    BY <1>2, <2>5, <2>6, <2>7, SyncNext
  <2>9. DOMAIN op' = Sessions /\ op' = [op EXCEPT ![s] = n]
    BY <1>8, OpDomain
  <2> QED BY <1>4, <1>5, <2>8, <2>9, SessionStep
<1> QED BY <1>6, <1>7, <1>8

LEMMA GitAnswersKeeps ==
  ASSUME ReviewInv, NEW s \in Sessions, GitAnswers(s)
  PROVE  ReviewInv'
<1>1. PICK b \in SliceSizes, r \in Runs, k \in 0..Len(RangeNames) :
        /\ owner[r] = None /\ Accepted(b, k) /\ b <= MaxSliceBytes /\ owner' = [owner EXCEPT ![r] = s]
        /\ op' = [op EXCEPT ![s] = [Sync(s, r, WriterTodo(b, k)) EXCEPT !.phase = "materialize"]]
  BY DEF GitAnswers, Goto
<1>2. UNCHANGED <<dir, files, meta, summary, vouched, answered>>
  BY DEF GitAnswers, projectVars, historyVars
<1>3. /\ owner \in [Runs -> Sessions \cup {None}]
      /\ RunOK(owner[r], dir[r], files[r], meta[r], summary[r], vouched[r], answered[r])
  BY InvNow DEF StateTypes
<1>4. meta[r] = None
  BY <1>1, <1>3 DEF RunOK
<1>5. owner'[r] = s /\ \A x \in Runs : x # r => owner'[x] = owner[x]
  BY <1>1, <1>3
<1>6. \A x \in Runs : x # r => SameRun(x)
  BY <1>2, <1>5 DEF SameRun
<1>7. RunNext(r)
  BY <1>2, <1>3, <1>4 DEF RunNext, RunOK
<1> DEFINE T == WriterTodo(b, k)
           n1 == Sync(s, r, T)
           n == [n1 EXCEPT !.phase = "materialize"]
<1>8. TodoOK(T, files'[r], meta'[r], vouched'[r], answered'[r]) /\ AnswerOK(T, None, files'[r])
  <2>1. meta'[r] = None
    BY <1>2, <1>4
  <2>2. /\ TodoOK(T, files'[r], None, vouched'[r], answered'[r]) /\ AnswerOK(T, None, files'[r])
    BY <1>1, WriterSound
  <2> QED BY <2>1, <2>2
<1>o. op' = [op EXCEPT ![s] = n]
  BY <1>1
<1> HIDE DEF T
<1>9. Stretch(n1, r, T, None)
  BY SyncOp
<1> HIDE DEF n1
<1>11. Stretch(n, r, T, None)
  BY <1>9, StretchChanged
<1> HIDE DEF n
<1>12. OpNext(s, n)
  BY <1>5, <1>8, <1>11, SyncNext
<1>13. DOMAIN op' = Sessions
  BY <1>o, OpDomain
<1>14. TypesNext
  BY <1>1, <1>2, <1>3, <1>13 DEF TypesNext, ReviewInv, StateTypes
<1>15. r \in Runs => owner[r] \in {s, None}
  BY <1>1
<1> QED BY <1>o, <1>6, <1>7, <1>12, <1>14, <1>15, SessionStep

-----------------------------------------------------------------------------
(* The phases                                                              *)

LEMMA ReadableRecord ==
  ASSUME ReviewInv, NEW s, NEW r \in Runs, Readable(s, r)
  PROVE  meta[r] # None /\ meta[r] \in Records
<1>1. meta[r] # None
  BY DEF Readable
<1>2. RunOK(owner[r], dir[r], files[r], meta[r], summary[r], vouched[r], answered[r])
  BY InvNow
<1> QED BY <1>1, <1>2 DEF RunOK

LEMMA HelperNow ==
  ASSUME ReviewInv, NEW s \in Sessions, op[s].pc = "helper", NEW r, r = op[s].run
  PROVE  /\ r \in Runs /\ owner[r] = s /\ op[s].phase \in Phases
         /\ op[s].phase = "finalize" => answered[r] = None
         /\ RunOK(owner[r], dir[r], files[r], meta[r], summary[r], vouched[r], answered[r])
<1>1. r # None
  BY InvNow DEF Shape
<1>2. r \in Runs /\ owner[r] = s /\ Work(op[s], files[r], meta[r], vouched[r], answered[r])
  BY <1>1, InvNow
<1> QED BY <1>2, InvNow DEF Work

(* The answer of a run changes, to one that says nothing of its record.     *)
LEMMA AnswerStep ==
  ASSUME ReviewInv, NEW s \in Sessions, NEW r \in Runs, owner[r] = s,
         UNCHANGED <<owner, dir, files, meta, summary, vouched>>,
         answered' = answered \/
           \E a : a \notin {"rejected", "invalid"} /\ answered' = [answered EXCEPT ![r] = a],
         DOMAIN op' = Sessions
  PROVE  TypesNext /\ RunNext(r) /\ \A x \in Runs : x # r => SameRun(x)
<1>1. /\ DOMAIN answered = Runs
      /\ RunOK(owner[r], dir[r], files[r], meta[r], summary[r], vouched[r], answered[r])
  BY InvNow DEF StateTypes
<1>2. /\ DOMAIN answered' = Runs /\ \A x \in Runs : x # r => answered'[x] = answered[x]
      /\ answered'[r] = answered[r] \/ answered'[r] \notin {"rejected", "invalid"}
  BY <1>1
<1>3. RunNext(r)
  BY <1>1, <1>2 DEF RunNext, RunOK
<1>4. TypesNext
  BY <1>2 DEF TypesNext, ReviewInv, StateTypes
<1> QED BY <1>2, <1>3, <1>4 DEF SameRun

LEMMA PipelineKeeps ==
  ASSUME ReviewInv, NEW s \in Sessions, runReviewPipeline(s)
  PROVE  ReviewInv'
<1>1. PICK r \in Runs, phase \in Phases :
        /\ owner[r] = s
        /\ op' = [op EXCEPT ![s] = [Idle EXCEPT !.pc = "helper", !.run = r, !.phase = phase]]
        /\ answered' = IF phase = "finalize" THEN [answered EXCEPT ![r] = None] ELSE answered
  BY DEF runReviewPipeline, Goto
<1>2. UNCHANGED <<owner, dir, files, meta, summary, vouched>>
  BY DEF runReviewPipeline, storeVars, projectVars
<1> DEFINE a == [Idle EXCEPT !.pc = "helper"]
           b == [a EXCEPT !.run = r]
           n == [b EXCEPT !.phase = phase]
<1>o. op' = [op EXCEPT ![s] = n]
  BY <1>1
<1>f. DOMAIN Idle = OpFields /\ \A f \in {"pc", "run", "phase"} : f \in OpFields
  BY DEF Idle, OpFields
<1>3. DOMAIN a = OpFields /\ a.pc = "helper"
  BY <1>f
<1> HIDE DEF a
<1>4. DOMAIN b = OpFields /\ b.pc = "helper" /\ b.run = r
  BY <1>3, <1>f
<1> HIDE DEF b
<1>5. DOMAIN n = OpFields /\ n.pc = "helper" /\ n.run = r /\ n.phase = phase
  BY <1>4, <1>f
<1> HIDE DEF n
<1>6. DOMAIN op' = Sessions
  BY <1>o, OpDomain
<1>7. None \notin {"rejected", "invalid"} /\ r # None
  BY StoreAssumption
<1>8. TypesNext /\ RunNext(r) /\ \A x \in Runs : x # r => SameRun(x)
  BY <1>1, <1>2, <1>6, <1>7, AnswerStep
<1>9. phase = "finalize" => answered'[r] = None
  BY <1>1 DEF ReviewInv, StateTypes
<1>10. Shape(n)
  BY <1>5, <1>7 DEF Shape
<1>11. Work(n, files'[r], meta'[r], vouched'[r], answered'[r])
  BY <1>1, <1>5, <1>9 DEF Work, PersistPcs
<1>12. OpNext(s, n)
  BY <1>1, <1>2, <1>5, <1>10, <1>11 DEF OpNext
<1>13. r \in Runs => owner[r] \in {s, None}
  BY <1>1
<1> QED BY <1>o, <1>8, <1>12, <1>13, SessionStep

LEMMA UnavailableKeeps ==
  ASSUME ReviewInv, NEW s \in Sessions, HelperUnavailable(s)
  PROVE  ReviewInv'
<1> SUFFICES ASSUME NEW r, r = op[s].run PROVE ReviewInv'
  OBVIOUS
<1>1. /\ op[s].pc = "helper" /\ op' = [op EXCEPT ![s] = Idle]
      /\ UNCHANGED <<owner, dir, files, meta, summary, vouched>>
      /\ Answer(r, IF op[s].phase = "finalize" THEN "unavailable" ELSE None)
  BY DEF HelperUnavailable, Return, Goto, storeVars, projectVars
<1>2. r \in Runs /\ owner[r] = s
  BY <1>1, HelperNow
<1>3. answered' = answered \/
        \E a : a \notin {"rejected", "invalid"} /\ answered' = [answered EXCEPT ![r] = a]
  BY <1>1 DEF Answer
<1>4. DOMAIN op' = Sessions
  BY <1>1, OpDomain
<1>5. TypesNext /\ RunNext(r) /\ \A x \in Runs : x # r => SameRun(x)
  BY <1>1, <1>2, <1>3, <1>4, AnswerStep
<1>6. r \in Runs => owner[r] \in {s, None}
  BY <1>2
<1> QED BY <1>1, <1>5, <1>6, ReturnStep

LEMMA RejectsKeeps ==
  ASSUME ReviewInv, NEW s \in Sessions, HelperRejects(s)
  PROVE  ReviewInv'
<1> SUFFICES ASSUME NEW r, r = op[s].run PROVE ReviewInv'
  OBVIOUS
<1>1. /\ op[s].pc = "helper"
      /\ UNCHANGED <<owner, dir, files, meta, summary, vouched, answered>>
  BY DEF HelperRejects, storeVars, projectVars, historyVars
<1>2. /\ r \in Runs /\ owner[r] = s
      /\ RunOK(owner[r], dir[r], files[r], meta[r], summary[r], vouched[r], answered[r])
  BY <1>1, HelperNow
<1>3. PICK outcome \in {"rejected", "unavailable"} :
        \/ /\ Readable(s, r)
           /\ op' = [op EXCEPT ![s] =
                [Sync(s, r, <<Meta([meta[r] EXCEPT !.provenance = Provenance(outcome, None)])>>)
                   EXCEPT !.answer = outcome]]
        \/ op' = [op EXCEPT ![s] = Idle]
  BY DEF HelperRejects, Goto, Return
<1>4. CASE op' = [op EXCEPT ![s] = Idle]
  <2> DEFINE i == Idle
  <2>1. op' = [op EXCEPT ![s] = i] /\ OpNext(s, i)
    BY <1>4, IdleOp
  <2> HIDE DEF i
  <2> QED BY <1>1, <2>1, LocalStep
<1>5. ASSUME Readable(s, r),
             op' = [op EXCEPT ![s] =
                [Sync(s, r, <<Meta([meta[r] EXCEPT !.provenance = Provenance(outcome, None)])>>)
                   EXCEPT !.answer = outcome]]
      PROVE  ReviewInv'
  <2> DEFINE R == [meta[r] EXCEPT !.provenance = Provenance(outcome, None)]
             T == <<Meta(R)>>
             n1 == Sync(s, r, T)
             n == [n1 EXCEPT !.answer = outcome]
  <2>1. meta[r] # None /\ meta[r] \in Records
    BY <1>2, <1>5, ReadableRecord
  <2>2. Succeeds(R, meta[r], vouched[r], answered[r]) /\ ~Approves(R)
    BY <2>1, RejectRecord
  <2>3. Serves(meta[r], files[r])
    BY <1>2, <2>1 DEF RunOK
  <2>o. op' = [op EXCEPT ![s] = n]
    BY <1>5
  <2> HIDE DEF R
  <2>4. /\ R \in Records /\ Vouches(R, vouched[r])
        /\ R.state = "published" => Lists(R) /\ \A k \in DiffNames : files[r][k] = R.first[k]
    BY <2>2, <2>3 DEF Succeeds, Serves, Lists
  <2>5. outcome # "invalid"
    OBVIOUS
  <2>6. /\ TodoOK(T, files[r], meta[r], vouched[r], answered[r])
        /\ AnswerOK(T, outcome, files[r])
    BY <2>2, <2>4, <2>5, OneRecord
  <2> HIDE DEF T
  <2>7. /\ TodoOK(T, files'[r], meta'[r], vouched'[r], answered'[r])
        /\ AnswerOK(T, outcome, files'[r]) /\ owner'[r] = s
    BY <1>1, <1>2, <2>6
  <2>8. Stretch(n1, r, T, None)
    BY <1>2, SyncOp
  <2> HIDE DEF n1
  <2>9. Stretch(n, r, T, outcome)
    BY <1>2, <2>8, StretchChanged
  <2> HIDE DEF n
  <2>10. OpNext(s, n)
    BY <1>2, <2>7, <2>9, SyncNext
  <2> QED BY <1>1, <2>o, <2>10, LocalStep
<1> QED BY <1>3, <1>4, <1>5

LEMMA OutputName ==
  ASSUME NEW phase \in Phases, NEW reviewer \in Reviewers, NEW c \in Outputs(phase)
  PROVE  /\ ArtifactName(phase, reviewer) \in PhaseNames
         /\ ArtifactName(phase, reviewer) = "finalize" <=> phase = "finalize"
         /\ c \in Contents /\ (phase = "finalize" => c.gen \in Documents)
<1>1. /\ ArtifactName(phase, reviewer) \in PhaseNames
      /\ ArtifactName(phase, reviewer) = "finalize" <=> phase = "finalize"
  BY StoreAssumption DEF ArtifactName, Phases, PhaseNames
<1>2. c \in Contents /\ (phase = "finalize" => c.gen \in Documents)
  BY PipelineAssumption DEF Outputs, Contents
<1> QED BY <1>1, <1>2

LEMMA DocumentOf ==
  ASSUME NEW V, NEW c \in V
  PROVE  ReviewDocument(c) \in DocumentsOf(V)
BY DEF DocumentsOf

LEMMA MoreDocuments ==
  ASSUME NEW V, NEW V2, V \subseteq V2
  PROVE  DocumentsOf(V) \subseteq DocumentsOf(V2)
BY DEF DocumentsOf

LEMMA MoreVouched ==
  ASSUME NEW w, NEW D, NEW F, NEW M, NEW S, NEW V, NEW A, RunOK(w, D, F, M, S, V, A),
         NEW V2, V \subseteq V2, V2 \subseteq Contents
  PROVE  RunOK(w, D, F, M, S, V2, A)
<1>1. M # None => Vouches(M, V2)
  BY DEF RunOK, Vouches
<1> QED BY <1>1, MoreDocuments DEF RunOK

LEMMA AcceptsKeeps ==
  ASSUME ReviewInv, NEW s \in Sessions, HelperAccepts(s)
  PROVE  ReviewInv'
<1> SUFFICES ASSUME NEW r, r = op[s].run, NEW phase, phase = op[s].phase PROVE ReviewInv'
  OBVIOUS
<1>1. /\ op[s].pc = "helper"
      /\ UNCHANGED <<owner, dir, files, meta, summary, answered>>
  BY DEF HelperAccepts, storeVars, projectVars
<1>2. /\ r \in Runs /\ owner[r] = s /\ phase \in Phases
      /\ phase = "finalize" => answered[r] = None
      /\ RunOK(owner[r], dir[r], files[r], meta[r], summary[r], vouched[r], answered[r])
  BY <1>1, HelperNow
<1> DEFINE Name(x) == ArtifactName(phase, x)
           Proven(c) == phase = "finalize" /\ c.gen \notin Malformed
           Says(c) == IF ~(phase = "finalize") THEN None
                      ELSE IF c.gen \notin Malformed THEN "accepted" ELSE "invalid"
<1>3. PICK c \in Outputs(phase), reviewer \in Reviewers :
        /\ vouched' = IF Proven(c) THEN [vouched EXCEPT ![r] = @ \cup {c}] ELSE vouched
        /\ \/ /\ Readable(s, r)
              /\ op' = [op EXCEPT ![s] =
                   [Sync(s, r, AcceptTodo(meta[r], Name(reviewer), c, Proven(c)))
                      EXCEPT !.answer = Says(c)]]
           \/ op' = [op EXCEPT ![s] = Idle]
  BY DEF HelperAccepts, Goto, Return, AcceptTodo
<1> DEFINE n == Name(reviewer)
           proven == Proven(c)
           answer == Says(c)
           T == AcceptTodo(meta[r], n, c, proven)
           o1 == Sync(s, r, T)
           o == [o1 EXCEPT !.answer = answer]
<1>4. /\ n \in PhaseNames /\ (n = "finalize" <=> phase = "finalize")
      /\ c \in Contents /\ (phase = "finalize" => c.gen \in Documents)
  BY <1>2, OutputName
<1>5. proven \in BOOLEAN /\ (proven => n = "finalize" /\ c.gen \in Documents \ Malformed)
  BY <1>4
<1>6. answer # "rejected" /\ (answer = "invalid" => n = "finalize" /\ c.gen \in Malformed)
  BY <1>4, StoreAssumption
<1>7. op' = [op EXCEPT ![s] = Idle] \/ (Readable(s, r) /\ op' = [op EXCEPT ![s] = o])
  BY <1>3
<1>v. vouched' = IF proven THEN [vouched EXCEPT ![r] = @ \cup {c}] ELSE vouched
  BY <1>3
<1> HIDE DEF Name, Proven, Says, n, proven, answer
<1>8. /\ DOMAIN vouched = Runs /\ DOMAIN vouched' = Runs
      /\ \A x \in Runs : x # r => vouched'[x] = vouched[x]
      /\ vouched'[r] = IF proven THEN vouched[r] \cup {c} ELSE vouched[r]
  BY <1>2, <1>v DEF ReviewInv, StateTypes
<1>9. vouched[r] \subseteq vouched'[r] /\ vouched'[r] \subseteq Contents /\ (proven => c \in vouched'[r])
  BY <1>2, <1>4, <1>8 DEF RunOK
<1>10. RunNext(r)
  <2>1. RunOK(owner[r], dir[r], files[r], meta[r], summary[r], vouched'[r], answered[r])
    BY <1>2, <1>9, MoreVouched
  <2> QED BY <1>1, <2>1 DEF RunNext
<1>11. \A x \in Runs : x # r => SameRun(x)
  BY <1>1, <1>8 DEF SameRun
<1>12. DOMAIN op' = Sessions => TypesNext
  BY <1>1, <1>8 DEF TypesNext, ReviewInv, StateTypes
<1>13. r \in Runs => owner[r] \in {s, None}
  BY <1>2
<1>14. CASE op' = [op EXCEPT ![s] = Idle]
  <2>1. DOMAIN op' = Sessions
    BY <1>14, OpDomain
  <2> QED BY <1>10, <1>11, <1>12, <1>13, <1>14, <2>1, ReturnStep
<1>15. CASE Readable(s, r) /\ op' = [op EXCEPT ![s] = o]
  <2>1. meta[r] # None
    BY <1>2, <1>15, ReadableRecord
  <2>2. n = "finalize" => answered[r] \notin {"rejected", "invalid"}
    BY <1>2, <1>4, StoreAssumption
  <2>c. c \in Contents /\ n \in PhaseNames
    BY <1>4
  <2>p. proven => n = "finalize" /\ c \in vouched'[r] /\ c.gen \in Documents \ Malformed
    BY <1>5, <1>9
  <2>3. /\ TodoOK(T, files[r], meta[r], vouched'[r], answered[r])
        /\ AnswerOK(T, answer, files[r])
    <3>1. RunOK(owner[r], dir[r], files[r], meta[r], summary[r], vouched[r], answered[r])
      BY <1>2
    <3>2. vouched[r] \subseteq vouched'[r] /\ proven \in BOOLEAN
      BY <1>5, <1>9
    <3>3. Acceptable(meta[r], vouched[r], vouched'[r], answered[r], n, c, proven, answer)
      BY <1>6, <2>1, <2>2, <2>c, <2>p, <3>2 DEF Acceptable
    <3> QED BY <3>1, <3>3, AcceptSound
  <2> HIDE DEF T
  <2>4. /\ TodoOK(T, files'[r], meta'[r], vouched'[r], answered'[r])
        /\ AnswerOK(T, answer, files'[r]) /\ owner'[r] = s
    BY <1>1, <1>2, <2>3
  <2>5. Stretch(o1, r, T, None)
    BY <1>2, SyncOp
  <2> HIDE DEF o1
  <2>6. Stretch(o, r, T, answer)
    BY <1>2, <2>5, StretchChanged
  <2> HIDE DEF o
  <2>7. OpNext(s, o)
    BY <1>2, <2>4, <2>6, SyncNext
  <2>8. DOMAIN op' = Sessions /\ op' = [op EXCEPT ![s] = o]
    BY <1>15, OpDomain
  <2> QED BY <1>10, <1>11, <1>12, <1>13, <2>7, <2>8, SessionStep
<1> QED BY <1>7, <1>14, <1>15

-----------------------------------------------------------------------------
(* The persist                                                             *)

LEMMA PersistNow ==
  ASSUME ReviewInv, NEW s \in Sessions, op[s].pc \in PersistPcs, NEW r, r = op[s].run
  PROVE  /\ r \in Runs /\ owner[r] = s /\ DOMAIN op[s] = OpFields
         /\ op[s].content \in DocumentsOf(vouched[r]) /\ answered[r] \notin {"rejected", "invalid"}
<1>1. r # None /\ DOMAIN op[s] = OpFields
  BY InvNow DEF Shape
<1>2. r \in Runs /\ owner[r] = s /\ Work(op[s], files[r], meta[r], vouched[r], answered[r])
  BY <1>1, InvNow
<1> QED BY <1>1, <1>2 DEF Work

(* An operation of a persist, on the run r.                                 *)
LEMMA PersistOp ==
  ASSUME NEW s, NEW r \in Runs, NEW o, DOMAIN o = OpFields, o.run = r, o.pc \in PersistPcs,
         owner'[r] = s, o.content \in DocumentsOf(vouched'[r]), answered'[r] \notin {"rejected", "invalid"}
  PROVE  OpNext(s, o)
<1>1. r # None
  BY StoreAssumption
<1>2. Shape(o)
  BY <1>1 DEF Shape
<1>3. Work(o, files'[r], meta'[r], vouched'[r], answered'[r])
  BY DEF Work, PersistPcs
<1> QED BY <1>2, <1>3 DEF OpNext

LEMMA IntactVouched ==
  ASSUME ReviewInv, NEW r \in Runs, meta[r] # None, FinalizeIntact(r)
  PROVE  files[r]["finalize"] \in vouched[r] /\ answered[r] \notin {"rejected", "invalid"}
<1> DEFINE f == files[r]["finalize"]
           p == meta[r].provenance
<1>1. RunOK(owner[r], dir[r], files[r], meta[r], summary[r], vouched[r], answered[r])
  BY InvNow
<1>2. /\ p # None /\ p.outcome = "accepted" /\ f # None /\ f.gen = p.gen /\ f.bytes = p.bytes
  BY DEF FinalizeIntact, ReadArtifact
<1>3. f \in Contents
  BY <1>1, <1>2, NoneApart DEF RunOK
<1>4. f = [gen |-> p.gen, bytes |-> p.bytes]
  BY <1>2, <1>3 DEF Contents
<1> HIDE DEF f
<1>5. /\ Approves(meta[r]) /\ Vouches(meta[r], vouched[r])
      /\ (answered[r] = "rejected" => ~Approves(meta[r]))
  BY <1>1, <1>2 DEF RunOK, Approves
<1>6. [gen |-> p.gen, bytes |-> p.bytes] \in vouched[r] /\ p.gen \notin Malformed
  BY <1>5 DEF Vouches
<1>7. answered[r] = "invalid" => f.gen \in Malformed
  BY <1>1, <1>2 DEF RunOK, f
<1> QED BY <1>2, <1>4, <1>5, <1>6, <1>7 DEF f

LEMMA PersistKeeps ==
  ASSUME ReviewInv, NEW s \in Sessions,
         persistReviewArtifact(s) \/ ensureReviewIgnored(s) \/ IgnoreVerified(s)
  PROVE  ReviewInv'
<1>u. UNCHANGED <<owner, dir, files, meta, summary, vouched, answered>>
  BY DEF persistReviewArtifact, ensureReviewIgnored, IgnoreVerified, storeVars, projectVars,
     historyVars
<1>1. CASE persistReviewArtifact(s)
  <2>1. PICK r \in Runs :
          /\ Readable(s, r) /\ FinalizeIntact(r)
          /\ op' = [op EXCEPT ![s] = [Idle EXCEPT !.pc = "check", !.run = r,
                                                  !.content = ReviewDocument(files[r]["finalize"])]]
    BY <1>1 DEF persistReviewArtifact, Goto
  <2> DEFINE a == [Idle EXCEPT !.pc = "check"]
             b == [a EXCEPT !.run = r]
             c == ReviewDocument(files[r]["finalize"])
             n == [b EXCEPT !.content = c]
  <2>o. op' = [op EXCEPT ![s] = n]
    BY <2>1
  <2>f. DOMAIN Idle = OpFields /\ \A f \in {"pc", "run", "content"} : f \in OpFields
    BY DEF Idle, OpFields
  <2>3. DOMAIN a = OpFields /\ a.pc = "check"
    BY <2>f
  <2> HIDE DEF a
  <2>4. DOMAIN b = OpFields /\ b.pc = "check" /\ b.run = r
    BY <2>3, <2>f
  <2>6. owner[r] = s /\ meta[r] # None
    BY <2>1 DEF Readable
  <2>7. c \in DocumentsOf(vouched[r]) /\ answered[r] \notin {"rejected", "invalid"}
    BY <2>1, <2>6, IntactVouched, DocumentOf
  <2> HIDE DEF b, c
  <2>5. DOMAIN n = OpFields /\ n.pc = "check" /\ n.run = r /\ n.content = c
    BY <2>4, <2>f
  <2> HIDE DEF n
  <2>8. owner'[r] = s /\ n.content \in DocumentsOf(vouched'[r]) /\ answered'[r] \notin {"rejected", "invalid"}
    BY <1>u, <2>5, <2>6, <2>7
  <2>9. n.pc \in PersistPcs
    BY <2>5 DEF PersistPcs
  <2>10. OpNext(s, n)
    BY <2>5, <2>8, <2>9, PersistOp
  <2> QED BY <1>u, <2>o, <2>10, LocalStep
<1>2. CASE ensureReviewIgnored(s) \/ IgnoreVerified(s)
  <2>1. PICK pc \in {"stage", "verify"} : op' = [op EXCEPT ![s] = [op[s] EXCEPT !.pc = pc]]
    BY <1>2 DEF ensureReviewIgnored, IgnoreVerified, Goto
  <2>2. op[s].pc \in PersistPcs
    BY <1>2 DEF ensureReviewIgnored, IgnoreVerified, PersistPcs
  <2> DEFINE r == op[s].run
             n == [op[s] EXCEPT !.pc = pc]
  <2>3. /\ r \in Runs /\ owner[r] = s /\ DOMAIN op[s] = OpFields
        /\ op[s].content \in DocumentsOf(vouched[r]) /\ answered[r] \notin {"rejected", "invalid"}
    BY <2>2, PersistNow
  <2>4. DOMAIN n = OpFields /\ n.pc = pc /\ n.run = r /\ n.content = op[s].content
    BY <2>3 DEF OpFields
  <2>o. op' = [op EXCEPT ![s] = n]
    BY <2>1
  <2> HIDE DEF n, r
  <2>5. owner'[r] = s /\ n.content \in DocumentsOf(vouched'[r]) /\ answered'[r] \notin {"rejected", "invalid"}
    BY <1>u, <2>3, <2>4
  <2>6. n.pc \in PersistPcs
    BY <2>4 DEF PersistPcs
  <2>7. OpNext(s, n)
    BY <2>3, <2>4, <2>5, <2>6, PersistOp
  <2> QED BY <1>u, <2>o, <2>7, LocalStep
<1> QED BY <1>1, <1>2

LEMMA StageKeeps ==
  ASSUME ReviewInv, NEW s \in Sessions, Stage(s)
  PROVE  ReviewInv'
<1> SUFFICES ASSUME NEW r, r = op[s].run PROVE ReviewInv'
  OBVIOUS
<1>1. /\ op[s].pc = "stage" /\ dir' = [dir EXCEPT ![r] = TRUE]
      /\ op' = [op EXCEPT ![s] = [op[s] EXCEPT !.pc = "validate"]]
      /\ UNCHANGED <<owner, files, meta, summary, vouched, answered>>
  BY DEF Stage, Goto, historyVars
<1>2. op[s].pc \in PersistPcs
  BY <1>1 DEF PersistPcs
<1>3. /\ r \in Runs /\ owner[r] = s /\ DOMAIN op[s] = OpFields
      /\ op[s].content \in DocumentsOf(vouched[r]) /\ answered[r] \notin {"rejected", "invalid"}
  BY <1>2, PersistNow
<1>4. /\ DOMAIN dir' = Runs /\ dir'[r] = TRUE /\ \A x \in Runs : x # r => dir'[x] = dir[x]
  BY <1>1, <1>3 DEF ReviewInv, StateTypes
<1>5. RunNext(r)
  <2>1. RunOK(owner[r], dir[r], files[r], meta[r], summary[r], vouched[r], answered[r])
    BY <1>3, InvNow
  <2> QED BY <1>1, <1>4, <2>1 DEF RunNext, RunOK
<1>6. \A x \in Runs : x # r => SameRun(x)
  BY <1>1, <1>4 DEF SameRun
<1> DEFINE n == [op[s] EXCEPT !.pc = "validate"]
<1>7. DOMAIN n = OpFields /\ n.pc = "validate" /\ n.run = r /\ n.content = op[s].content
  BY <1>3 DEF OpFields
<1>o. op' = [op EXCEPT ![s] = n]
  BY <1>1
<1> HIDE DEF n
<1>8. owner'[r] = s /\ n.content \in DocumentsOf(vouched'[r]) /\ answered'[r] \notin {"rejected", "invalid"}
  BY <1>1, <1>3, <1>7
<1>9. n.pc \in PersistPcs
  BY <1>7 DEF PersistPcs
<1>10. OpNext(s, n)
  BY <1>3, <1>7, <1>8, <1>9, PersistOp
<1>11. DOMAIN op' = Sessions
  BY <1>o, OpDomain
<1>12. TypesNext
  BY <1>1, <1>4, <1>11 DEF TypesNext, ReviewInv, StateTypes
<1>13. r \in Runs => owner[r] \in {s, None}
  BY <1>3
<1> QED BY <1>o, <1>5, <1>6, <1>10, <1>12, <1>13, SessionStep

LEMMA ValidatorKeeps ==
  ASSUME ReviewInv, NEW s \in Sessions, ValidatorPasses(s)
  PROVE  /\ ReviewInv'
         /\ \A r \in Runs : summary'[r] # summary[r] => answered[r] \notin {"rejected", "invalid"}
<1> SUFFICES ASSUME NEW r, r = op[s].run
             PROVE  /\ ReviewInv'
                    /\ \A x \in Runs : summary'[x] # summary[x] => answered[x] \notin {"rejected", "invalid"}
  OBVIOUS
<1>1. /\ op[s].pc = "validate" /\ summary' = [summary EXCEPT ![r] = op[s].content]
      /\ op' = [op EXCEPT ![s] = Idle]
      /\ UNCHANGED <<owner, dir, files, meta, vouched, answered>>
  BY DEF ValidatorPasses, Return, Goto, storeVars
<1>2. op[s].pc \in PersistPcs
  BY <1>1 DEF PersistPcs
<1>3. /\ r \in Runs /\ owner[r] = s
      /\ op[s].content \in DocumentsOf(vouched[r]) /\ answered[r] \notin {"rejected", "invalid"}
  BY <1>2, PersistNow
<1>4. /\ DOMAIN summary' = Runs /\ summary'[r] = op[s].content
      /\ \A x \in Runs : x # r => summary'[x] = summary[x]
  BY <1>1, <1>3 DEF ReviewInv, StateTypes
<1>5. RunNext(r)
  <2>1. RunOK(owner[r], dir[r], files[r], meta[r], summary[r], vouched[r], answered[r])
    BY <1>3, InvNow
  <2> QED BY <1>1, <1>3, <1>4, <2>1 DEF RunNext, RunOK
<1>6. \A x \in Runs : x # r => SameRun(x)
  BY <1>1, <1>4 DEF SameRun
<1>7. DOMAIN op' = Sessions
  BY <1>1, OpDomain
<1>8. TypesNext
  BY <1>1, <1>4, <1>7 DEF TypesNext, ReviewInv, StateTypes
<1>9. r \in Runs => owner[r] \in {s, None}
  BY <1>3
<1>10. ReviewInv'
  BY <1>1, <1>5, <1>6, <1>8, <1>9, ReturnStep
<1> QED BY <1>3, <1>4, <1>10

(* The steps that end an operation, or begin one, and change nothing else.  *)
LEMMA QuietKeeps ==
  ASSUME ReviewInv, NEW s \in Sessions,
         materializeReviewRange(s) \/ GitRefuses(s) \/ PersistStops(s)
  PROVE  ReviewInv'
<1>u. UNCHANGED <<owner, dir, files, meta, summary, vouched, answered>>
  BY DEF materializeReviewRange, GitRefuses, PersistStops, storeVars, projectVars, historyVars
<1> DEFINE i == Idle
           g == [Idle EXCEPT !.pc = "git"]
<1>1. op' = [op EXCEPT ![s] = i] \/ op' = [op EXCEPT ![s] = g]
  BY DEF materializeReviewRange, GitRefuses, PersistStops, Goto, Return
<1>2. OpNext(s, i)
  BY IdleOp
<1>3. DOMAIN g = OpFields /\ g.pc = "git" /\ g.run = None
  BY DEF Idle, OpFields
<1> HIDE DEF i, g
<1>4. Shape(g)
  BY <1>3 DEF Shape, PersistPcs
<1>5. OpNext(s, g)
  BY <1>3, <1>4 DEF OpNext
<1> QED BY <1>u, <1>1, <1>2, <1>5, LocalStep

-----------------------------------------------------------------------------
(* Steps of the broker                                                     *)

LEMMA CrashKeeps ==
  ASSUME ReviewInv, Crash
  PROVE  ReviewInv'
<1>1. /\ UNCHANGED <<owner, dir, files, meta, summary, vouched, answered>>
      /\ op' = [s \in Sessions |-> Idle]
  BY DEF Crash, storeVars, projectVars, historyVars
<1>2. TypesNext
  BY <1>1 DEF TypesNext, ReviewInv, StateTypes
<1>3. \A r \in Runs : RunNext(r)
  BY <1>1, InvNow DEF RunNext
<1>4. ASSUME NEW s \in Sessions PROVE OpNext(s, op'[s])
  <2>1. op'[s] = Idle
    BY <1>1
  <2> QED BY <2>1, IdleOp
<1> QED BY <1>2, <1>3, <1>4, NextInv

(* A sweep runs between the stretches; no other operation depends on what   *)
(* it changes.                                                              *)
LEMMA SweepStep ==
  ASSUME ReviewInv, Yielded, UNCHANGED <<op, owner, summary, vouched, answered>>,
         DOMAIN dir' = Runs, DOMAIN files' = Runs, DOMAIN meta' = Runs,
         \A r \in Runs : RunNext(r)
  PROVE  ReviewInv'
<1>1. TypesNext
  BY DEF TypesNext, ReviewInv, StateTypes
<1>2. ASSUME NEW s \in Sessions PROVE OpNext(s, op'[s])
  <2> DEFINE o == op[s]
             r == o.run
  <2>1. o.pc # "sync"
    BY DEF Yielded, Running
  <2>2. /\ Shape(o)
        /\ r # None => /\ r \in Runs /\ owner[r] = s
                       /\ Work(o, files[r], meta[r], vouched[r], answered[r])
    BY InvNow
  <2>3. op'[s] = o
    OBVIOUS
  <2> HIDE DEF o
  <2>4. r # None => owner'[r] = s /\ Work(o, files'[r], meta'[r], vouched'[r], answered'[r])
    BY <2>1, <2>2 DEF Work
  <2>5. OpNext(s, o)
    BY <2>2, <2>4 DEF OpNext
  <2> QED BY <2>3, <2>5
<1> QED BY <1>1, <1>2, NextInv

LEMMA PruneKeeps ==
  ASSUME ReviewInv, Prune
  PROVE  ReviewInv'
<1> DEFINE P == PruneSet
<1>1. /\ Yielded /\ UNCHANGED <<op, owner, summary, vouched, answered>>
      /\ dir' = [r \in Runs |-> dir[r] /\ r \notin P]
      /\ files' = [r \in Runs |-> IF r \in P THEN [n \in Names |-> None] ELSE files[r]]
      /\ meta' = [r \in Runs |-> IF r \in P THEN None ELSE meta[r]]
  BY DEF Prune, Sweep, pruneReviewRuns, historyVars
<1> HIDE DEF P
<1>2. DOMAIN dir' = Runs /\ DOMAIN files' = Runs /\ DOMAIN meta' = Runs
  BY <1>1
<1>3. ASSUME NEW r \in Runs PROVE RunNext(r)
  <2>1. RunOK(owner[r], dir[r], files[r], meta[r], summary[r], vouched[r], answered[r])
    BY InvNow
  <2>2. CASE r \in P
    <3>1. meta'[r] = None /\ files'[r] = [n \in Names |-> None]
      BY <1>1, <2>2
    <3>2. files'[r] \in [Names -> Contents \cup {None}] /\ files'[r]["finalize"] = None
      BY <3>1, NoneApart
    <3> QED BY <1>1, <2>1, <3>1, <3>2 DEF RunNext, RunOK
  <2>3. CASE r \notin P
    <3>1. meta'[r] = meta[r] /\ files'[r] = files[r] /\ (dir'[r] <=> dir[r])
      BY <1>1, <2>3
    <3> QED BY <1>1, <2>1, <3>1 DEF RunNext, RunOK
  <2> QED BY <2>2, <2>3
<1> QED BY <1>1, <1>2, <1>3, SweepStep

LEMMA RecoverKeeps ==
  ASSUME ReviewInv, Recover
  PROVE  ReviewInv'
<1> DEFINE stale == {r \in expired : Open(r)}
<1>1. /\ Yielded /\ UNCHANGED <<op, owner, summary, vouched, answered, dir, files>>
      /\ meta' = [r \in Runs |-> IF r \in stale THEN [meta[r] EXCEPT !.state = "failed"] ELSE meta[r]]
  BY DEF Recover, Sweep, recoverInterruptedRuns, historyVars
<1>2. \A r \in stale : meta[r] # None
  BY DEF Open
<1> HIDE DEF stale
<1>3. DOMAIN dir' = Runs /\ DOMAIN files' = Runs /\ DOMAIN meta' = Runs
  BY <1>1 DEF ReviewInv, StateTypes
<1>4. ASSUME NEW r \in Runs PROVE RunNext(r)
  <2>1. RunOK(owner[r], dir[r], files[r], meta[r], summary[r], vouched[r], answered[r])
    BY InvNow
  <2>2. CASE r \in stale
    <3> DEFINE R == [meta[r] EXCEPT !.state = "failed"]
    <3>1. meta[r] # None /\ meta'[r] = R
      BY <1>1, <1>2, <2>2
    <3>2. /\ meta[r] \in Records /\ Vouches(meta[r], vouched[r])
          /\ answered[r] = "rejected" => ~Approves(meta[r])
      BY <2>1, <3>1 DEF RunOK
    <3>3. Succeeds(R, meta[r], vouched[r], answered[r]) /\ R.state = "failed"
      BY <3>2, SucceedsFailed DEF Records
    <3> HIDE DEF R
    <3>4. /\ R \in Records /\ Vouches(R, vouched[r]) /\ Serves(R, files[r])
          /\ answered[r] = "rejected" => ~Approves(R)
      BY <3>3 DEF Succeeds, Serves
    <3> QED BY <1>1, <2>1, <3>1, <3>4 DEF RunNext, RunOK
  <2>3. CASE r \notin stale
    BY <1>1, <2>1, <2>3 DEF RunNext
  <2> QED BY <2>2, <2>3
<1> QED BY <1>1, <1>3, <1>4, SweepStep

LEMMA TimeKeeps ==
  ASSUME ReviewInv, TimePasses
  PROVE  ReviewInv'
<1>1. /\ Yielded /\ UNCHANGED <<op, owner, summary, vouched, answered, dir, files, meta>>
  BY DEF TimePasses, Sweep, Age, historyVars
<1>2. DOMAIN dir' = Runs /\ DOMAIN files' = Runs /\ DOMAIN meta' = Runs
  BY <1>1 DEF ReviewInv, StateTypes
<1>3. \A r \in Runs : RunNext(r)
  BY <1>1, InvNow DEF RunNext
<1> QED BY <1>1, <1>2, <1>3, SweepStep

LEMMA StutterKeeps ==
  ASSUME ReviewInv, UNCHANGED vars
  PROVE  ReviewInv'
<1>1. UNCHANGED <<op, owner, summary, vouched, answered, dir, files, meta>>
  BY DEF vars, storeVars
<1> QED BY <1>1 DEF ReviewInv, StateTypes, RunNow, OpOK

-----------------------------------------------------------------------------
(* The specification                                                       *)

LEMMA ReviewStarts == Init => ReviewInv
<1> SUFFICES ASSUME Init PROVE ReviewInv
  OBVIOUS
<1>1. /\ owner = [r \in Runs |-> None] /\ dir = [r \in Runs |-> FALSE]
      /\ files = [r \in Runs |-> [n \in Names |-> None]] /\ meta = [r \in Runs |-> None]
      /\ summary = [r \in Runs |-> None] /\ vouched = [r \in Runs |-> {}]
      /\ answered = [r \in Runs |-> None] /\ op = [s \in Sessions |-> Idle]
  BY DEF Init, StoreInit
<1>2. StateTypes
  BY <1>1 DEF StateTypes
<1>3. ASSUME NEW r \in Runs PROVE RunNow(r)
  <2>1. /\ files[r] = [n \in Names |-> None] /\ meta[r] = None /\ summary[r] = None
        /\ vouched[r] = {} /\ answered[r] = None
    BY <1>1
  <2>2. files[r] \in [Names -> Contents \cup {None}] /\ files[r]["finalize"] = None
    BY <2>1, NoneApart
  <2> QED BY <2>1, <2>2 DEF RunNow, RunOK
<1>4. ASSUME NEW s \in Sessions PROVE OpOK(s, op[s])
  <2>1. op[s] = Idle
    BY <1>1
  <2>2. Idle.run = None /\ Shape(Idle)
    BY IdleOp DEF OpNext
  <2> QED BY <2>1, <2>2 DEF OpOK
<1> QED BY <1>2, <1>3, <1>4 DEF ReviewInv

LEMMA ReviewKeeps ==
  ASSUME ReviewInv, [Next]_vars
  PROVE  ReviewInv'
<1>1. ASSUME NEW s \in Sessions,
             \/ PublishNext(s) \/ WriteFails(s)
             \/ materializeReviewRange(s) \/ GitRefuses(s) \/ GitAnswers(s)
             \/ runReviewPipeline(s) \/ HelperUnavailable(s) \/ HelperRejects(s) \/ HelperAccepts(s)
             \/ persistReviewArtifact(s) \/ ensureReviewIgnored(s) \/ IgnoreVerified(s)
             \/ Stage(s) \/ ValidatorPasses(s) \/ PersistStops(s)
      PROVE  ReviewInv'
  BY <1>1, PublishNextKeeps, WriteFailsKeeps, QuietKeeps, GitAnswersKeeps, PipelineKeeps,
     UnavailableKeeps, RejectsKeeps, AcceptsKeeps, PersistKeeps, StageKeeps, ValidatorKeeps
<1>2. CASE Crash \/ Prune \/ Recover \/ TimePasses
  BY <1>2, CrashKeeps, PruneKeeps, RecoverKeeps, TimeKeeps
<1>3. CASE UNCHANGED vars
  BY <1>3, StutterKeeps
<1> QED BY <1>1, <1>2, <1>3 DEF Next

LEMMA ReviewCorrect == Spec => []ReviewInv
<1>1. ReviewInv /\ [Next]_vars => ReviewInv'
  BY ReviewKeeps
<1> QED BY <1>1, ReviewStarts, PTL DEF Spec

(* A run that says published has its diff and every slice on disk, and      *)
(* readReviewDiff serves each of them up to its cap, after any              *)
(* interleaving, crash or failing write: the record that says so is         *)
(* published after the artifacts it lists, no later phase writes one of     *)
(* them, the sweeps remove a run whole, and packSlices cuts no slice that   *)
(* is over the cap.                                                         *)
THEOREM PublishedRunsComplete == Spec => []PublishedComplete
<1>1. ReviewInv => PublishedComplete
  <2> SUFFICES ASSUME ReviewInv, NEW r \in Runs, meta[r] # None, meta[r].state = "published"
               PROVE  /\ \A n \in DiffNames : Listed(meta[r], n) /\ files[r][n] = meta[r].first[n]
                      /\ \A n \in Slices : DiffServed(owner[r], r, n)
                      /\ \/ DiffServed(owner[r], r, "scope")
                         \/ meta[r].first["scope"].bytes > MaxDiffBytes
    BY DEF PublishedComplete
  <2>1. RunOK(owner[r], dir[r], files[r], meta[r], summary[r], vouched[r], answered[r])
    BY InvNow
  <2>2. dir[r] /\ Serves(meta[r], files[r]) /\ meta[r] \in Records
    BY <2>1 DEF RunOK
  <2>3. \A n \in DiffNames : /\ meta[r].first[n] # None /\ meta[r].first[n].bytes <= MaxFileBytes
                             /\ n \in Slices => meta[r].first[n].bytes <= MaxDiffBytes
                             /\ files[r][n] = meta[r].first[n]
    BY <2>2 DEF Serves, Lists
  <2>4. ASSUME NEW n \in DiffNames, meta[r].first[n].bytes <= MaxDiffBytes
        PROVE  DiffServed(owner[r], r, n)
    <3>1. meta[r].first[n].bytes <= DiffReadCap
      BY <2>3, <2>4 DEF DiffReadCap
    <3> QED BY <2>2, <2>3, <3>1 DEF DiffServed, Readable, Listed, ReadArtifact
  <2>5. meta[r].first["scope"].bytes \in Nat /\ "scope" \in DiffNames
    <3>1. "scope" \in DiffNames /\ "scope" \in Names
      BY DEF DiffNames, Names
    <3>2. meta[r].first["scope"] \in Contents
      BY <2>2, <2>3, <3>1 DEF Records
    <3> QED BY <3>1, <3>2 DEF Contents
  <2>6. \A n \in Slices : DiffServed(owner[r], r, n)
    BY <2>3, <2>4 DEF DiffNames
  <2>7. DiffServed(owner[r], r, "scope") \/ meta[r].first["scope"].bytes > MaxDiffBytes
    BY <2>4, <2>5, StoreAssumption
  <2> QED BY <2>3, <2>6, <2>7 DEF Listed
<1> QED BY <1>1, ReviewCorrect, PTL

(* What is persisted is the document of a well-formed output of a finalize  *)
(* of its own run: the output persistReviewArtifact made it from before its *)
(* awaits was vouched for then, and stays so whatever finalize runs         *)
(* meanwhile.                                                               *)
THEOREM SummariesVouched == Spec => []SummaryVouched
<1>1. ReviewInv => SummaryVouched
  <2> SUFFICES ASSUME ReviewInv, NEW r \in Runs, summary[r] # None
               PROVE  \E c \in vouched[r] : summary[r] = ReviewDocument(c)
    BY DEF SummaryVouched
  <2>1. RunOK(owner[r], dir[r], files[r], meta[r], summary[r], vouched[r], answered[r])
    BY InvNow
  <2> QED BY <2>1 DEF RunOK, DocumentsOf
<1> QED BY <1>1, ReviewCorrect, PTL

LEMMA SummaryWritten ==
  ASSUME Next, ~(\E s \in Sessions : ValidatorPasses(s))
  PROVE  summary' = summary
<1>1. ASSUME NEW s \in Sessions,
             \/ PublishNext(s) \/ WriteFails(s)
             \/ materializeReviewRange(s) \/ GitRefuses(s) \/ GitAnswers(s)
             \/ runReviewPipeline(s) \/ HelperUnavailable(s) \/ HelperRejects(s) \/ HelperAccepts(s)
             \/ persistReviewArtifact(s) \/ ensureReviewIgnored(s) \/ IgnoreVerified(s)
             \/ Stage(s) \/ PersistStops(s)
      PROVE  summary' = summary
  BY <1>1 DEF PublishNext, WriteFails, materializeReviewRange, GitRefuses, GitAnswers,
     runReviewPipeline, HelperUnavailable, HelperRejects, HelperAccepts, persistReviewArtifact,
     ensureReviewIgnored, IgnoreVerified, Stage, PersistStops, projectVars
<1>2. CASE Crash \/ Prune \/ Recover \/ TimePasses
  BY <1>2 DEF Crash, Prune, Recover, TimePasses, Sweep, projectVars
<1> QED BY <1>1, <1>2 DEF Next

(* No summary is written for a run whose last finalize was answered as      *)
(* rejected or invalid: a persist starts from an accepted record and an     *)
(* intact artifact, and the answer cannot change while it holds the lock.   *)
THEOREM RejectionHolds == Spec => RejectedNotPersisted
<1> DEFINE Step == \A r \in Runs : summary'[r] # summary[r] => answered[r] \notin {"rejected", "invalid"}
<1>1. ReviewInv /\ [Next]_vars => [Step]_vars
  <2> SUFFICES ASSUME ReviewInv, Next PROVE Step
    OBVIOUS
  <2>1. CASE \E s \in Sessions : ValidatorPasses(s)
    BY <2>1, ValidatorKeeps
  <2>2. CASE ~(\E s \in Sessions : ValidatorPasses(s))
    BY <2>2, SummaryWritten
  <2> QED BY <2>1, <2>2
<1> QED BY <1>1, ReviewCorrect, PTL DEF Spec, RejectedNotPersisted

-----------------------------------------------------------------------------
(* Types                                                                   *)

Answers == {None, "accepted", "rejected", "unavailable", "invalid"}

(* The directories by age.                                                  *)
AgesOK ==
  /\ dir \in [Runs -> BOOLEAN]
  /\ DOMAIN older = {r \in Runs : dir[r]}
  /\ \A r \in DOMAIN older : older[r] \subseteq DOMAIN older \ {r}
  /\ expired \subseteq DOMAIN older /\ \A r \in expired : older[r] \subseteq expired

StageOf(o) ==
  /\ o.pc \in {"idle", "sync", "git", "helper"} \cup PersistPcs
  /\ o.pc # "sync" => o.todo = <<>>
  /\ o.answer \in Answers

ProjectOK ==
  /\ entries \subseteq Runs
  /\ staged \in [Runs -> BOOLEAN]
  /\ faults \in 0..MaxFaults
  /\ answered \in [Runs -> Answers]

(* What is a function on the runs.                                          *)
FunctionsOK ==
  /\ files = [r \in Runs |-> files[r]]
  /\ summary = [r \in Runs |-> summary[r]]
  /\ vouched = [r \in Runs |-> vouched[r]]

(* What TypeOK says beyond ReviewInv.                                       *)
TypeInv ==
  /\ AgesOK
  /\ \A s \in Sessions : StageOf(op[s])
  /\ ProjectOK /\ FunctionsOK

(* A directory is made, or something in it changes.                         *)
LEMMA TouchedAges ==
  ASSUME AgesOK, NEW r \in Runs, Touched(r), dir' = [dir EXCEPT ![r] = TRUE]
  PROVE  AgesOK'
<1>1. dir' \in [Runs -> BOOLEAN] /\ \A x \in Runs : dir'[x] <=> (dir[x] \/ x = r)
  BY DEF AgesOK
<1>2. DOMAIN older' = DOMAIN older \cup {r}
  BY DEF Touched
<1>3. \A x \in DOMAIN older' :
        older'[x] = IF x = r THEN DOMAIN older \ {r} ELSE older[x] \ {r}
  BY DEF Touched
<1>4. expired' = expired \ {r}
  BY DEF Touched
<1>5. DOMAIN older' = {x \in Runs : dir'[x]}
  BY <1>1, <1>2 DEF AgesOK
<1>6. ASSUME NEW x \in DOMAIN older' PROVE older'[x] \subseteq DOMAIN older' \ {x}
  <2>1. CASE x = r
    BY <1>2, <1>3, <2>1
  <2>2. CASE x # r
    <3>1. x \in DOMAIN older /\ older'[x] = older[x] \ {r}
      BY <1>2, <1>3, <2>2
    <3>2. older[x] \subseteq DOMAIN older \ {x}
      BY <3>1 DEF AgesOK
    <3> QED BY <1>2, <3>1, <3>2
  <2> QED BY <2>1, <2>2
<1>7. expired' \subseteq DOMAIN older'
  BY <1>2, <1>4 DEF AgesOK
<1>8. ASSUME NEW x \in expired' PROVE older'[x] \subseteq expired'
  <2>1. x \in expired /\ x # r /\ x \in DOMAIN older'
    BY <1>4, <1>7
  <2>2. older'[x] = older[x] \ {r} /\ older[x] \subseteq expired
    BY <1>3, <2>1 DEF AgesOK
  <2> QED BY <1>4, <2>2
<1> QED BY <1>1, <1>5, <1>6, <1>7, <1>8 DEF AgesOK

LEMMA PrunedAges ==
  ASSUME AgesOK, pruneReviewRuns
  PROVE  AgesOK'
<1> DEFINE P == PruneSet
<1>1. /\ dir' = [r \in Runs |-> dir[r] /\ r \notin P]
      /\ older' = [r \in DOMAIN older \ P |-> older[r] \ P]
      /\ expired' = expired \ P
  BY DEF pruneReviewRuns
<1> HIDE DEF P
<1>2. dir' \in [Runs -> BOOLEAN] /\ \A x \in Runs : dir'[x] <=> (dir[x] /\ x \notin P)
  BY <1>1 DEF AgesOK
<1>3. DOMAIN older' = DOMAIN older \ P /\ \A x \in DOMAIN older' : older'[x] = older[x] \ P
  BY <1>1
<1>4. DOMAIN older' = {x \in Runs : dir'[x]}
  BY <1>2, <1>3 DEF AgesOK
<1>5. \A x \in DOMAIN older' : older'[x] \subseteq DOMAIN older' \ {x}
  BY <1>3 DEF AgesOK
<1>6. expired' \subseteq DOMAIN older' /\ \A x \in expired' : older'[x] \subseteq expired'
  BY <1>1, <1>3 DEF AgesOK
<1> QED BY <1>2, <1>4, <1>5, <1>6 DEF AgesOK

LEMMA RecoveredAges ==
  ASSUME AgesOK, recoverInterruptedRuns
  PROVE  AgesOK'
<1> DEFINE stale == {r \in expired : Open(r)}
<1>1. PICK rank \in Injection(stale, 1..Cardinality(stale)) :
        older' = [r \in DOMAIN older |->
                     IF r \in stale THEN (DOMAIN older \ stale) \cup {x \in stale : rank[x] < rank[r]}
                     ELSE older[r] \ stale]
  BY DEF recoverInterruptedRuns
<1>2. expired' = expired \ stale /\ dir' = dir
  BY DEF recoverInterruptedRuns
<1>3. stale \subseteq DOMAIN older
  BY DEF AgesOK
<1> HIDE DEF stale
<1>4. \A x \in stale : ~(rank[x] < rank[x])
  <2>1. \A x \in stale : rank[x] \in 1..Cardinality(stale)
    BY <1>1 DEF Injection
  <2> QED BY <2>1
<1>5. DOMAIN older' = DOMAIN older
  BY <1>1
<1>6. \A x \in stale : older'[x] = (DOMAIN older \ stale) \cup {y \in stale : rank[y] < rank[x]}
  BY <1>1, <1>3
<1>7. \A x \in DOMAIN older \ stale : older'[x] = older[x] \ stale
  BY <1>1
<1>8. ASSUME NEW x \in DOMAIN older' PROVE older'[x] \subseteq DOMAIN older' \ {x}
  <2>1. CASE x \in stale
    BY <1>3, <1>4, <1>5, <1>6, <2>1
  <2>2. CASE x \notin stale
    BY <1>5, <1>7, <2>2 DEF AgesOK
  <2> QED BY <2>1, <2>2
<1>9. expired' \subseteq DOMAIN older'
  BY <1>2, <1>5 DEF AgesOK
<1>10. ASSUME NEW x \in expired' PROVE older'[x] \subseteq expired'
  <2>1. x \in expired /\ x \notin stale /\ x \in DOMAIN older
    BY <1>2, <1>5, <1>9
  <2>2. older'[x] = older[x] \ stale /\ older[x] \subseteq expired
    BY <1>7, <2>1 DEF AgesOK
  <2> QED BY <1>2, <2>2
<1> QED BY <1>2, <1>5, <1>8, <1>9, <1>10 DEF AgesOK

LEMMA AgedAges ==
  ASSUME AgesOK, Age
  PROVE  AgesOK'
<1>1. PICK r \in DOMAIN older \ expired : older[r] \subseteq expired /\ expired' = expired \cup {r}
  BY DEF Age
<1>2. dir' = dir /\ older' = older
  BY DEF Age
<1> QED BY <1>1, <1>2 DEF AgesOK

LEMMA SameAges ==
  ASSUME AgesOK, UNCHANGED <<dir, older, expired>>
  PROVE  AgesOK'
BY DEF AgesOK

(* A session goes on to o; all others stay where they are.                  *)
LEMMA GotoTypes ==
  ASSUME ReviewInv, TypeInv, NEW s \in Sessions, NEW o, Goto(s, o), StageOf(o)
  PROVE  \A x \in Sessions : StageOf(op'[x])
<1>1. DOMAIN op = Sessions
  BY DEF ReviewInv, StateTypes
<1>2. \A x \in Sessions : op'[x] = IF x = s THEN o ELSE op[x]
  BY <1>1 DEF Goto
<1> QED BY <1>2 DEF TypeInv

LEMMA IdleStage == StageOf(Idle)
<1>1. Idle.pc = "idle" /\ Idle.todo = <<>> /\ Idle.answer = None
  BY DEF Idle
<1> QED BY <1>1 DEF StageOf, Answers

LEMMA SyncStage ==
  ASSUME NEW s, NEW r, NEW todo, NEW answer \in Answers
  PROVE  /\ StageOf(Sync(s, r, todo))
         /\ StageOf([Sync(s, r, todo) EXCEPT !.answer = answer])
         /\ StageOf([Sync(s, r, todo) EXCEPT !.phase = "materialize"])
<1>1. Sync(s, r, todo).pc = "sync" /\ Sync(s, r, todo).answer = None
  BY DEF Sync, Idle
<1>2. /\ [Sync(s, r, todo) EXCEPT !.answer = answer].pc = "sync"
      /\ [Sync(s, r, todo) EXCEPT !.answer = answer].answer = answer
  BY DEF Sync, Idle
<1>3. /\ [Sync(s, r, todo) EXCEPT !.phase = "materialize"].pc = "sync"
      /\ [Sync(s, r, todo) EXCEPT !.phase = "materialize"].answer = None
  BY DEF Sync, Idle
<1>4. None \in Answers
  BY DEF Answers
<1> QED BY <1>1, <1>2, <1>3, <1>4 DEF StageOf

LEMMA StartStage ==
  ASSUME NEW r, NEW phase, NEW content
  PROVE  /\ StageOf([Idle EXCEPT !.pc = "git"])
         /\ StageOf([Idle EXCEPT !.pc = "helper", !.run = r, !.phase = phase])
         /\ StageOf([Idle EXCEPT !.pc = "check", !.run = r, !.content = content])
<1> DEFINE g == [Idle EXCEPT !.pc = "git"]
           h == [Idle EXCEPT !.pc = "helper", !.run = r, !.phase = phase]
           c == [Idle EXCEPT !.pc = "check", !.run = r, !.content = content]
<1>1. /\ g.pc = "git" /\ g.todo = <<>> /\ g.answer = None
      /\ h.pc = "helper" /\ h.todo = <<>> /\ h.answer = None
      /\ c.pc = "check" /\ c.todo = <<>> /\ c.answer = None
  BY DEF Idle
<1> HIDE DEF g, h, c
<1>2. StageOf(g) /\ StageOf(h) /\ StageOf(c)
  BY <1>1 DEF StageOf, Answers, PersistPcs
<1> QED BY <1>2 DEF g, h, c

LEMMA MovedStage ==
  ASSUME NEW o, DOMAIN o = OpFields, StageOf(o), o.pc # "sync", NEW c \in PersistPcs
  PROVE  StageOf([o EXCEPT !.pc = c])
<1> DEFINE n == [o EXCEPT !.pc = c]
<1>1. n.pc = c /\ n.todo = o.todo /\ n.answer = o.answer
  BY DEF OpFields
<1> HIDE DEF n
<1>2. StageOf(n)
  BY <1>1 DEF StageOf
<1> QED BY <1>2 DEF n

LEMMA StagesStep ==
  ASSUME ReviewInv, TypeInv, Next
  PROVE  \A s \in Sessions : StageOf(op'[s])
<1>i. \A s \in Sessions : StageOf(op[s])
  BY DEF TypeInv
<1>1. ASSUME NEW s \in Sessions, PublishNext(s) PROVE \A x \in Sessions : StageOf(op'[x])
  <2> DEFINE o == op[s]
             g == o.guarded \/ (o.phase = "materialize" /\ Head(o.todo).kind = "meta")
             n == [o EXCEPT !.todo = Tail(o.todo), !.guarded = g]
  <2>1. Goto(s, n) \/ Goto(s, Idle)
    BY <1>1 DEF PublishNext, Return
  <2>2. o.pc = "sync" /\ DOMAIN o = OpFields /\ StageOf(o)
    <3>1. o.pc = "sync"
      BY <1>1 DEF PublishNext
    <3> QED BY <1>i, <3>1, SyncNow
  <2> HIDE DEF o, g
  <2>3. n.pc = "sync" /\ n.answer = o.answer
    BY <2>2 DEF OpFields
  <2> HIDE DEF n
  <2>4. StageOf(n)
    BY <2>2, <2>3 DEF StageOf
  <2> QED BY <2>1, <2>4, IdleStage, GotoTypes
<1>2. ASSUME NEW s \in Sessions, WriteFails(s) PROVE \A x \in Sessions : StageOf(op'[x])
  <2>1. \/ \E r, todo : Goto(s, Sync(s, r, todo))
        \/ Goto(s, Idle)
    BY <1>2 DEF WriteFails, Return
  <2>2. None \in Answers
    BY DEF Answers
  <2> QED BY <2>1, <2>2, SyncStage, IdleStage, GotoTypes
<1>3. ASSUME NEW s \in Sessions,
             GitRefuses(s) \/ HelperUnavailable(s) \/ ValidatorPasses(s) \/ PersistStops(s)
      PROVE  \A x \in Sessions : StageOf(op'[x])
  <2>1. Goto(s, Idle)
    BY <1>3 DEF GitRefuses, HelperUnavailable, ValidatorPasses, PersistStops, Return
  <2> QED BY <2>1, IdleStage, GotoTypes
<1>4. ASSUME NEW s \in Sessions,
             materializeReviewRange(s) \/ runReviewPipeline(s) \/ persistReviewArtifact(s)
      PROVE  \A x \in Sessions : StageOf(op'[x])
  <2>1. CASE materializeReviewRange(s)
    <3>1. Goto(s, [Idle EXCEPT !.pc = "git"])
      BY <2>1 DEF materializeReviewRange
    <3> QED BY <3>1, StartStage, GotoTypes
  <2>2. CASE runReviewPipeline(s)
    <3>1. \E r, phase : Goto(s, [Idle EXCEPT !.pc = "helper", !.run = r, !.phase = phase])
      BY <2>2 DEF runReviewPipeline
    <3> QED BY <3>1, StartStage, GotoTypes
  <2>3. CASE persistReviewArtifact(s)
    <3>1. \E r, c : Goto(s, [Idle EXCEPT !.pc = "check", !.run = r, !.content = c])
      BY <2>3 DEF persistReviewArtifact
    <3> QED BY <3>1, StartStage, GotoTypes
  <2> QED BY <1>4, <2>1, <2>2, <2>3
<1>5. ASSUME NEW s \in Sessions, GitAnswers(s) PROVE \A x \in Sessions : StageOf(op'[x])
  <2>1. \E r, todo : Goto(s, [Sync(s, r, todo) EXCEPT !.phase = "materialize"])
    BY <1>5 DEF GitAnswers
  <2>2. None \in Answers
    BY DEF Answers
  <2> QED BY <2>1, <2>2, SyncStage, GotoTypes
<1>6. ASSUME NEW s \in Sessions, HelperRejects(s) \/ HelperAccepts(s)
      PROVE  \A x \in Sessions : StageOf(op'[x])
  <2>1. \/ \E r, todo : \E a \in Answers : Goto(s, [Sync(s, r, todo) EXCEPT !.answer = a])
        \/ Goto(s, Idle)
    <3>1. CASE HelperRejects(s)
      <4>1. PICK a \in {"rejected", "unavailable"} :
              \/ \E r, todo : Goto(s, [Sync(s, r, todo) EXCEPT !.answer = a])
              \/ Goto(s, Idle)
        BY <3>1 DEF HelperRejects, Return
      <4>2. a \in Answers
        BY DEF Answers
      <4> QED BY <4>1, <4>2
    <3>2. CASE HelperAccepts(s)
      <4>1. PICK a \in {None, "accepted", "invalid"} :
              \/ \E r, todo : Goto(s, [Sync(s, r, todo) EXCEPT !.answer = a])
              \/ Goto(s, Idle)
        BY <3>2 DEF HelperAccepts, Return
      <4>2. a \in Answers
        BY DEF Answers
      <4> QED BY <4>1, <4>2
    <3> QED BY <1>6, <3>1, <3>2
  <2> QED BY <2>1, SyncStage, IdleStage, GotoTypes
<1>7. ASSUME NEW s \in Sessions, ensureReviewIgnored(s) \/ IgnoreVerified(s) \/ Stage(s)
      PROVE  \A x \in Sessions : StageOf(op'[x])
  <2> DEFINE o == op[s]
  <2>1. o.pc \in PersistPcs /\ \E c \in PersistPcs : Goto(s, [o EXCEPT !.pc = c])
    BY <1>7 DEF ensureReviewIgnored, IgnoreVerified, Stage, PersistPcs
  <2>2. DOMAIN o = OpFields /\ o.pc # "sync"
    BY <2>1, PersistNow DEF PersistPcs
  <2>3. StageOf(o)
    BY <1>i
  <2> HIDE DEF o
  <2> QED BY <2>1, <2>2, <2>3, MovedStage, GotoTypes
<1>8. ASSUME Crash PROVE \A x \in Sessions : StageOf(op'[x])
  BY <1>8, IdleStage DEF Crash
<1>9. ASSUME Prune \/ Recover \/ TimePasses PROVE \A x \in Sessions : StageOf(op'[x])
  BY <1>9, <1>i DEF Prune, Recover, TimePasses, Sweep
<1> QED BY <1>1, <1>2, <1>3, <1>4, <1>5, <1>6, <1>7, <1>8, <1>9 DEF Next

LEMMA AgesStep ==
  ASSUME ReviewInv, TypeInv, Next
  PROVE  AgesOK'
<1>i. AgesOK
  BY DEF TypeInv
<1>1. ASSUME NEW s \in Sessions, PublishNext(s) \/ WriteFails(s) PROVE AgesOK'
  <2>1. op[s].run \in Runs
    <3>1. op[s].pc = "sync"
      BY <1>1 DEF PublishNext, WriteFails
    <3> QED BY <3>1, SyncNow
  <2>2. \/ Touched(op[s].run) /\ dir' = [dir EXCEPT ![op[s].run] = TRUE]
        \/ UNCHANGED <<dir, older, expired>>
    BY <1>1 DEF PublishNext, WriteFails, Publish, storeVars
  <2> QED BY <1>i, <2>1, <2>2, TouchedAges, SameAges
<1>2. ASSUME NEW s \in Sessions, Stage(s) PROVE AgesOK'
  <2>1. op[s].run \in Runs
    <3>1. op[s].pc \in PersistPcs
      BY <1>2 DEF Stage, PersistPcs
    <3> QED BY <3>1, PersistNow
  <2>2. /\ dir' = [dir EXCEPT ![op[s].run] = TRUE]
        /\ \/ dir[op[s].run] /\ UNCHANGED <<older, expired>>
           \/ Touched(op[s].run)
    BY <1>2 DEF Stage
  <2>3. dir[op[s].run] => dir' = dir
    <3>1. dir \in [Runs -> BOOLEAN]
      BY <1>i DEF AgesOK
    <3> QED BY <2>1, <2>2, <3>1
  <2> QED BY <1>i, <2>1, <2>2, <2>3, TouchedAges, SameAges
<1>3. ASSUME NEW s \in Sessions,
             \/ materializeReviewRange(s) \/ GitRefuses(s) \/ GitAnswers(s)
             \/ runReviewPipeline(s) \/ HelperUnavailable(s) \/ HelperRejects(s) \/ HelperAccepts(s)
             \/ persistReviewArtifact(s) \/ ensureReviewIgnored(s) \/ IgnoreVerified(s)
             \/ ValidatorPasses(s) \/ PersistStops(s)
      PROVE  AgesOK'
  <2>1. UNCHANGED <<dir, older, expired>>
    BY <1>3 DEF materializeReviewRange, GitRefuses, GitAnswers, runReviewPipeline,
       HelperUnavailable, HelperRejects, HelperAccepts, persistReviewArtifact,
       ensureReviewIgnored, IgnoreVerified, ValidatorPasses, PersistStops, storeVars
  <2> QED BY <1>i, <2>1, SameAges
<1>4. ASSUME Crash PROVE AgesOK'
  BY <1>i, <1>4, SameAges DEF Crash, storeVars
<1>5. ASSUME Prune \/ Recover \/ TimePasses PROVE AgesOK'
  <2>1. pruneReviewRuns \/ recoverInterruptedRuns \/ Age
    BY <1>5 DEF Prune, Recover, TimePasses, Sweep
  <2> QED BY <1>i, <2>1, PrunedAges, RecoveredAges, AgedAges
<1> QED BY <1>1, <1>2, <1>3, <1>4, <1>5 DEF Next

LEMMA AnswerType ==
  ASSUME answered \in [Runs -> Answers], NEW r \in Runs, NEW a \in Answers, Answer(r, a)
  PROVE  answered' \in [Runs -> Answers]
BY DEF Answer

LEMMA ProjectStep ==
  ASSUME ReviewInv, TypeInv, Next
  PROVE  ProjectOK'
<1>i. ProjectOK /\ \A s \in Sessions : op[s].answer \in Answers
  BY DEF TypeInv, StageOf
<1>a. {None, "unavailable"} \subseteq Answers
  BY DEF Answers
<1>1. ASSUME NEW s \in Sessions, PublishNext(s) PROVE ProjectOK'
  <2>1. UNCHANGED <<entries, staged, faults>> /\ op[s].pc = "sync"
        /\ (answered' = answered \/ Answer(op[s].run, op[s].answer))
    BY <1>1 DEF PublishNext, projectVars
  <2>2. op[s].run \in Runs
    BY <2>1, SyncNow
  <2>3. answered' \in [Runs -> Answers]
    BY <1>i, <2>1, <2>2, AnswerType DEF ProjectOK
  <2> QED BY <1>i, <2>1, <2>3 DEF ProjectOK
<1>3. ASSUME NEW s \in Sessions, WriteFails(s) PROVE ProjectOK'
  <2>1. UNCHANGED <<entries, staged, answered>> /\ faults < MaxFaults /\ faults' = faults + 1
    BY <1>3 DEF WriteFails, projectVars, historyVars
  <2> QED BY <1>i, <2>1, PipelineAssumption DEF ProjectOK
<1>4. ASSUME NEW s \in Sessions, runReviewPipeline(s) PROVE ProjectOK'
  <2>1. /\ UNCHANGED <<entries, staged, faults>>
        /\ answered' = answered \/ \E r \in Runs : answered' = [answered EXCEPT ![r] = None]
    BY <1>4 DEF runReviewPipeline, projectVars
  <2>2. answered' \in [Runs -> Answers]
    BY <1>i, <1>a, <2>1 DEF ProjectOK
  <2> QED BY <1>i, <2>1, <2>2 DEF ProjectOK
<1>5. ASSUME NEW s \in Sessions, HelperUnavailable(s) PROVE ProjectOK'
  <2>1. /\ UNCHANGED <<entries, staged, faults>> /\ op[s].pc = "helper"
        /\ \E a \in {None, "unavailable"} : Answer(op[s].run, a)
    BY <1>5 DEF HelperUnavailable, projectVars
  <2>2. op[s].run \in Runs
    BY <2>1, HelperNow
  <2>3. answered' \in [Runs -> Answers]
    BY <1>i, <1>a, <2>1, <2>2, AnswerType DEF ProjectOK
  <2> QED BY <1>i, <2>1, <2>3 DEF ProjectOK
<1>6. ASSUME NEW s \in Sessions, ensureReviewIgnored(s) PROVE ProjectOK'
  <2>1. /\ UNCHANGED <<staged, faults, answered>> /\ op[s].pc \in PersistPcs
        /\ entries' = entries \/ entries' = entries \cup {op[s].run}
    BY <1>6 DEF ensureReviewIgnored, historyVars, PersistPcs
  <2>2. op[s].run \in Runs
    BY <2>1, PersistNow
  <2> QED BY <1>i, <2>1, <2>2 DEF ProjectOK
<1>7. ASSUME NEW s \in Sessions, Stage(s) PROVE ProjectOK'
  <2>1. /\ UNCHANGED <<entries, faults, answered>>
        /\ staged' = [staged EXCEPT ![op[s].run] = TRUE]
    BY <1>7 DEF Stage, historyVars
  <2>2. staged' \in [Runs -> BOOLEAN]
    BY <1>i, <2>1 DEF ProjectOK
  <2> QED BY <1>i, <2>1, <2>2 DEF ProjectOK
<1>8. ASSUME NEW s \in Sessions,
             \/ materializeReviewRange(s) \/ GitRefuses(s) \/ GitAnswers(s)
             \/ HelperRejects(s) \/ HelperAccepts(s)
             \/ persistReviewArtifact(s) \/ IgnoreVerified(s)
             \/ ValidatorPasses(s) \/ PersistStops(s)
      PROVE  ProjectOK'
  <2>1. UNCHANGED <<entries, staged, faults, answered>>
    BY <1>8 DEF materializeReviewRange, GitRefuses, GitAnswers, HelperRejects, HelperAccepts,
       persistReviewArtifact, IgnoreVerified, ValidatorPasses, PersistStops, projectVars,
       historyVars
  <2> QED BY <1>i, <2>1 DEF ProjectOK
<1>9. ASSUME Crash PROVE ProjectOK'
  <2>1. UNCHANGED <<entries, staged, answered>> /\ faults < MaxFaults /\ faults' = faults + 1
    BY <1>9 DEF Crash, projectVars, historyVars
  <2> QED BY <1>i, <2>1, PipelineAssumption DEF ProjectOK
<1>10. ASSUME Prune \/ Recover \/ TimePasses PROVE ProjectOK'
  <2>1. /\ UNCHANGED <<entries, faults, answered>>
        /\ staged' = staged \/ staged' = [r \in Runs |-> staged[r] /\ r \notin PruneSet]
    BY <1>10 DEF Prune, Recover, TimePasses, Sweep, historyVars
  <2>2. staged' \in [Runs -> BOOLEAN]
    BY <1>i, <2>1 DEF ProjectOK
  <2> QED BY <1>i, <2>1, <2>2 DEF ProjectOK
<1> QED BY <1>1, <1>3, <1>4, <1>5, <1>6, <1>7, <1>8, <1>9, <1>10 DEF Next

LEMMA ExceptFunction ==
  ASSUME NEW S, NEW f, f = [x \in S |-> f[x]], NEW a, NEW v, NEW g, g = [f EXCEPT ![a] = v]
  PROVE  g = [x \in S |-> g[x]]
<1>1. g = [x \in S |-> IF x = a THEN v ELSE f[x]]
  OBVIOUS
<1> QED BY <1>1

LEMMA FunctionsStep ==
  ASSUME TypeInv, Next
  PROVE  FunctionsOK'
<1>i. FunctionsOK
  BY DEF TypeInv
<1>1. files' = [r \in Runs |-> files'[r]]
  <2>1. \/ files' = files
        \/ \E r, v : files' = [files EXCEPT ![r] = v]
        \/ \E P : files' = [r \in Runs |-> IF r \in P THEN [n \in Names |-> None] ELSE files[r]]
    <3>1. ASSUME NEW s \in Sessions, PublishNext(s) \/ WriteFails(s)
          PROVE  files' = files \/ \E r, v : files' = [files EXCEPT ![r] = v]
      BY <3>1 DEF PublishNext, WriteFails, Publish, storeVars
    <3>2. ASSUME NEW s \in Sessions,
                 \/ materializeReviewRange(s) \/ GitRefuses(s) \/ GitAnswers(s)
                 \/ runReviewPipeline(s) \/ HelperUnavailable(s) \/ HelperRejects(s)
                 \/ HelperAccepts(s) \/ persistReviewArtifact(s) \/ ensureReviewIgnored(s)
                 \/ IgnoreVerified(s) \/ Stage(s) \/ ValidatorPasses(s) \/ PersistStops(s)
          PROVE  files' = files
      BY <3>2 DEF materializeReviewRange, GitRefuses, GitAnswers, runReviewPipeline,
         HelperUnavailable, HelperRejects, HelperAccepts, persistReviewArtifact,
         ensureReviewIgnored, IgnoreVerified, Stage, ValidatorPasses, PersistStops, storeVars
    <3>3. ASSUME Prune
          PROVE  \E P : files' = [r \in Runs |-> IF r \in P THEN [n \in Names |-> None] ELSE files[r]]
      BY <3>3 DEF Prune, Sweep, pruneReviewRuns
    <3>4. ASSUME Crash \/ Recover \/ TimePasses PROVE files' = files
      BY <3>4 DEF Crash, Recover, TimePasses, Sweep, recoverInterruptedRuns, Age, storeVars
    <3> QED BY <3>1, <3>2, <3>3, <3>4 DEF Next
  <2>2. files = [r \in Runs |-> files[r]]
    BY <1>i DEF FunctionsOK
  <2> QED BY <2>1, <2>2, ExceptFunction
<1>2. summary' = [r \in Runs |-> summary'[r]]
  <2>1. summary' = summary \/ \E r, v : summary' = [summary EXCEPT ![r] = v]
    <3>1. CASE \E s \in Sessions : ValidatorPasses(s)
      BY <3>1 DEF ValidatorPasses
    <3>2. CASE ~(\E s \in Sessions : ValidatorPasses(s))
      BY <3>2, SummaryWritten
    <3> QED BY <3>1, <3>2
  <2>2. summary = [r \in Runs |-> summary[r]]
    BY <1>i DEF FunctionsOK
  <2> QED BY <2>1, <2>2, ExceptFunction
<1>3. vouched' = [r \in Runs |-> vouched'[r]]
  <2>1. vouched' = vouched \/ \E r, v : vouched' = [vouched EXCEPT ![r] = v]
    <3>1. ASSUME NEW s \in Sessions, HelperAccepts(s)
          PROVE  vouched' = vouched \/ \E r, v : vouched' = [vouched EXCEPT ![r] = v]
      BY <3>1 DEF HelperAccepts
    <3>2. ASSUME NEW s \in Sessions,
                 \/ PublishNext(s) \/ WriteFails(s)
                 \/ materializeReviewRange(s) \/ GitRefuses(s) \/ GitAnswers(s)
                 \/ runReviewPipeline(s) \/ HelperUnavailable(s) \/ HelperRejects(s)
                 \/ persistReviewArtifact(s) \/ ensureReviewIgnored(s)
                 \/ IgnoreVerified(s) \/ Stage(s) \/ ValidatorPasses(s) \/ PersistStops(s)
          PROVE  vouched' = vouched
      BY <3>2 DEF PublishNext, WriteFails, materializeReviewRange, GitRefuses, GitAnswers,
         runReviewPipeline, HelperUnavailable, HelperRejects, persistReviewArtifact,
         ensureReviewIgnored, IgnoreVerified, Stage, ValidatorPasses, PersistStops, historyVars
    <3>3. ASSUME Crash \/ Prune \/ Recover \/ TimePasses PROVE vouched' = vouched
      BY <3>3 DEF Crash, Prune, Recover, TimePasses, Sweep, historyVars
    <3> QED BY <3>1, <3>2, <3>3 DEF Next
  <2>2. vouched = [r \in Runs |-> vouched[r]]
    BY <1>i DEF FunctionsOK
  <2> QED BY <2>1, <2>2, ExceptFunction
<1> QED BY <1>1, <1>2, <1>3 DEF FunctionsOK

LEMMA TypesStart == Init => TypeInv
<1> SUFFICES ASSUME Init PROVE TypeInv
  OBVIOUS
<1>1. /\ dir = [r \in Runs |-> FALSE] /\ older = [r \in {} |-> {}] /\ expired = {}
      /\ files = [r \in Runs |-> [n \in Names |-> None]]
      /\ summary = [r \in Runs |-> None] /\ vouched = [r \in Runs |-> {}]
      /\ answered = [r \in Runs |-> None] /\ op = [s \in Sessions |-> Idle]
      /\ entries = {} /\ staged = [r \in Runs |-> FALSE] /\ faults = 0
  BY DEF Init, StoreInit
<1>2. AgesOK
  <2>1. DOMAIN older = {} /\ dir \in [Runs -> BOOLEAN] /\ \A r \in Runs : ~dir[r]
    BY <1>1
  <2> QED BY <1>1, <2>1 DEF AgesOK
<1>3. \A s \in Sessions : StageOf(op[s])
  BY <1>1, IdleStage
<1>4. ProjectOK
  BY <1>1, PipelineAssumption DEF ProjectOK, Answers
<1>5. FunctionsOK
  BY <1>1 DEF FunctionsOK
<1> QED BY <1>2, <1>3, <1>4, <1>5 DEF TypeInv

LEMMA TypesKeep ==
  ASSUME ReviewInv, TypeInv, [Next]_vars
  PROVE  TypeInv'
<1>1. CASE Next
  BY <1>1, AgesStep, StagesStep, ProjectStep, FunctionsStep DEF TypeInv
<1>2. CASE UNCHANGED vars
  BY <1>2 DEF vars, storeVars, TypeInv, AgesOK, StageOf, ProjectOK, FunctionsOK
<1> QED BY <1>1, <1>2

LEMMA TypesImply ==
  ASSUME ReviewInv, TypeInv
  PROVE  TypeOK
<1>1. owner \in [Runs -> Sessions \cup {None}]
  BY DEF ReviewInv, StateTypes
<1>2. \A r \in Runs : /\ files[r] \in [Names -> Contents \cup {None}]
                      /\ vouched[r] \subseteq Contents
                      /\ meta[r] = None \/ meta[r] \in Records
                      /\ summary[r] = None \/ summary[r] \in DocumentsOf(vouched[r])
  BY DEF ReviewInv, RunNow, RunOK
<1>3. /\ files = [r \in Runs |-> files[r]]
      /\ summary = [r \in Runs |-> summary[r]]
      /\ vouched = [r \in Runs |-> vouched[r]]
  BY DEF TypeInv, FunctionsOK
<1>4. files \in [Runs -> [Names -> Contents \cup {None}]]
  BY <1>2, <1>3
<1>5. vouched \in [Runs -> SUBSET Contents]
  BY <1>2, <1>3
<1>6. summary \in [Runs -> Reviews \cup {None}]
  <2>1. \A c \in Contents : ReviewDocument(c) \in Reviews
    BY DEF ReviewDocument, Reviews, Contents
  <2>2. \A r \in Runs : summary[r] \in Reviews \cup {None}
    BY <1>2, <2>1 DEF DocumentsOf
  <2> QED BY <1>3, <2>2
<1>7. ASSUME NEW s \in Sessions
      PROVE  /\ op[s].pc \in {"idle", "sync", "git", "helper", "check", "verify", "stage",
                              "validate"}
             /\ op[s].run \in Runs \cup {None}
             /\ op[s].pc = "sync" <=> op[s].todo # <<>>
  <2>1. StageOf(op[s]) /\ Shape(op[s])
    BY InvNow DEF TypeInv
  <2>2. op[s].pc = "sync" => op[s].todo # <<>>
    BY SyncNow DEF TodoOK
  <2> QED BY <2>1, <2>2 DEF StageOf, Shape, PersistPcs
<1> QED BY <1>1, <1>2, <1>4, <1>5, <1>6, <1>7 DEF TypeOK, TypeInv, AgesOK, ProjectOK, Answers

(* Every variable of the review operations keeps its type, and the list of  *)
(* run directories by age, which the sweep of pruneReviewRuns and           *)
(* recoverInterruptedRuns goes by, names exactly the directories that       *)
(* exist, although publications, sweeps and a persist that makes a removed  *)
(* directory again interleave.                                              *)
THEOREM ReviewTypeCorrect == Spec => []TypeOK
<1>1. ReviewInv /\ TypeInv /\ [Next]_vars => TypeInv'
  BY TypesKeep
<1>2. ReviewInv /\ TypeInv => TypeOK
  BY TypesImply
<1> QED BY <1>1, <1>2, TypesStart, ReviewCorrect, PTL DEF Spec

=============================================================================

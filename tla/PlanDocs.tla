------------------------------ MODULE PlanDocs ------------------------------
(***************************************************************************)
(* The plan documents of a project and the broker operations that write    *)
(* them: planDocWrite, gateVerdict, taskMark and planDocAppend.            *)
(*                                                                         *)
(* A document is its prose (the set of the writers whose text it holds),   *)
(* whether its frontmatter has a route, the order of its sections of level *)
(* two below the prose, and the lines of those the broker writes: the      *)
(* numbers of the revisions, the gate verdicts, the ticks.  A request runs *)
(* under the lock of its session, so an agent, which is the identity of    *)
(* one session, has one at a time; the write itself runs under the lock of *)
(* the document, from the reading of the file to the rename.  The broker   *)
(* does not yield in between, but other programs do not wait for it: a     *)
(* human may edit the prose and the route between any two of its accesses  *)
(* to the file (edits of the broker's own sections by hand are left out).  *)
(* Documents share no state and no lock, so one is modelled; the target    *)
(* says which operations may write it.  Refusals of odd paths (links,      *)
(* non-files) and of documents with a section twice are left out.          *)
(***************************************************************************)
EXTENDS Integers, Sequences, SequencesExt, RolePolicy

CONSTANTS Writers,    \* the agents whose sessions send the requests
          Targets,    \* "tasks", "mini": odd/<target>/<name>.md; "todo": docs/TODO.md
          Tasks,      \* task ids
          MaxRevs, MaxGates, MaxTicks   \* bounds on the lines of a section

VARIABLES
    target, \* which document it is
    doc,    \* the file: a document, or None
    req,    \* the request of each writer
    late    \* history: an edit by hand fell where the write under way cannot see it

vars == <<target, doc, req, late>>

Verdicts == {"PASS", "REFINE"}   \* ESCALATE counts as REFINE does
Human == "human"

Sections == {"Revisions", "Gates", "Ticks"}

Document ==
    [prose : SUBSET (Writers \cup {Human}), route : BOOLEAN, order : Seq(Sections),
     revs : Seq(Nat), gates : Seq(Tasks \X Verdicts), ticks : Seq(Tasks)]

ASSUME PlanAssumption ==
    /\ None \notin Document \cup Verdicts
    /\ {MaxRevs, MaxGates, MaxTicks} \subseteq Nat

Started(writers) ==
    [prose |-> writers, route |-> FALSE, order |-> <<>>, revs |-> <<>>,
     gates |-> <<>>, ticks |-> <<>>]

Has(d, section) == d # None /\ Contains(d.order, section)
AtEnd(d, section) == Has(d, section) /\ Last(d.order) = section

\* planDocRevisionSection: the highest revision recorded.
Revision(d) == IF d = None THEN 0 ELSE Max(ToSet(d.revs) \cup {0})

\* Mutant: any PASS of the task counts, whatever followed it.
AnyVerdict(d, t) ==
    IF \E i \in 1..Len(d.gates) : d.gates[i] = <<t, "PASS">> THEN "PASS" ELSE None

\* readLatestGateVerdict.
LatestVerdict(d, t) ==
    LET of == {i \in 1..Len(d.gates) : d.gates[i][1] = t}
    IN IF of = {} THEN None ELSE d.gates[Max(of)][2]

----------------------------------------------------------------------------
(* The text each operation computes from the text it has read. *)

\* Mutant: the gate log is not carried over.
DropGates(d) == FALSE

\* writePlanDocAtomically: only a Gates section that ends the file is carried.
CarriesGates(d) == AtEnd(d, "Gates")

\* The content is new prose, and whatever of the ticks its author put in it:
\* only a Revisions and a Gates heading are refused there.
Written(d, by, content) ==
    [prose |-> {by}, route |-> content.route,
     order |-> (IF content.ticks = <<>> THEN <<>> ELSE <<"Ticks">>) \o <<"Revisions">>
                 \o (IF CarriesGates(d) THEN <<"Gates">> ELSE <<>>),
     revs  |-> Append(IF d = None THEN <<>> ELSE d.revs, Revision(d) + 1),
     gates |-> IF CarriesGates(d) THEN d.gates ELSE <<>>,
     ticks |-> content.ticks]

\* Mutant: every verdict opens a section of its own.
JudgedApart(d, t, v) ==
    [d EXCEPT !.gates = Append(@, <<t, v>>), !.order = Append(@, "Gates")]

\* appendGateLine.
Judged(d, t, v) ==
    [d EXCEPT !.gates = Append(@, <<t, v>>),
              !.order = IF Has(d, "Gates") THEN @ ELSE Append(@, "Gates")]

\* appendTaskMarkTick.
Ticked(d, t) ==
    [d EXCEPT !.ticks = Append(@, t),
              !.revs  = Append(@, Revision(d) + 1),
              !.order = LET ticked == IF Has(d, "Ticks") THEN @ ELSE Append(@, "Ticks")
                        IN IF Has(d, "Revisions") THEN ticked ELSE Append(ticked, "Revisions")]

\* computePlanDocAppend.
Appended(d, by) ==
    IF d = None THEN Started({by}) ELSE [d EXCEPT !.prose = @ \cup {by}]

----------------------------------------------------------------------------
(* The requests: who may send them, on the identity the broker recorded,    *)
(* which the agent of the payload must equal.                               *)

Quiet == [stage |-> "idle"]

PlanWriterAgents == {"planner"}
PlanMiniWriterAgents == {"pm-odd", "pm-systematic"}

Bounded(d) == d # None => /\ Len(d.revs) < MaxRevs
                          /\ Len(d.gates) < MaxGates
                          /\ Len(d.ticks) < MaxTicks

Submit(a, op, stage, args) ==
    /\ req[a] = Quiet
    /\ Bounded(doc)
    /\ authorizeHostDispatch(op, a)
    /\ req' = [req EXCEPT ![a] = [op |-> op, stage |-> stage, read |-> None, args |-> args]]
    /\ UNCHANGED <<target, doc, late>>

\* A PM's mini plan needs a route in its frontmatter, a tasks plan may not have
\* one; then the allowlist of the target.
PlanWritable(a, route) ==
    \/ target = "tasks" /\ a \in PlanWriterAgents /\ ~route
    \/ /\ target = "mini"
       /\ a \in PlanWriterAgents \cup PlanMiniWriterAgents
       /\ a # "planner" => route

\* The ticks of a document, which the author of new content may repeat.
TicksOf(d) == IF d = None THEN <<>> ELSE d.ticks

planDocWrite(a) ==
    \E n \in 0..MaxRevs, route \in BOOLEAN, ticks \in {<<>>, TicksOf(doc)} :
      /\ PlanWritable(a, route)
      /\ Submit(a, "planDocWrite", "queued", [expected |-> n, route |-> route, ticks |-> ticks])

gateVerdict(a) ==
    /\ target = "tasks" /\ a \in PlanWriterAgents
    /\ \E t \in Tasks, v \in Verdicts :
         Submit(a, "gateVerdict", "queued", [task |-> t, verdict |-> v])

taskMark(a) ==
    /\ target \in {"tasks", "mini"}
    /\ \E t \in Tasks : Submit(a, "taskMark", "assess", [task |-> t])

planDocAppend(a) ==
    /\ target = "todo"
    /\ Submit(a, "planDocAppend", "queued", None)

\* taskMark's two awaits: the evidence commit is looked up, the tier assessed.
\* An unknown commit is refused; a failed or late assessment only means "high".
Assessed(a) ==
    /\ req[a].stage = "assess"
    /\ \/ req' = [req EXCEPT ![a].stage = "queued"]
       \/ req' = [req EXCEPT ![a] = Quiet]
    /\ UNCHANGED <<target, doc, late>>

----------------------------------------------------------------------------
(* The writes: under the lock of the document the file is read and checked, *)
(* the new text written beside it, the file looked at again, and renamed.   *)

\* The holder of withPlanDocLock.
HasLock(a) == req[a].stage \in {"gated", "written", "rename"}
Locked == \E b \in Writers : HasLock(b)

\* The request of a goes on to another stage, or is refused.
Proceed(a, ok, next) ==
    /\ req' = [req EXCEPT ![a] = IF ok THEN next ELSE Quiet]
    /\ UNCHANGED <<target, doc>>

\* The file is read, and the new text written to a temporary file.
ReadFrom(a, accepted) ==
    Proceed(a, accepted, [req[a] EXCEPT !.stage = "written", !.read = <<doc>>])

\* The lock is free, and the file is read at once.
Read(a, op, accepted) ==
    /\ req[a].stage = "queued" /\ req[a].op = op
    /\ ~Locked
    /\ ReadFrom(a, accepted)
    /\ late' = FALSE

\* What the request read, and that it is still what the file holds.
Base(a) == req[a].read[1]
BytesUnchanged(a) == doc = Base(a)

\* The look at the file before the rename.  A verdict only needs it to be still
\* there, an append not even that.
Recheck(a) ==
    /\ req[a].stage = "written"
    /\ Proceed(a, /\ req[a].op \in {"planDocWrite", "taskMark"} => BytesUnchanged(a)
                  /\ req[a].op = "gateVerdict" => doc # None,
               [req[a] EXCEPT !.stage = "rename"])
    /\ UNCHANGED late

\* renameSync replaces the file, whatever it holds now.
Rename(a, op, text) ==
    /\ req[a].stage = "rename" /\ req[a].op = op
    /\ doc' = text
    /\ req' = [req EXCEPT ![a] = Quiet]
    /\ UNCHANGED <<target, late>>

\* Mutant: the expected revision is not compared.
AnyRevision(d, n) == TRUE

\* PLAN_WRITE_STALE_REVISION.
Fresh(d, n) == n = Revision(d)

ReadPlan(a) == Read(a, "planDocWrite", Fresh(doc, req[a].args.expected))
writePlanDocAtomically(a) == Rename(a, "planDocWrite", Written(Base(a), a, req[a].args))

\* GATE_VERDICT_DOCUMENT_MISSING, GATE_VERDICT_GATES_SECTION_NOT_AT_END.
Judgeable(d) == d # None /\ (Has(d, "Gates") => AtEnd(d, "Gates"))

ReadGates(a) == Read(a, "gateVerdict", Judgeable(doc))
appendGateVerdictAtomically(a) ==
    Rename(a, "gateVerdict", Judged(Base(a), req[a].args.task, req[a].args.verdict))

\* TASK_MARK_GATE_NOT_PASSED.
GatePassed(d, t) ==
    d # None /\ (d.route \/ Has(d, "Gates") => LatestVerdict(d, t) = "PASS")

\* taskMark takes the lock, reads the file and checks the gate, ...
CheckGate(a) ==
    /\ req[a].stage = "queued" /\ req[a].op = "taskMark"
    /\ ~Locked
    /\ Proceed(a, GatePassed(doc, req[a].args.task), [req[a] EXCEPT !.stage = "gated"])
    /\ late' = FALSE

\* TASK_MARK_DOCUMENT_MISSING, TASK_MARK_TICKS_NOT_FINAL.
Markable(d) == d # None /\ (Has(d, "Ticks") => AtEnd(d, "Ticks"))

\* ... and reads it a second time for the tick and the comparison.
ReadMark(a) ==
    /\ req[a].stage = "gated"
    /\ ReadFrom(a, Markable(doc))
    /\ UNCHANGED late
writeTaskMarkAtomically(a) == Rename(a, "taskMark", Ticked(Base(a), req[a].args.task))

ReadAppend(a) == Read(a, "planDocAppend", TRUE)
appendPlanDocAtomically(a) == Rename(a, "planDocAppend", Appended(Base(a), a))

\* An I/O error, or a crash of the broker: at most a temporary file is left.
Fails(a) ==
    /\ req[a].stage = "queued" \/ HasLock(a)
    /\ Proceed(a, FALSE, Quiet)
    /\ UNCHANGED late

\* What an edit by hand leaves: prose of the human's, and a route or none.
Edited(d, route) == [Appended(d, Human) EXCEPT !.route = route]

\* Someone edits the document outside the broker, or starts one.  A write does
\* not see it between taskMark's two reads and after the last look at the file.
HumanEdits ==
    /\ \E route \in BOOLEAN : doc' = Edited(doc, route)
    /\ late' = (late \/ \E a \in Writers : req[a].stage \in {"gated", "rename"})
    /\ UNCHANGED <<target, req>>

----------------------------------------------------------------------------

Init == /\ target \in Targets
        /\ doc = None
        /\ req = [a \in Writers |-> Quiet]
        /\ late = FALSE

Next ==
    \/ \E a \in Writers :
         \/ planDocWrite(a) \/ ReadPlan(a) \/ writePlanDocAtomically(a)
         \/ gateVerdict(a) \/ ReadGates(a) \/ appendGateVerdictAtomically(a)
         \/ taskMark(a) \/ Assessed(a) \/ CheckGate(a) \/ ReadMark(a) \/ writeTaskMarkAtomically(a)
         \/ planDocAppend(a) \/ ReadAppend(a) \/ appendPlanDocAtomically(a)
         \/ Recheck(a) \/ Fails(a)
    \/ HumanEdits

Spec == Init /\ [][Next]_vars

----------------------------------------------------------------------------
(* Properties. *)

(* The type invariant: a document is of the shape the four operations keep, *)
(* no section stands in it twice, and a request is at one of their stages.  *)
TypeOK ==
    /\ target \in Targets
    /\ doc # None => doc \in Document /\ IsInjective(doc.order)
    /\ \A a \in Writers : req[a].stage \in {"idle", "assess", "queued", "gated", "written", "rename"}

\* The request of a, an op, is renamed over the document.
Renames(a, op) ==
    req[a].stage = "rename" /\ req[a].op = op /\ doc' # doc /\ req'[a] = Quiet

(* A tick adds to the ticks of the document it replaces and drops no        *)
(* verdict; and unless someone edited the file by hand between taskMark's   *)
(* two reads of it or between its comparison of the bytes and its rename,   *)
(* in the very document it replaces a PASS stands for the task that no      *)
(* later verdict of the task follows, or the document has neither a gate    *)
(* log nor a route, and the prose and the route stay as they are, an edit   *)
(* made while the new text was written included (taskMark: the check after  *)
(* the two awaits, and assertPlanDocBytesUnchanged before the rename).      *)
TickIsGated ==
    [][\A a \in Writers : Renames(a, "taskMark") =>
         LET t == req[a].args.task
         IN /\ doc'.gates = doc.gates /\ doc'.ticks = Append(doc.ticks, t)
            /\ ~late =>
                 /\ \/ ~doc.route /\ ~Has(doc, "Gates")
                    \/ \E i \in 1..Len(doc.gates) :
                         /\ doc.gates[i] = <<t, "PASS">>
                         /\ \A j \in i + 1..Len(doc.gates) : doc.gates[j][1] # t
                 /\ doc'.prose = doc.prose /\ doc'.route = doc.route]_vars

(* Two writers never build on the same revision: a plan write replaces the  *)
(* revision its author named, the revisions of a document count 1, 2, 3 ... *)
(* and none is lost (planDocWrite's compare-and-swap under the document's   *)
(* lock, and taskMark counting its own revision).                           *)
RevisionsCount ==
    [][/\ \A a \in Writers : Renames(a, "planDocWrite") => req[a].args.expected = Revision(doc)
       /\ doc' # None => \A i \in 1..Len(doc'.revs) : doc'.revs[i] = i
       /\ doc # None => IsPrefix(doc.revs, doc'.revs)]_vars

(* What the broker has appended stays: verdicts, ticks and appended text    *)
(* survive every step but a plan write, and a plan write keeps the verdicts *)
(* as long as no tick stands behind the gate log (carriedGates).            *)
AppendsKept ==
    [][doc # None =>
         LET rewritten == \E a \in Writers : Renames(a, "planDocWrite")
         IN /\ ~rewritten \/ AtEnd(doc, "Gates") => IsPrefix(doc.gates, doc'.gates)
            /\ ~rewritten => /\ IsPrefix(doc.ticks, doc'.ticks)
                             /\ doc.prose \ {Human} \subseteq doc'.prose]_vars

=============================================================================

--------------------------- MODULE PlanDocsProofs ---------------------------
(***************************************************************************)
(* Proofs about the plan documents, for any writers, tasks and bounds.     *)
(***************************************************************************)
EXTENDS PlanDocs, SequenceTheorems, WellFoundedInduction, TLAPS

----------------------------------------------------------------------------
(* Sequences. *)

(* A set of positions has a last one.                                       *)
LEMMA LastPosition ==
  ASSUME NEW n \in Nat, NEW S \in SUBSET (1..n), S # {}
  PROVE  Max(S) \in S /\ \A i \in S : i <= Max(S)
<1> DEFINE T == {i \in Nat : n - i \in S}
<1>1. T # {} /\ T \in SUBSET Nat
  <2>1. PICK i \in S : TRUE
    OBVIOUS
  <2>2. n - i \in Nat /\ n - (n - i) = i
    OBVIOUS
  <2> QED BY <2>2
<1> DEFINE Below == OpToRel(<, Nat)
<1>a. \A i, j \in Nat : i < j => <<i, j>> \in Below
  BY Zenon DEF OpToRel
<1>b. IsWellFoundedOn(Below, Nat)
  BY NatLessThanWellFounded
<1> HIDE DEF Below
<1>2. PICK x \in T : \A y \in T : <<y, x>> \notin Below
  BY <1>1, <1>b, WFMin
<1>3. n - x \in S
  OBVIOUS
<1>4. ASSUME NEW i \in S PROVE i <= n - x
  <2>1. n - i \in T
    <3>1. n - i \in Nat /\ n - (n - i) = i
      OBVIOUS
    <3> QED BY <3>1
  <2>2. ~(n - i < x)
    BY <1>1, <1>2, <1>a, <2>1
  <2> QED BY <1>1, <2>1, <2>2
<1> QED BY <1>3, <1>4 DEF Max

LEMMA PrefixSelf ==
  ASSUME NEW S, NEW s \in Seq(S)
  PROVE  IsPrefix(s, s)
BY DEF IsPrefix

LEMMA PrefixAppend ==
  ASSUME NEW S, NEW s \in Seq(S), NEW e \in S
  PROVE  IsPrefix(s, Append(s, e))
<1>1. Append(s, e) \in Seq(S) /\ Len(Append(s, e)) = Len(s) + 1
  OBVIOUS
<1>2. SubSeq(s, 1, Len(s)) = SubSeq(Append(s, e), 1, Len(s))
  <2>1. \A i \in 1..Len(s) : Append(s, e)[i] = s[i]
    OBVIOUS
  <2> QED BY <1>1, <2>1
<1> QED BY <1>1, <1>2 DEF IsPrefix

(* A section that was missing is added at the end.                          *)
LEMMA AppendInjective1 ==
  ASSUME NEW S, NEW s \in Seq(S), IsInjective(s), NEW e \in S, ~Contains(s, e)
  PROVE  IsInjective(Append(s, e))
<1>1. DOMAIN Append(s, e) = 1..Len(s) + 1 /\ DOMAIN s = 1..Len(s)
  OBVIOUS
<1>2. \A i \in 1..Len(s) : Append(s, e)[i] = s[i] /\ s[i] # e
  BY DEF Contains
<1>3. Append(s, e)[Len(s) + 1] = e
  OBVIOUS
<1> SUFFICES ASSUME NEW i \in 1..Len(s) + 1, NEW j \in 1..Len(s) + 1,
                    Append(s, e)[i] = Append(s, e)[j]
             PROVE  i = j
  BY <1>1 DEF IsInjective
<1>4. CASE i = Len(s) + 1 /\ j = Len(s) + 1
  BY <1>4
<1>5. CASE i \in 1..Len(s) /\ j \in 1..Len(s)
  BY <1>1, <1>2, <1>5 DEF IsInjective
<1>6. CASE i \in 1..Len(s) /\ j = Len(s) + 1
  BY <1>2, <1>3, <1>6
<1>7. CASE i = Len(s) + 1 /\ j \in 1..Len(s)
  BY <1>2, <1>3, <1>7
<1> QED BY <1>4, <1>5, <1>6, <1>7

LEMMA AppendContains ==
  ASSUME NEW S, NEW s \in Seq(S), NEW e \in S, NEW f, f # e
  PROVE  Contains(Append(s, e), f) <=> Contains(s, f)
BY DEF Contains

----------------------------------------------------------------------------
(* Documents. *)

Counted(d) == \A i \in 1..Len(d.revs) : d.revs[i] = i
Good(d) == d \in Document /\ IsInjective(d.order) /\ Counted(d)

(* The revisions count 1, 2, 3, ..., so that the last one is their number.  *)
LEMMA RevisionIsLen ==
  ASSUME NEW d, Good(d)
  PROVE  Revision(d) = Len(d.revs)
<1>1. d # None /\ d.revs \in Seq(Nat) /\ Len(d.revs) \in Nat
  BY PlanAssumption DEF Good, Document
<1> DEFINE S == ToSet(d.revs) \cup {0}
<1>2. S = 0..Len(d.revs)
  BY <1>1 DEF Good, Counted, ToSet
<1>3. Max(S) = Len(d.revs)
  BY <1>1, <1>2 DEF Max
<1> QED BY <1>1, <1>3 DEF Revision

LEMMA CountOn ==
  ASSUME NEW s \in Seq(Nat), \A i \in 1..Len(s) : s[i] = i
  PROVE  /\ Append(s, Len(s) + 1) \in Seq(Nat)
         /\ \A i \in 1..Len(Append(s, Len(s) + 1)) : Append(s, Len(s) + 1)[i] = i
         /\ IsPrefix(s, Append(s, Len(s) + 1))
<1>1. Append(s, Len(s) + 1) \in Seq(Nat) /\ Len(Append(s, Len(s) + 1)) = Len(s) + 1
  OBVIOUS
<1>2. ASSUME NEW i \in 1..Len(s) + 1 PROVE Append(s, Len(s) + 1)[i] = i
  OBVIOUS
<1>3. IsPrefix(s, Append(s, Len(s) + 1))
  BY PrefixAppend
<1> QED BY <1>1, <1>2, <1>3

(* A plan write counts one more revision, and keeps a gate log that ends    *)
(* the document (writePlanDocAtomically).                                   *)
PlanArgs == [expected : Nat, route : BOOLEAN, ticks : Seq(Tasks)]

LEMMA WrittenOrder ==
  ASSUME NEW d, NEW by, NEW content
  PROVE  /\ Written(d, by, content).order \in Seq(Sections)
         /\ IsInjective(Written(d, by, content).order)
<1> DEFINE o == Written(d, by, content).order
<1>1. o = (IF content.ticks = <<>> THEN <<>> ELSE <<"Ticks">>) \o <<"Revisions">>
            \o (IF CarriesGates(d) THEN <<"Gates">> ELSE <<>>)
  BY DEF Written
<1> DEFINE A == IF content.ticks = <<>> THEN <<>> ELSE <<"Ticks">>
           B == <<"Revisions">>
           C == IF CarriesGates(d) THEN <<"Gates">> ELSE <<>>
<1>e. <<>> \in Seq(Sections) /\ Len(<<>>) = 0
  OBVIOUS
<1>2. A \in Seq(Sections) /\ (Len(A) = 0 \/ (Len(A) = 1 /\ A[1] = "Ticks"))
  <2>1. <<"Ticks">> \in Seq(Sections) /\ Len(<<"Ticks">>) = 1 /\ <<"Ticks">>[1] = "Ticks"
    BY DEF Sections
  <2> QED BY Zenon, <1>e, <2>1
<1>3. B \in Seq(Sections) /\ Len(B) = 1 /\ B[1] = "Revisions"
  BY DEF Sections
<1>4. C \in Seq(Sections) /\ (Len(C) = 0 \/ (Len(C) = 1 /\ C[1] = "Gates"))
  <2>1. <<"Gates">> \in Seq(Sections) /\ Len(<<"Gates">>) = 1 /\ <<"Gates">>[1] = "Gates"
    BY DEF Sections
  <2> QED BY Zenon, <1>e, <2>1
<1>5. o = (A \o B) \o C
  BY Zenon, <1>1
<1> HIDE DEF A, B, C, o
<1>6. /\ A \o B \in Seq(Sections) /\ Len(A \o B) = Len(A) + 1
      /\ \A i \in 1..Len(A) + 1 : (A \o B)[i] = IF i <= Len(A) THEN A[i] ELSE B[i - Len(A)]
  <2>1. /\ A \o B \in Seq(Sections) /\ Len(A \o B) = Len(A) + Len(B)
        /\ \A i \in 1..Len(A) + Len(B) :
             (A \o B)[i] = IF i <= Len(A) THEN A[i] ELSE B[i - Len(A)]
    BY Zenon, <1>2, <1>3, ConcatProperties
  <2> QED BY Zenon, <1>3, <2>1
<1> DEFINE AB == A \o B
<1>7. \/ Len(AB) = 1 /\ AB[1] = "Revisions"
      \/ Len(AB) = 2 /\ AB[1] = "Ticks" /\ AB[2] = "Revisions"
  BY <1>2, <1>3, <1>6
<1>8. AB \in Seq(Sections) /\ o = AB \o C
  BY <1>5, <1>6
<1> HIDE DEF AB
<1>9. /\ o \in Seq(Sections) /\ Len(o) = Len(AB) + Len(C)
      /\ \A i \in 1..Len(AB) + Len(C) : o[i] = IF i <= Len(AB) THEN AB[i] ELSE C[i - Len(AB)]
  BY <1>4, <1>8, ConcatProperties
<1>10. \A i, j \in 1..Len(o) : o[i] = o[j] => i = j
  <2>1. CASE Len(C) = 0
    BY <1>7, <1>9, <2>1
  <2>2. CASE Len(C) = 1
    BY <1>4, <1>7, <1>9, <2>2
  <2> QED BY <1>4, <2>1, <2>2
<1>11. DOMAIN o = 1..Len(o)
  BY <1>9
<1> QED BY <1>9, <1>10, <1>11 DEF IsInjective, o

LEMMA WrittenGood ==
  ASSUME NEW d, d = None \/ Good(d), NEW by \in Writers, NEW content \in PlanArgs
  PROVE  /\ Good(Written(d, by, content))
         /\ d # None => /\ IsPrefix(d.revs, Written(d, by, content).revs)
                        /\ AtEnd(d, "Gates") => Written(d, by, content).gates = d.gates
<1> DEFINE w == Written(d, by, content)
           old == IF d = None THEN <<>> ELSE d.revs
<1>1. old \in Seq(Nat) /\ (\A i \in 1..Len(old) : old[i] = i) /\ Revision(d) = Len(old)
  <2>1. CASE d = None
    BY <2>1 DEF Revision
  <2>2. CASE d # None
    BY <2>2, RevisionIsLen DEF Good, Document, Counted
  <2> QED BY <2>1, <2>2
<1>2. w.revs = Append(old, Len(old) + 1)
  BY <1>1 DEF Written
<1>3. w.revs \in Seq(Nat) /\ Counted(w) /\ IsPrefix(old, w.revs)
  BY <1>1, <1>2, CountOn DEF Counted
<1>4. w.order \in Seq(Sections) /\ IsInjective(w.order)
  BY WrittenOrder
<1>5. w.gates \in Seq(Tasks \X Verdicts)
  BY DEF Written, CarriesGates, AtEnd, Has, Good, Document
<1>6. /\ w.prose \in SUBSET (Writers \cup {Human}) /\ w.route \in BOOLEAN
      /\ w.ticks \in Seq(Tasks)
  BY DEF Written, PlanArgs
<1>7. w = [prose |-> w.prose, route |-> w.route, order |-> w.order, revs |-> w.revs,
           gates |-> w.gates, ticks |-> w.ticks]
  BY DEF Written
<1>8. w \in Document
  <2> HIDE DEF w
  <2> QED BY <1>3, <1>4, <1>5, <1>6, <1>7 DEF Document
<1>9. AtEnd(d, "Gates") => w.gates = d.gates
  BY DEF Written, CarriesGates
<1> QED BY <1>3, <1>4, <1>8, <1>9 DEF Good

(* A verdict is added to the gate log, which is started if need be.         *)
LEMMA JudgedGood ==
  ASSUME NEW d, Good(d), NEW t \in Tasks, NEW v \in Verdicts
  PROVE  /\ Good(Judged(d, t, v))
         /\ Judged(d, t, v).revs = d.revs /\ Judged(d, t, v).ticks = d.ticks
         /\ Judged(d, t, v).prose = d.prose /\ IsPrefix(d.gates, Judged(d, t, v).gates)
<1>1. d \in Document /\ d # None
  BY PlanAssumption DEF Good
<1>2. /\ d.gates \in Seq(Tasks \X Verdicts) /\ d.order \in Seq(Sections)
      /\ <<t, v>> \in Tasks \X Verdicts
  BY <1>1 DEF Document
<1> DEFINE j == Judged(d, t, v)
           o == IF Has(d, "Gates") THEN d.order ELSE Append(d.order, "Gates")
           g == Append(d.gates, <<t, v>>)
<1>3. j = [d EXCEPT !.gates = g, !.order = o]
  BY DEF Judged
<1>4. o \in Seq(Sections) /\ IsInjective(o)
  BY <1>1, <1>2, AppendInjective1 DEF Has, Good, Sections
<1>5. g \in Seq(Tasks \X Verdicts) /\ IsPrefix(d.gates, g)
  BY <1>2, PrefixAppend
<1> HIDE DEF o, g, j
<1>6. /\ j \in Document /\ j.order = o /\ j.revs = d.revs /\ j.gates = g
      /\ j.ticks = d.ticks /\ j.prose = d.prose
  BY <1>1, <1>3, <1>4, <1>5 DEF Document
<1>7. Good(j)
  BY <1>4, <1>6 DEF Good, Counted
<1> QED BY <1>5, <1>6, <1>7 DEF j

(* A tick is added, and a revision with it.                                 *)
LEMMA TickedGood ==
  ASSUME NEW d, Good(d), NEW t \in Tasks
  PROVE  /\ Good(Ticked(d, t))
         /\ IsPrefix(d.revs, Ticked(d, t).revs) /\ Ticked(d, t).ticks = Append(d.ticks, t)
         /\ Ticked(d, t).prose = d.prose /\ Ticked(d, t).gates = d.gates
         /\ Ticked(d, t).route = d.route
<1>1. d \in Document /\ d # None /\ Revision(d) = Len(d.revs)
  BY PlanAssumption, RevisionIsLen DEF Good
<1>2. d.ticks \in Seq(Tasks) /\ d.order \in Seq(Sections) /\ d.revs \in Seq(Nat)
  BY <1>1 DEF Document
<1> DEFINE k == Ticked(d, t)
           o1 == IF Has(d, "Ticks") THEN d.order ELSE Append(d.order, "Ticks")
           o == IF Has(d, "Revisions") THEN o1 ELSE Append(o1, "Revisions")
           r == Append(d.revs, Len(d.revs) + 1)
           x == Append(d.ticks, t)
<1>3. k = [d EXCEPT !.ticks = x, !.revs = r, !.order = o]
  BY <1>1 DEF Ticked
<1>4. o1 \in Seq(Sections) /\ IsInjective(o1)
  BY <1>1, <1>2, AppendInjective1 DEF Has, Good, Sections
<1>5. ~Has(d, "Revisions") => ~Contains(o1, "Revisions")
  BY <1>1, <1>2, AppendContains DEF Has, Sections
<1> HIDE DEF o1
<1>6. o \in Seq(Sections) /\ IsInjective(o)
  BY <1>4, <1>5, AppendInjective1 DEF Sections
<1>7. r \in Seq(Nat) /\ (\A i \in 1..Len(r) : r[i] = i) /\ IsPrefix(d.revs, r)
  BY <1>2, CountOn DEF Good, Counted
<1>8. x \in Seq(Tasks)
  BY <1>2
<1> HIDE DEF o, r, x, k
<1>9. /\ k \in Document /\ k.order = o /\ k.revs = r /\ k.gates = d.gates
      /\ k.ticks = x /\ k.prose = d.prose /\ k.route = d.route
  BY <1>1, <1>3, <1>6, <1>7, <1>8 DEF Document
<1>10. Good(k)
  BY <1>6, <1>7, <1>9 DEF Good, Counted
<1> QED BY <1>7, <1>9, <1>10 DEF k, x

(* Text is added at the end, by an agent or by hand.                        *)
LEMMA AppendedGood ==
  ASSUME NEW d, d = None \/ Good(d), NEW by \in Writers \cup {Human}
  PROVE  /\ Good(Appended(d, by))
         /\ d # None =>
              Appended(d, by) = [d EXCEPT !.prose = d.prose \cup {by}]
<1>1. CASE d = None
  <2> DEFINE e == Started({by})
  <2>1. Appended(d, by) = e
    BY <1>1 DEF Appended
  <2>2. e \in Document
    BY DEF Started, Document
  <2>3. IsInjective(e.order) /\ Counted(e)
    BY DEF Started, IsInjective, Counted
  <2> QED BY <1>1, <2>1, <2>2, <2>3 DEF Good
<1>2. CASE d # None
  <2> DEFINE e == [d EXCEPT !.prose = d.prose \cup {by}]
  <2>1. Appended(d, by) = e
    BY <1>2 DEF Appended
  <2>2. e \in Document /\ e.order = d.order /\ e.revs = d.revs
    BY <1>2 DEF Good, Document
  <2>3. Good(e)
    <3> HIDE DEF e
    <3> QED BY <1>2, <2>2 DEF Good, Counted
  <2> QED BY <2>1, <2>3
<1> QED BY <1>1, <1>2

(* Someone edits the document by hand.                                      *)
LEMMA EditedGood ==
  ASSUME NEW d, d = None \/ Good(d), NEW r \in BOOLEAN
  PROVE  /\ Good(Edited(d, r))
         /\ \A s \in BOOLEAN : Edited(Edited(d, r), s) = Edited(d, s)
         /\ d # None => /\ Edited(d, r).revs = d.revs /\ Edited(d, r).gates = d.gates
                        /\ Edited(d, r).ticks = d.ticks /\ Edited(d, r).order = d.order
                        /\ Edited(d, r).prose = d.prose \cup {Human}
         /\ d = None => /\ Edited(d, r).revs = <<>> /\ Edited(d, r).gates = <<>>
                        /\ Edited(d, r).ticks = <<>> /\ Edited(d, r).order = <<>>
                        /\ Edited(d, r).prose = {Human}
<1> DEFINE e == Appended(d, Human)
<1>1. Good(e) /\ (d # None => e = [d EXCEPT !.prose = d.prose \cup {Human}])
  BY AppendedGood
<1>2. d = None => e = Started({Human})
  BY DEF Appended
<1>3. e \in Document /\ Human \in e.prose
  BY <1>1, <1>2 DEF Good, Document, Started
<1>4. /\ d # None => /\ e.revs = d.revs /\ e.gates = d.gates /\ e.ticks = d.ticks
                     /\ e.order = d.order /\ e.prose = d.prose \cup {Human}
      /\ d = None => /\ e.revs = <<>> /\ e.gates = <<>> /\ e.ticks = <<>>
                     /\ e.order = <<>> /\ e.prose = {Human}
  BY <1>1, <1>2 DEF Started, Good, Document
<1>5. ASSUME NEW s \in BOOLEAN
      PROVE  /\ Edited(d, s) = [e EXCEPT !.route = s] /\ Edited(d, s) \in Document
             /\ Edited(d, s).revs = e.revs /\ Edited(d, s).gates = e.gates
             /\ Edited(d, s).ticks = e.ticks /\ Edited(d, s).order = e.order
             /\ Edited(d, s).prose = e.prose
  <2> HIDE DEF e
  <2>1. Edited(d, s) = [e EXCEPT !.route = s]
    BY DEF Edited, e
  <2> QED BY <1>3, <2>1 DEF Document
<1> HIDE DEF e
<1> DEFINE f == Edited(d, r)
<1>6. Good(f)
  BY <1>1, <1>5 DEF Good, Counted
<1>7. ASSUME NEW s \in BOOLEAN PROVE Edited(f, s) = Edited(d, s)
  <2>1. f \in Document /\ f # None /\ Human \in f.prose /\ f = [e EXCEPT !.route = r]
    BY <1>3, <1>5, PlanAssumption
  <2> HIDE DEF f
  <2>2. Appended(f, Human) = [f EXCEPT !.prose = f.prose \cup {Human}]
    BY <1>6, <2>1, AppendedGood
  <2>3. Appended(f, Human) = f
    <3>1. f.prose \cup {Human} = f.prose
      BY <2>1
    <3>2. [f EXCEPT !.prose = f.prose] = f
      BY <2>1 DEF Document
    <3> QED BY <2>2, <3>1, <3>2
  <2>4. Edited(f, s) = [f EXCEPT !.route = s]
    BY <2>3 DEF Edited
  <2>5. [f EXCEPT !.route = s] = [e EXCEPT !.route = s]
    BY <1>3, <2>1 DEF Document
  <2> QED BY <1>5, <2>4, <2>5
<1> QED BY <1>4, <1>5, <1>6, <1>7

----------------------------------------------------------------------------
(* Requests. *)

GateArgs == [task : Tasks, verdict : Verdicts]
MarkArgs == [task : Tasks]
Ops == {"planDocWrite", "gateVerdict", "taskMark", "planDocAppend"}
Holding == {"gated", "written", "rename"}

Request ==
  [op : Ops, stage : {"assess", "queued"} \cup Holding,
   read : {None} \cup Seq(Document \cup {None}),
   args : PlanArgs \cup GateArgs \cup MarkArgs \cup {None}]

ArgsOK(q) ==
  /\ q.op = "planDocWrite" => q.args \in PlanArgs
  /\ q.op = "gateVerdict"  => q.args \in GateArgs
  /\ q.op = "taskMark"     => q.args \in MarkArgs

(* What the holder q of the lock knows when the document is f: it has read  *)
(* and accepted a document, which since then has at most been edited by     *)
(* hand, and the document is still the one it looked at last unless the     *)
(* edit came too late.                                                      *)
Knows(q, f, lt) ==
  /\ q.stage = "gated" => q.op = "taskMark" /\ (~lt => GatePassed(f, q.args.task))
  /\ q.stage \in {"written", "rename"} =>
       LET d == q.read[1]
       IN /\ d = None \/ Good(d)
          /\ q.op = "planDocWrite" => Fresh(d, q.args.expected)
          /\ q.op = "gateVerdict"  => Judgeable(d)
          /\ q.op = "taskMark"     => d # None /\ (~lt => GatePassed(d, q.args.task))
          /\ f = d \/ \E r \in BOOLEAN : f = Edited(d, r)
          /\ q.stage = "rename" /\ q.op = "taskMark" /\ ~lt => f = d

RequestOK(q, f, lt) == q = Quiet \/ (q \in Request /\ ArgsOK(q) /\ Knows(q, f, lt))

(* The inductive invariant.                                                 *)
PlanInv ==
  /\ target \in Targets /\ late \in BOOLEAN
  /\ doc = None \/ Good(doc)
  /\ DOMAIN req = Writers /\ req = [a \in Writers |-> req[a]]
  /\ \A a \in Writers : RequestOK(req[a], doc, late)
  /\ \A a, b \in Writers : req[a].stage \in Holding /\ req[b].stage \in Holding => a = b

(* What a step does to the document.                                        *)
Replaced(a) ==
  /\ req[a].stage = "rename" /\ req[a] \in Request /\ ArgsOK(req[a])
  /\ Knows(req[a], doc, late)
  /\ req' = [req EXCEPT ![a] = Quiet]
  /\ \/ /\ req[a].op = "planDocWrite"
        /\ doc' = Written(Base(a), a, req[a].args)
     \/ /\ req[a].op = "gateVerdict"
        /\ doc' = Judged(Base(a), req[a].args.task, req[a].args.verdict)
     \/ /\ req[a].op = "taskMark"
        /\ doc' = Ticked(Base(a), req[a].args.task)
     \/ /\ req[a].op = "planDocAppend"
        /\ doc' = Appended(Base(a), a)

Effect ==
  \/ doc' = doc
  \/ (\E r \in BOOLEAN : doc' = Edited(doc, r)) /\ req' = req
  \/ \E a \in Writers : Replaced(a)

(* A request without the lock depends on nothing.                           *)
LEMMA Waiting ==
  ASSUME NEW q, NEW f, NEW g, NEW x, NEW y, RequestOK(q, f, x), q.stage \notin Holding
  PROVE  RequestOK(q, g, y)
BY DEF RequestOK, Knows, Holding

LEMMA QuietOK == ASSUME NEW f, NEW x PROVE RequestOK(Quiet, f, x) /\ Quiet.stage \notin Holding
BY DEF RequestOK, Quiet, Holding

(* The request of a changes, and only a may hold the lock then.             *)
LEMMA HolderStep ==
  ASSUME PlanInv, NEW a \in Writers, NEW q, req' = [req EXCEPT ![a] = q],
         RequestOK(q, doc', late'), UNCHANGED target, late' \in BOOLEAN,
         doc' = None \/ Good(doc'),
         \A b \in Writers \ {a} : req[b].stage \notin Holding
  PROVE  PlanInv'
<1>1. req'[a] = q /\ \A b \in Writers : b # a => req'[b] = req[b]
  BY DEF PlanInv
<1>2. DOMAIN req' = Writers /\ req' = [b \in Writers |-> req'[b]]
  BY DEF PlanInv
<1>3. ASSUME NEW b \in Writers PROVE RequestOK(req'[b], doc', late')
  <2>1. CASE b = a
    BY <1>1, <2>1
  <2>2. CASE b # a
    BY <1>1, <2>2, Waiting DEF PlanInv
  <2> QED BY <2>1, <2>2
<1>4. \A b, c \in Writers : req'[b].stage \in Holding /\ req'[c].stage \in Holding => b = c
  BY <1>1
<1> QED BY <1>2, <1>3, <1>4 DEF PlanInv

(* The one that holds the lock is the only one.                             *)
LEMMA Alone ==
  ASSUME PlanInv, NEW a \in Writers, req[a].stage \in Holding \/ ~Locked
  PROVE  \A b \in Writers \ {a} : req[b].stage \notin Holding
BY DEF PlanInv, Locked, HasLock, Holding

(* A request changes that does not hold the lock afterwards; the document   *)
(* stays.                                                                   *)
LEMMA RequestStep ==
  ASSUME PlanInv, NEW a \in Writers, NEW q, UNCHANGED <<target, doc, late>>,
         req' = [req EXCEPT ![a] = q],
         q = Quiet \/ (q \in Request /\ ArgsOK(q) /\ q.stage \in {"assess", "queued"})
  PROVE  PlanInv' /\ Effect
<1>1. q.stage \notin Holding /\ RequestOK(q, doc, late)
  BY QuietOK DEF Holding, RequestOK, Knows
<1>2. req'[a] = q /\ \A b \in Writers : b # a => req'[b] = req[b]
  BY DEF PlanInv
<1>3. DOMAIN req' = Writers /\ req' = [b \in Writers |-> req'[b]]
  BY DEF PlanInv
<1>4. \A b \in Writers : RequestOK(req'[b], doc', late')
  BY <1>1, <1>2 DEF PlanInv
<1>5. \A b, c \in Writers : req'[b].stage \in Holding /\ req'[c].stage \in Holding => b = c
  BY <1>1, <1>2 DEF PlanInv
<1> QED BY <1>3, <1>4, <1>5 DEF PlanInv, Effect

(* The holder of the lock, or a request that takes it, goes on.             *)
LEMMA ProceedStep ==
  ASSUME PlanInv, NEW a \in Writers, NEW ok \in BOOLEAN, NEW q, Proceed(a, ok, q),
         req[a].stage \in Holding \/ ~Locked, late' \in BOOLEAN,
         ok => RequestOK(q, doc, late')
  PROVE  PlanInv' /\ Effect
<1>1. UNCHANGED <<target, doc>> /\ \A b \in Writers \ {a} : req[b].stage \notin Holding
  BY Alone DEF Proceed
<1>2. CASE ok
  BY <1>1, <1>2, HolderStep DEF Proceed, PlanInv, Effect
<1>3. CASE ~ok
  <2>1. req' = [req EXCEPT ![a] = Quiet]
    BY <1>3 DEF Proceed
  <2> QED BY <1>1, <2>1, QuietOK, HolderStep DEF PlanInv, Effect
<1> QED BY <1>2, <1>3

(* The file is read, under the lock.                                        *)
LEMMA ReadStep ==
  ASSUME PlanInv, NEW a \in Writers, NEW accepted \in BOOLEAN, ReadFrom(a, accepted),
         req[a].stage \in Holding \/ ~Locked, late' \in BOOLEAN,
         req[a] \in Request, ArgsOK(req[a]),
         accepted /\ req[a].op = "planDocWrite" => Fresh(doc, req[a].args.expected),
         accepted /\ req[a].op = "gateVerdict"  => Judgeable(doc),
         accepted /\ req[a].op = "taskMark"     =>
           doc # None /\ (~late' => GatePassed(doc, req[a].args.task))
  PROVE  PlanInv' /\ Effect
<1> DEFINE q == [req[a] EXCEPT !.stage = "written", !.read = <<doc>>]
<1>1. <<doc>> \in Seq(Document \cup {None})
  BY DEF PlanInv, Good
<1>2. /\ q \in Request /\ q.op = req[a].op /\ q.args = req[a].args /\ q.stage = "written"
      /\ q.read = <<doc>>
  BY <1>1 DEF Request, Holding
<1>3. Proceed(a, accepted, q)
  BY DEF ReadFrom
<1> HIDE DEF q
<1>4. ArgsOK(q) /\ q.read[1] = doc
  BY <1>2 DEF ArgsOK
<1>5. ASSUME accepted PROVE Knows(q, doc, late')
  BY <1>2, <1>4, <1>5 DEF Knows, PlanInv
<1>6. accepted => RequestOK(q, doc, late')
  BY <1>2, <1>4, <1>5 DEF RequestOK
<1> QED BY <1>3, <1>6, ProceedStep

(* A request that waits for the lock.                                       *)
LEMMA TakeStep ==
  ASSUME PlanInv, NEW a \in Writers, NEW op, NEW accepted \in BOOLEAN, Read(a, op, accepted),
         op # "taskMark",
         accepted /\ op = "planDocWrite" => Fresh(doc, req[a].args.expected),
         accepted /\ op = "gateVerdict"  => Judgeable(doc)
  PROVE  PlanInv' /\ Effect
<1>1. /\ req[a] \in Request /\ ArgsOK(req[a]) /\ req[a].op = op /\ ~Locked
      /\ ReadFrom(a, accepted) /\ late' = FALSE
  BY DEF PlanInv, RequestOK, Read, Quiet
<1> QED BY <1>1, ReadStep

(* taskMark checks the gate.                                                *)
LEMMA GateStep ==
  ASSUME PlanInv, NEW a \in Writers, CheckGate(a)
  PROVE  PlanInv' /\ Effect
<1> DEFINE q == [req[a] EXCEPT !.stage = "gated"]
           ok == GatePassed(doc, req[a].args.task)
<1>1. /\ req[a] \in Request /\ ArgsOK(req[a]) /\ req[a].op = "taskMark" /\ ~Locked
      /\ Proceed(a, ok, q) /\ late' = FALSE
  BY DEF PlanInv, RequestOK, CheckGate, Quiet
<1>2. q \in Request /\ q.op = "taskMark" /\ q.args = req[a].args /\ q.stage = "gated"
  BY <1>1 DEF Request, Holding
<1>3. ok \in BOOLEAN
  BY DEF GatePassed
<1> HIDE DEF q
<1>4. ok => RequestOK(q, doc, late')
  BY <1>1, <1>2 DEF RequestOK, ArgsOK, Knows
<1> HIDE DEF ok
<1> QED BY <1>1, <1>3, <1>4, ProceedStep

(* taskMark reads the file a second time.                                   *)
LEMMA MarkStep ==
  ASSUME PlanInv, NEW a \in Writers, ReadMark(a)
  PROVE  PlanInv' /\ Effect
<1>1. /\ req[a] \in Request /\ ArgsOK(req[a]) /\ Knows(req[a], doc, late)
      /\ req[a].stage = "gated" /\ ReadFrom(a, Markable(doc)) /\ late' = late
  BY DEF PlanInv, RequestOK, ReadMark, Quiet
<1>2. req[a].op = "taskMark" /\ (~late => GatePassed(doc, req[a].args.task))
  BY <1>1 DEF Knows
<1>3. Markable(doc) \in BOOLEAN /\ (Markable(doc) => doc # None)
  BY DEF Markable
<1> QED BY <1>1, <1>2, <1>3, ReadStep DEF Holding, PlanInv

(* The file is looked at again.                                             *)
LEMMA RecheckStep ==
  ASSUME PlanInv, NEW a \in Writers, Recheck(a)
  PROVE  PlanInv' /\ Effect
<1> DEFINE q == [req[a] EXCEPT !.stage = "rename"]
           ok == /\ req[a].op \in {"planDocWrite", "taskMark"} => BytesUnchanged(a)
                 /\ req[a].op = "gateVerdict" => doc # None
<1>1. /\ req[a] \in Request /\ ArgsOK(req[a]) /\ Knows(req[a], doc, late)
      /\ req[a].stage = "written"
  BY DEF PlanInv, RequestOK, Recheck, Quiet
<1>0. Proceed(a, ok, q) /\ late' = late
  BY DEF Recheck
<1>2. /\ q \in Request /\ q.op = req[a].op /\ q.args = req[a].args /\ q.stage = "rename"
      /\ q.read = req[a].read
  BY <1>1 DEF Request, Holding
<1>3. ok \in BOOLEAN /\ (ok /\ req[a].op = "taskMark" => doc = req[a].read[1])
  BY DEF BytesUnchanged, Base
<1> HIDE DEF q, ok
<1>4. ASSUME ok PROVE Knows(q, doc, late)
  BY <1>1, <1>2, <1>3, <1>4 DEF Knows
<1>5. ok => RequestOK(q, doc, late')
  BY <1>0, <1>1, <1>2, <1>4 DEF RequestOK, ArgsOK
<1> QED BY <1>0, <1>1, <1>3, <1>5, ProceedStep DEF Holding, PlanInv

(* Someone edits the file.                                                  *)
LEMMA EditStep ==
  ASSUME PlanInv, HumanEdits
  PROVE  PlanInv' /\ Effect
<1>1. PICK r \in BOOLEAN : doc' = Edited(doc, r)
  BY DEF HumanEdits
<1>2. /\ UNCHANGED <<target, req>> /\ late' \in BOOLEAN /\ (~late' => ~late)
      /\ \A a \in Writers : req[a].stage \in {"gated", "rename"} => late'
  BY DEF HumanEdits, PlanInv
<1>3. Good(doc')
  BY <1>1, EditedGood DEF PlanInv
<1>4. ASSUME NEW a \in Writers PROVE RequestOK(req[a], doc', late')
  <2>1. CASE req[a] = Quiet
    BY <2>1 DEF RequestOK
  <2>2. CASE req[a] # Quiet
    <3>1. req[a] \in Request /\ ArgsOK(req[a]) /\ Knows(req[a], doc, late)
      BY <2>2 DEF RequestOK, PlanInv
    <3> DEFINE d == req[a].read[1]
    <3>2. ASSUME req[a].stage \in {"written", "rename"}
          PROVE  \E s \in BOOLEAN : doc' = Edited(d, s)
      <4>1. (d = None \/ Good(d)) /\ (doc = d \/ \E s \in BOOLEAN : doc = Edited(d, s))
        BY <3>1, <3>2 DEF Knows
      <4>2. CASE doc = d
        BY <1>1, <4>2
      <4>3. ASSUME NEW s \in BOOLEAN, doc = Edited(d, s) PROVE doc' = Edited(d, r)
        BY <1>1, <4>1, <4>3, EditedGood
      <4> QED BY <4>1, <4>2, <4>3
    <3>3. Knows(req[a], doc', late')
      BY <1>2, <3>1, <3>2 DEF Knows
    <3> QED BY <3>1, <3>3 DEF RequestOK
  <2> QED BY <2>1, <2>2
<1> QED BY <1>1, <1>2, <1>3, <1>4 DEF PlanInv, Effect

----------------------------------------------------------------------------
(* Every step. *)

LEMMA PlanInit == Init => PlanInv
BY QuietOK DEF Init, PlanInv

(* A request is sent.                                                       *)
LEMMA SubmitStep ==
  ASSUME PlanInv, NEW a \in Writers, NEW op \in Ops, NEW stage \in {"assess", "queued"},
         NEW args \in PlanArgs \cup GateArgs \cup MarkArgs \cup {None},
         Submit(a, op, stage, args),
         op = "planDocWrite" => args \in PlanArgs, op = "gateVerdict" => args \in GateArgs,
         op = "taskMark" => args \in MarkArgs
  PROVE  PlanInv' /\ Effect
<1> DEFINE q == [op |-> op, stage |-> stage, read |-> None, args |-> args]
<1>1. q \in Request /\ ArgsOK(q) /\ q.stage \in {"assess", "queued"}
  BY DEF Request, ArgsOK
<1>2. req' = [req EXCEPT ![a] = q] /\ UNCHANGED <<target, doc, late>>
  BY DEF Submit
<1> HIDE DEF q
<1> QED BY <1>1, <1>2, RequestStep

LEMMA SubmitsStep ==
  ASSUME PlanInv, NEW a \in Writers,
         planDocWrite(a) \/ gateVerdict(a) \/ taskMark(a) \/ planDocAppend(a)
  PROVE  PlanInv' /\ Effect
<1>1. CASE planDocWrite(a)
  <2>1. PICK n \in 0..MaxRevs, route \in BOOLEAN, ticks \in {<<>>, TicksOf(doc)} :
           Submit(a, "planDocWrite", "queued", [expected |-> n, route |-> route, ticks |-> ticks])
    BY <1>1 DEF planDocWrite
  <2>2. ticks \in Seq(Tasks) /\ n \in Nat
    <3>1. TicksOf(doc) \in Seq(Tasks)
      <4>1. CASE doc = None
        BY <4>1 DEF TicksOf
      <4>2. CASE doc # None
        BY <4>2 DEF TicksOf, PlanInv, Good, Document
      <4> QED BY <4>1, <4>2
    <3>2. n \in Nat
      BY PlanAssumption
    <3>3. <<>> \in Seq(Tasks)
      OBVIOUS
    <3> QED BY <3>1, <3>2, <3>3
  <2>3. [expected |-> n, route |-> route, ticks |-> ticks] \in PlanArgs
    BY <2>2 DEF PlanArgs
  <2> QED BY <2>1, <2>3, SubmitStep DEF Ops
<1>2. CASE gateVerdict(a)
  <2>1. PICK t \in Tasks, v \in Verdicts :
           Submit(a, "gateVerdict", "queued", [task |-> t, verdict |-> v])
    BY <1>2 DEF gateVerdict
  <2>2. [task |-> t, verdict |-> v] \in GateArgs
    BY DEF GateArgs
  <2> QED BY <2>1, <2>2, SubmitStep DEF Ops
<1>3. CASE taskMark(a)
  <2>1. PICK t \in Tasks : Submit(a, "taskMark", "assess", [task |-> t])
    BY <1>3 DEF taskMark
  <2>2. [task |-> t] \in MarkArgs
    BY DEF MarkArgs
  <2> QED BY <2>1, <2>2, SubmitStep DEF Ops
<1>4. CASE planDocAppend(a)
  BY <1>4, SubmitStep DEF planDocAppend, Ops
<1> QED BY <1>1, <1>2, <1>3, <1>4

(* A document is replaced.                                                  *)
LEMMA ReplaceStep ==
  ASSUME PlanInv, NEW a \in Writers,
         \/ writePlanDocAtomically(a) \/ appendGateVerdictAtomically(a)
         \/ writeTaskMarkAtomically(a) \/ appendPlanDocAtomically(a)
  PROVE  PlanInv' /\ Effect
<1>1. /\ req[a].stage = "rename" /\ req' = [req EXCEPT ![a] = Quiet]
      /\ UNCHANGED <<target, late>>
  BY DEF writePlanDocAtomically, appendGateVerdictAtomically, writeTaskMarkAtomically,
         appendPlanDocAtomically, Rename
<1>2. req[a] \in Request /\ ArgsOK(req[a]) /\ Knows(req[a], doc, late)
  BY <1>1 DEF PlanInv, RequestOK, Quiet
<1>3. Replaced(a)
  BY <1>1, <1>2 DEF writePlanDocAtomically, appendGateVerdictAtomically,
     writeTaskMarkAtomically, appendPlanDocAtomically, Rename, Replaced
<1>4. /\ Base(a) = None \/ Good(Base(a))
      /\ req[a].op \in {"gateVerdict", "taskMark"} => Base(a) # None
  BY <1>1, <1>2 DEF Knows, Base, Judgeable
<1>5. Good(doc')
  <2>1. CASE req[a].op = "planDocWrite" /\ doc' = Written(Base(a), a, req[a].args)
    BY <1>2, <1>4, <2>1, WrittenGood DEF ArgsOK
  <2>2. CASE req[a].op = "gateVerdict"
              /\ doc' = Judged(Base(a), req[a].args.task, req[a].args.verdict)
    <3>1. req[a].args.task \in Tasks /\ req[a].args.verdict \in Verdicts
      BY <1>2, <2>2 DEF ArgsOK, GateArgs
    <3> QED BY <1>4, <2>2, <3>1, JudgedGood
  <2>3. CASE req[a].op = "taskMark" /\ doc' = Ticked(Base(a), req[a].args.task)
    <3>1. req[a].args.task \in Tasks
      BY <1>2, <2>3 DEF ArgsOK, MarkArgs
    <3> QED BY <1>4, <2>3, <3>1, TickedGood
  <2>4. CASE doc' = Appended(Base(a), a)
    BY <1>4, <2>4, AppendedGood
  <2> QED BY <1>3, <2>1, <2>2, <2>3, <2>4 DEF Replaced
<1>6. PlanInv'
  <2>1. \A b \in Writers \ {a} : req[b].stage \notin Holding
    BY <1>1, Alone DEF Holding
  <2> QED BY <1>1, <1>5, <2>1, QuietOK, HolderStep DEF PlanInv
<1> QED BY <1>3, <1>6 DEF Effect

LEMMA PlanNext ==
  ASSUME PlanInv, [Next]_vars
  PROVE  PlanInv' /\ Effect
<1>1. CASE UNCHANGED vars
  BY <1>1 DEF vars, PlanInv, Effect
<1>2. ASSUME NEW a \in Writers, Assessed(a) PROVE PlanInv' /\ Effect
  <2>1. /\ req[a] \in Request /\ ArgsOK(req[a]) /\ UNCHANGED <<target, doc, late>>
    BY <1>2 DEF PlanInv, RequestOK, Quiet, Assessed
  <2> DEFINE q == [req[a] EXCEPT !.stage = "queued"]
  <2>2. q \in Request /\ ArgsOK(q) /\ q.stage = "queued"
    BY <2>1 DEF Request, ArgsOK
  <2>3. req' = [req EXCEPT ![a] = q] \/ req' = [req EXCEPT ![a] = Quiet]
    BY <1>2 DEF Assessed
  <2> HIDE DEF q
  <2> QED BY <2>1, <2>2, <2>3, RequestStep
<1>3. ASSUME NEW a \in Writers, Fails(a) PROVE PlanInv' /\ Effect
  <2>1. req' = [req EXCEPT ![a] = Quiet] /\ UNCHANGED <<target, doc, late>>
    BY <1>3 DEF Fails, Proceed
  <2> QED BY <2>1, RequestStep
<1>4. ASSUME NEW a \in Writers, ReadPlan(a) PROVE PlanInv' /\ Effect
  <2>1. Fresh(doc, req[a].args.expected) \in BOOLEAN
    BY DEF Fresh
  <2> QED BY <1>4, <2>1, TakeStep DEF ReadPlan
<1>5. ASSUME NEW a \in Writers, ReadGates(a) PROVE PlanInv' /\ Effect
  <2>1. Judgeable(doc) \in BOOLEAN
    BY DEF Judgeable
  <2> QED BY <1>5, <2>1, TakeStep DEF ReadGates
<1>6. ASSUME NEW a \in Writers, ReadAppend(a) PROVE PlanInv' /\ Effect
  BY <1>6, TakeStep DEF ReadAppend
<1> QED BY <1>1, <1>2, <1>3, <1>4, <1>5, <1>6, SubmitsStep, GateStep, MarkStep, RecheckStep,
           ReplaceStep, EditStep DEF Next

----------------------------------------------------------------------------
(* What the steps mean for the properties. *)

(* A writer of a plan that is renamed over the document is the one of the   *)
(* step.                                                                    *)
LEMMA RenamesIs ==
  ASSUME PlanInv, Effect, NEW a \in Writers, NEW op, Renames(a, op)
  PROVE  Replaced(a) /\ req[a].op = op
<1>1. req[a].stage = "rename" /\ req[a].op = op /\ doc' # doc /\ req'[a] # req[a]
  BY DEF Renames, Quiet
<1>2. PICK b \in Writers : Replaced(b)
  BY <1>1 DEF Effect
<1>3. b = a
  BY <1>1, <1>2 DEF Replaced, PlanInv, Holding
<1> QED BY <1>1, <1>2, <1>3

(* readLatestGateVerdict returns the last verdict of the task.              *)
LEMMA LatestIsLast ==
  ASSUME NEW d, Good(d), NEW t, LatestVerdict(d, t) = "PASS"
  PROVE  \E i \in 1..Len(d.gates) :
           /\ d.gates[i] = <<t, "PASS">>
           /\ \A j \in i + 1..Len(d.gates) : d.gates[j][1] # t
<1> DEFINE n == Len(d.gates)
           of == {i \in 1..n : d.gates[i][1] = t}
<1>1. d.gates \in Seq(Tasks \X Verdicts) /\ n \in Nat
  BY DEF Good, Document
<1>2. of # {} /\ d.gates[Max(of)][2] = "PASS"
  <2>1. of # {}
    <3> SUFFICES ASSUME of = {} PROVE FALSE
      OBVIOUS
    <3>1. LatestVerdict(d, t) = None
      BY DEF LatestVerdict
    <3> QED BY <3>1, PlanAssumption DEF Verdicts
  <2> QED BY <2>1 DEF LatestVerdict
<1>3. of \in SUBSET (1..n)
  OBVIOUS
<1> HIDE DEF n
<1>4. Max(of) \in of /\ \A i \in of : i <= Max(of)
  BY <1>1, <1>2, <1>3, LastPosition
<1> DEFINE m == Max(of)
<1> HIDE DEF m
<1>5. m \in 1..n /\ d.gates[m][1] = t /\ d.gates[m][2] = "PASS"
  BY <1>2, <1>4 DEF m
<1>6. d.gates[m] \in Tasks \X Verdicts
  BY <1>1, <1>5 DEF n
<1>7. d.gates[m] = <<t, "PASS">>
  BY <1>5, <1>6
<1>8. ASSUME NEW j \in m + 1..n PROVE d.gates[j][1] # t
  <2>1. j \in 1..n /\ j > m
    BY <1>1, <1>5
  <2>2. j \notin of
    BY <1>4, <1>5, <2>1 DEF m
  <2> QED BY <2>1, <2>2
<1> QED BY <1>5, <1>7, <1>8 DEF n

LEMMA TickStep ==
  ASSUME PlanInv, Effect, NEW a \in Writers, Renames(a, "taskMark")
  PROVE  /\ doc'.gates = doc.gates /\ doc'.ticks = Append(doc.ticks, req[a].args.task)
         /\ ~late =>
              /\ \/ ~doc.route /\ ~Has(doc, "Gates")
                 \/ \E i \in 1..Len(doc.gates) :
                      /\ doc.gates[i] = <<req[a].args.task, "PASS">>
                      /\ \A j \in i + 1..Len(doc.gates) : doc.gates[j][1] # req[a].args.task
              /\ doc'.prose = doc.prose /\ doc'.route = doc.route
<1>1. Replaced(a) /\ req[a].op = "taskMark"
  BY RenamesIs
<1> DEFINE t == req[a].args.task
           d == req[a].read[1]
<1>2. doc' = Ticked(d, t) /\ t \in Tasks
  BY <1>1 DEF Replaced, Base, ArgsOK, MarkArgs
<1>3. /\ d # None /\ Good(d) /\ (doc = d \/ \E r \in BOOLEAN : doc = Edited(d, r))
      /\ ~late => doc = d /\ GatePassed(d, t)
  BY <1>1 DEF Replaced, Knows
<1>4. /\ doc'.prose = d.prose /\ doc'.gates = d.gates /\ doc'.ticks = Append(d.ticks, t)
      /\ doc'.route = d.route
  BY <1>2, <1>3, TickedGood
<1>5. doc.gates = d.gates /\ doc.ticks = d.ticks
  BY <1>3, EditedGood
<1>6. ASSUME ~late
      PROVE  \/ ~doc.route /\ ~Has(doc, "Gates")
             \/ \E i \in 1..Len(doc.gates) :
                  /\ doc.gates[i] = <<t, "PASS">>
                  /\ \A j \in i + 1..Len(doc.gates) : doc.gates[j][1] # t
  <2>1. doc = d /\ (doc.route \/ Has(doc, "Gates") => LatestVerdict(doc, t) = "PASS")
    BY <1>3, <1>6 DEF GatePassed
  <2>2. CASE LatestVerdict(doc, t) = "PASS"
    <3>1. Good(doc)
      BY <1>3, <2>1
    <3> HIDE DEF t, d
    <3> QED BY <2>2, <3>1, LatestIsLast
  <2> QED BY <2>1, <2>2
<1> QED BY <1>3, <1>4, <1>5, <1>6

(* A step that is no plan write leaves at least what was there.             *)
Kept ==
  /\ IsPrefix(doc.revs, doc'.revs) /\ IsPrefix(doc.gates, doc'.gates)
  /\ IsPrefix(doc.ticks, doc'.ticks) /\ doc.prose \ {Human} \subseteq doc'.prose

LEMMA AppendedFields ==
  ASSUME NEW d, Good(d), NEW by \in Writers \cup {Human}
  PROVE  /\ Appended(d, by).revs = d.revs /\ Appended(d, by).gates = d.gates
         /\ Appended(d, by).ticks = d.ticks /\ Appended(d, by).prose = d.prose \cup {by}
<1>1. d \in Document /\ d # None
  BY PlanAssumption DEF Good
<1>2. Appended(d, by) = [d EXCEPT !.prose = d.prose \cup {by}]
  BY <1>1, AppendedGood
<1> QED BY <1>1, <1>2 DEF Document

LEMMA KeptStep ==
  ASSUME PlanInv, Effect, doc # None
  PROVE  Kept \/ \E a \in Writers : Replaced(a) /\ req[a].op = "planDocWrite"
<1>g. Good(doc)
  BY DEF PlanInv
<1>p. /\ IsPrefix(doc.revs, doc.revs) /\ IsPrefix(doc.gates, doc.gates)
      /\ IsPrefix(doc.ticks, doc.ticks)
  BY <1>g, PrefixSelf DEF Good, Document
<1>1. CASE doc' = doc
  BY <1>1, <1>p DEF Kept
<1>2. ASSUME NEW r \in BOOLEAN, doc' = Edited(doc, r) PROVE Kept
  BY <1>2, <1>g, <1>p, EditedGood DEF Kept
<1>3. ASSUME NEW a \in Writers, Replaced(a), req[a].op # "planDocWrite" PROVE Kept
  <2> DEFINE d == Base(a)
  <2>1. /\ d = None \/ Good(d)
        /\ doc = d \/ \E r \in BOOLEAN : doc = Edited(d, r)
        /\ req[a].op \in {"gateVerdict", "taskMark"} => d # None
    BY <1>3 DEF Replaced, Knows, Base, Judgeable
  <2>2. CASE d = None
    <3>1. doc.revs = <<>> /\ doc.gates = <<>> /\ doc.ticks = <<>> /\ doc.prose = {Human}
      BY <2>1, <2>2, EditedGood
    <3>2. req[a].op = "planDocAppend" /\ doc' = Started({a})
      BY <1>3, <2>1, <2>2 DEF Replaced, Appended
    <3>3. doc'.revs = doc.revs /\ doc'.gates = doc.gates /\ doc'.ticks = doc.ticks
      BY <3>1, <3>2 DEF Started
    <3>4. doc.prose \ {Human} = {}
      BY <3>1
    <3> QED BY <1>p, <3>3, <3>4 DEF Kept
  <2>3. CASE d # None
    <3>1. /\ Good(d) /\ doc.revs = d.revs /\ doc.gates = d.gates /\ doc.ticks = d.ticks
          /\ doc.prose \ {Human} \subseteq d.prose
      BY <2>1, <2>3, EditedGood
    <3>2. CASE req[a].op = "gateVerdict"
      <4>1. /\ doc' = Judged(d, req[a].args.task, req[a].args.verdict)
            /\ req[a].args.task \in Tasks /\ req[a].args.verdict \in Verdicts
        BY <1>3, <3>2 DEF Replaced, ArgsOK, GateArgs
      <4> QED BY <1>p, <3>1, <4>1, JudgedGood DEF Kept
    <3>3. CASE req[a].op = "taskMark"
      <4>1. doc' = Ticked(d, req[a].args.task) /\ req[a].args.task \in Tasks
        BY <1>3, <3>3 DEF Replaced, ArgsOK, MarkArgs
      <4>2. IsPrefix(d.ticks, Append(d.ticks, req[a].args.task))
        BY <3>1, <4>1, PrefixAppend DEF Good, Document
      <4> QED BY <1>p, <3>1, <4>1, <4>2, TickedGood DEF Kept
    <3>4. CASE req[a].op = "planDocAppend"
      <4>1. doc' = Appended(d, a)
        BY <1>3, <3>4 DEF Replaced
      <4> QED BY <1>p, <3>1, <4>1, AppendedFields DEF Kept
    <3> QED BY <1>3, <3>2, <3>3, <3>4 DEF Replaced
  <2> QED BY <2>2, <2>3
<1> QED BY <1>1, <1>2, <1>3 DEF Effect

(* What a plan write leaves.                                                *)
LEMMA WriteStep ==
  ASSUME PlanInv, NEW a \in Writers, Replaced(a), req[a].op = "planDocWrite"
  PROVE  /\ req[a].args.expected = Revision(doc)
         /\ doc # None => /\ IsPrefix(doc.revs, doc'.revs)
                          /\ AtEnd(doc, "Gates") => doc'.gates = doc.gates
<1> DEFINE d == Base(a)
<1>1. doc' = Written(d, a, req[a].args) /\ req[a].args \in PlanArgs
  BY DEF Replaced, ArgsOK
<1>2. /\ req[a].args.expected = Revision(d) /\ (d = None \/ Good(d))
      /\ doc = d \/ \E r \in BOOLEAN : doc = Edited(d, r)
  BY DEF Replaced, Base, Knows, Fresh
<1>3. CASE doc = d
  BY <1>1, <1>2, <1>3, WrittenGood
<1>4. CASE doc # d /\ d = None
  <2>1. Good(doc) /\ doc.revs = <<>> /\ doc.order = <<>>
    BY <1>2, <1>4, EditedGood
  <2>2. Revision(doc) = 0 /\ Revision(d) = 0
    BY <1>4, <2>1, RevisionIsLen DEF Revision
  <2>3. ~AtEnd(doc, "Gates")
    BY <2>1 DEF AtEnd, Has, Contains
  <2>4. IsPrefix(<<>>, doc'.revs)
    <3>1. doc'.revs \in Seq(Nat)
      BY <1>1, <1>2, WrittenGood DEF Good, Document
    <3> QED BY <3>1 DEF IsPrefix
  <2> QED BY <1>2, <2>1, <2>2, <2>3, <2>4
<1>5. CASE doc # d /\ d # None
  <2>1. /\ Good(d) /\ Good(doc) /\ doc.revs = d.revs /\ doc.gates = d.gates
        /\ doc.order = d.order
    BY <1>2, <1>5, EditedGood
  <2>2. Revision(doc) = Revision(d)
    BY <2>1, RevisionIsLen
  <2>3. AtEnd(doc, "Gates") => AtEnd(d, "Gates")
    BY <1>5, <2>1 DEF AtEnd, Has
  <2> QED BY <1>1, <1>2, <1>5, <2>1, <2>2, <2>3, WrittenGood
<1> QED BY <1>3, <1>4, <1>5

LEMMA RevisionStep ==
  ASSUME PlanInv, PlanInv', Effect
  PROVE  /\ \A a \in Writers : Renames(a, "planDocWrite") => req[a].args.expected = Revision(doc)
         /\ doc' # None => \A i \in 1..Len(doc'.revs) : doc'.revs[i] = i
         /\ doc # None => IsPrefix(doc.revs, doc'.revs)
<1>1. \A a \in Writers : Renames(a, "planDocWrite") => req[a].args.expected = Revision(doc)
  BY RenamesIs, WriteStep
<1>2. doc' # None => \A i \in 1..Len(doc'.revs) : doc'.revs[i] = i
  BY DEF PlanInv, Good, Counted
<1>3. doc # None => IsPrefix(doc.revs, doc'.revs)
  BY KeptStep, WriteStep DEF Kept
<1> QED BY <1>1, <1>2, <1>3

LEMMA AppendStep ==
  ASSUME PlanInv, Effect, doc # None
  PROVE  LET rewritten == \E a \in Writers : Renames(a, "planDocWrite")
         IN /\ ~rewritten \/ AtEnd(doc, "Gates") => IsPrefix(doc.gates, doc'.gates)
            /\ ~rewritten => /\ IsPrefix(doc.ticks, doc'.ticks)
                             /\ doc.prose \ {Human} \subseteq doc'.prose
<1>g. /\ IsPrefix(doc.gates, doc.gates) /\ IsPrefix(doc.ticks, doc.ticks)
  BY PrefixSelf DEF PlanInv, Good, Document
<1>1. CASE Kept
  BY <1>1 DEF Kept
<1>2. ASSUME NEW a \in Writers, Replaced(a), req[a].op = "planDocWrite"
      PROVE  /\ Renames(a, "planDocWrite") \/ doc' = doc
             /\ AtEnd(doc, "Gates") => doc'.gates = doc.gates
  <2>1. req'[a] = Quiet
    BY <1>2 DEF Replaced, PlanInv
  <2> QED BY <1>2, <2>1, WriteStep DEF Replaced, Renames
<1> QED BY <1>g, <1>1, <1>2, KeptStep

----------------------------------------------------------------------------

(* The document of every reachable state is well formed, with each section  *)
(* once, and the requests are at a stage of their operation.                *)
THEOREM PlanTypeCorrect == Spec => []TypeOK
<1>1. Init => PlanInv
  BY PlanInit
<1>2. PlanInv /\ [Next]_vars => PlanInv'
  BY PlanNext
<1>3. PlanInv => TypeOK
  BY DEF PlanInv, TypeOK, Good, RequestOK, Request, Quiet, Holding
<1> QED BY <1>1, <1>2, <1>3, PTL DEF Spec

(* taskMark drops no verdict and no tick, and ticks a task only on a PASS   *)
(* that still stands in the document it replaces, whose prose and route     *)
(* stay, unless an edit by hand fell between its two reads of the file or   *)
(* between its last look at the file and the rename.                        *)
THEOREM TicksAreGated == Spec => TickIsGated
<1> DEFINE Gated ==
      \A a \in Writers : Renames(a, "taskMark") =>
         LET t == req[a].args.task
         IN /\ doc'.gates = doc.gates /\ doc'.ticks = Append(doc.ticks, t)
            /\ ~late =>
                 /\ \/ ~doc.route /\ ~Has(doc, "Gates")
                    \/ \E i \in 1..Len(doc.gates) :
                         /\ doc.gates[i] = <<t, "PASS">>
                         /\ \A j \in i + 1..Len(doc.gates) : doc.gates[j][1] # t
                 /\ doc'.prose = doc.prose /\ doc'.route = doc.route
<1>1. Init => PlanInv
  BY PlanInit
<1>2. PlanInv /\ [Next]_vars => PlanInv'
  BY PlanNext
<1>3. PlanInv /\ [Next]_vars => [Gated]_vars
  BY PlanNext, TickStep
<1> QED BY <1>1, <1>2, <1>3, PTL DEF Spec, TickIsGated

(* planDocWrite builds on the revision its author named, and the revisions  *)
(* of a document count on without a gap or a loss.                          *)
THEOREM RevisionsAreCounted == Spec => RevisionsCount
<1> DEFINE Counts ==
      /\ \A a \in Writers : Renames(a, "planDocWrite") => req[a].args.expected = Revision(doc)
      /\ doc' # None => \A i \in 1..Len(doc'.revs) : doc'.revs[i] = i
      /\ doc # None => IsPrefix(doc.revs, doc'.revs)
<1>1. Init => PlanInv
  BY PlanInit
<1>2. PlanInv /\ [Next]_vars => PlanInv'
  BY PlanNext
<1>3. PlanInv /\ [Next]_vars => [Counts]_vars
  BY PlanNext, RevisionStep
<1> QED BY <1>1, <1>2, <1>3, PTL DEF Spec, RevisionsCount

(* Verdicts, ticks and appended text survive every step but a plan write,   *)
(* and a gate log that ends the document survives that too.                 *)
THEOREM AppendsSurvive == Spec => AppendsKept
<1> DEFINE Keeps ==
      doc # None =>
         LET rewritten == \E a \in Writers : Renames(a, "planDocWrite")
         IN /\ ~rewritten \/ AtEnd(doc, "Gates") => IsPrefix(doc.gates, doc'.gates)
            /\ ~rewritten => /\ IsPrefix(doc.ticks, doc'.ticks)
                             /\ doc.prose \ {Human} \subseteq doc'.prose
<1>1. Init => PlanInv
  BY PlanInit
<1>2. PlanInv /\ [Next]_vars => PlanInv'
  BY PlanNext
<1>3. PlanInv /\ [Next]_vars => [Keeps]_vars
  BY PlanNext, AppendStep
<1> QED BY <1>1, <1>2, <1>3, PTL DEF Spec, AppendsKept

=============================================================================

------------------------------ MODULE Advisor ------------------------------
(***************************************************************************)
(* External advisors of one project: the advisory records                  *)
(* (advisor-records.ts), the lineages whose lenses only advisors may fill  *)
(* (advisor-lineages.ts), the relay of a stored answer into a review       *)
(* capture (advisor-relay.ts) and the review commands they share with the  *)
(* orchestrating sessions (sdd-service.ts, sdd-runtime.ts).                *)
(*                                                                         *)
(* Mains are sessions of the main socket bound to an agent that may        *)
(* dispatch host tools, Advisors sessions of an advisor socket.  A session *)
(* runs one request at a time (the session lock of server.ts); requests of *)
(* different sessions interleave at every await, and every file operation  *)
(* between two awaits is one step because the broker is single-threaded.   *)
(* gentle-ai is external: it owns the lineages, answers status and         *)
(* lens-context, and accepts a capture only for its current revision.      *)
(***************************************************************************)
EXTENDS Integers, FiniteSets

CONSTANTS Mains, Advisors, Requests, Lineages, Lenses,
          AskedHosts,      \* hosts asked for: Hosts and "rotate"
          Bodies,          \* evidence sets an advisor's worker may hold
          MaxPreCode,      \* bound: pre-code-advice requests
          MaxVersion,      \* bound: candidates a lineage goes through
          MaxFaults,       \* bound: kinds of fault in one behaviour, each once
          Lost,            \* no answer: timeout, empty or non-JSON stdout
          Refused,         \* gentle-ai exits with a non-zero status
          None

VARIABLES
    req,          \* advisory requests, by id: <id>.json
    claim,        \* <id>.claim: the advisor session that claimed it
    response,     \* <id>.response.json
    evidence,     \* evidence/<id>: the kept evidence set
    reserved,     \* evidence/.reserve-<id>
    rotation,     \* rotation.json
    external,     \* external-lineages/<lineage>
    marker,       \* relayed/<lineage>.<lens>: the id that was relayed
    staged,       \* sessions whose private input snapshot is on disk
    op,           \* the request each session has in flight
    lineage,      \* gentle-ai: the lineages and what they collect
    captures,     \* gentle-ai: the accepted captures
    faults        \* what went wrong so far: "lost", "crash", "expiry"

vars == <<req, claim, response, evidence, reserved, rotation, external,
          marker, staged, op, lineage, captures, faults>>

files == <<req, claim, response, evidence, reserved, rotation>>
provider == <<lineage, captures>>

Hosts == {"claude", "agy"}
Slots == Lineages \X Lenses
Versions == 1 .. MaxVersion

\* What is stored: version stands for the subject hash a lens is asked about,
\* task for the one the stored lensContext is bound to.
StoredReview == [slot : Slots, version : Nat, task : Nat]

StoredRequest ==
    [host : Hosts, rotate : BOOLEAN, thread : Requests, parent : Requests \cup {None},
     review : StoredReview \cup {None}, expired : BOOLEAN]

StoredResponse ==
    [status : {"submitted", "declined"}, by : Advisors,
     result : Versions \cup {None}, evidence : Bodies \cup {None}]

\* What review status and lens-context report, and the exit of a command.
Report == [version : Nat, collecting : SUBSET Lenses, rev : Nat]
Exits == {Refused, Lost, "ok"}

\* The broker mints the advisor sessions and refuses them on the main socket;
\* an absent file or field, and what a command did, are none of the values.
ASSUME AdvisorAssumption ==
    /\ Mains \cap Advisors = {}
    /\ AskedHosts \subseteq Hosts \cup {"rotate"}
    /\ None \notin Requests /\ None \notin Advisors /\ None \notin Bodies
    /\ None \notin Versions
    /\ None \notin StoredReview /\ None \notin StoredRequest /\ None \notin StoredResponse
    /\ None \notin Report /\ Refused \notin Report /\ None \notin Exits
    /\ Refused # "ok" /\ Lost # "ok"

----------------------------------------------------------------------------
(* Sessions and their requests. *)

ADVISOR_ONLY_OPERATIONS == {"advisorRead", "advisorRespond", "evidenceKeep"}

\* bindAdvisorRequest and refuseAdvisorSessionOnMain: an advisor connection
\* runs as the session the broker minted for it, and the main socket runs
\* neither an advisor session nor an advisor operation.
MayRun(s, operation) ==
    IF operation \in ADVISOR_ONLY_OPERATIONS THEN s \in Advisors ELSE s \in Mains

Idle == [pc |-> "idle"]

\* The session lock is free, so the request starts.
Starts(s, operation) == MayRun(s, operation) /\ op[s] = Idle

Ends(s) == op' = [op EXCEPT ![s] = Idle]

\* run and runRaw: a spawned gentle-ai whose answer has not arrived.
Spawned(pc, data) == [pc |-> pc, data |-> data, ans |-> None]

Fault(kind) ==
    /\ kind \notin faults
    /\ Cardinality(faults) < MaxFaults
    /\ faults' = faults \cup {kind}

Answered(s, pc) == op[s].pc = pc /\ op[s].ans # None

----------------------------------------------------------------------------
(* gentle-ai. *)

Collecting(l, x) == x \in lineage[l].collecting

\* next_transition.collect.inputs for one lens, as review status reports it.
Status(l) ==
    [version |-> lineage[l].version, collecting |-> lineage[l].collecting,
     rev |-> lineage[l].rev]

\* A capture binds to the lineage's revision and to the candidate it is for.
Acceptable(c) ==
    /\ lineage[c.slot[1]].rev = c.rev
    /\ lineage[c.slot[1]].version = c.version
    /\ Collecting(c.slot[1], c.slot[2])

StartLineage(l, ext) ==
    [lineage EXCEPT ![l] = [version |-> 1, collecting |-> Lenses,
                            rev |-> 1, ext |-> ext]]

\* A command that changed nothing: refused, or killed by its timeout before it
\* did anything.  The code treats a refusal and a throw alike.
ProviderRefuses(s) ==
    /\ op[s].pc \notin {"idle", "keep"} /\ op[s].ans = None
    /\ op' = [op EXCEPT ![s].ans = Refused]
    /\ UNCHANGED <<files, external, marker, staged, provider, faults>>

\* status, lens-context and a preflight report and change nothing.
ProviderReports(s) ==
    /\ \/ op[s].pc \in {"askStatus", "relayStatus", "askContext"}
       \/ op[s].pc = "preflight" /\ Acceptable(op[s].data)
    /\ op[s].ans = None
    /\ op' = [op EXCEPT ![s].ans =
            IF op[s].pc = "preflight" THEN "ok" ELSE Status(op[s].data.slot[1])]
    /\ UNCHANGED <<files, external, marker, staged, provider, faults>>

Captured(d) ==
    /\ Acceptable(d)
    /\ lineage' = [lineage EXCEPT ![d.slot[1]].collecting = @ \ {d.slot[2]},
                                  ![d.slot[1]].rev = @ + 1]
    /\ captures' = captures \cup
            {[slot |-> d.slot, version |-> d.version, from |-> d.from,
              marked |-> d.marked]}

\* start and capture take effect; their answer arrives or is lost.
ProviderExecutes(s) ==
    /\ op[s].pc \in {"start", "capture", "relayCapture"} /\ op[s].ans = None
    /\ \/ op' = [op EXCEPT ![s].ans = "ok"] /\ UNCHANGED faults
       \/ op' = [op EXCEPT ![s].ans = Lost] /\ Fault("lost")
    /\ LET d == op[s].data IN
        IF op[s].pc = "start"
          THEN /\ lineage[d.slot[1]].version = 0
               /\ lineage' = StartLineage(d.slot[1], d.ext)
               /\ UNCHANGED captures
          ELSE Captured(d)
    /\ UNCHANGED <<files, external, marker, staged>>

\* The candidate of a lineage is corrected: its lenses are collected again.
ProviderMoves(l) ==
    /\ lineage[l].version \in 1 .. MaxVersion - 1
    /\ lineage' = [lineage EXCEPT ![l].version = @ + 1,
                                  ![l].collecting = Lenses,
                                  ![l].rev = @ + 1]
    /\ UNCHANGED <<files, external, marker, staged, op, captures, faults>>

----------------------------------------------------------------------------
(* advisorAsk. *)

\* rotateHost reads rotation.json and replaces it in one stretch.
NextHost == IF rotation = "claude" THEN "agy" ELSE "claude"

rotateHost(host) == rotation' = IF host = "rotate" THEN NextHost ELSE rotation

ResolvedHost(host) == IF host = "rotate" THEN NextHost ELSE host

\* publishExclusive of a new request under a fresh id.  A follow-up joins its
\* parent's thread.
Publish(host, parent, review) ==
    /\ parent # None => req[parent] # None
    /\ \E i \in Requests :
        /\ req[i] = None
        /\ req' = [req EXCEPT ![i] =
                [host |-> ResolvedHost(host), rotate |-> host = "rotate",
                 thread |-> IF parent = None THEN i ELSE req[parent].thread,
                 parent |-> parent, review |-> review, expired |-> FALSE]]
    /\ rotateHost(host)
    /\ UNCHANGED <<claim, response, evidence, reserved>>

\* pre-code-advice asks nothing of gentle-ai.
AskPreCode(m) ==
    /\ Starts(m, "advisorAsk")
    /\ Cardinality({i \in Requests : req[i] # None /\ req[i].review = None}) < MaxPreCode
    /\ \E host \in AskedHosts, parent \in Requests \cup {None} :
        Publish(host, parent, None)
    /\ UNCHANGED <<external, marker, staged, op, provider, faults>>

\* review-lens: only for a lineage started with externalLenses.
AskReview(m) ==
    /\ Starts(m, "advisorAsk")
    /\ \E i \in Requests : req[i] = None                    \* bound: ids
    /\ \E slot \in Slots :
        /\ slot[1] \in external
        /\ op' = [op EXCEPT ![m] = Spawned("askStatus", [slot |-> slot])]
    /\ UNCHANGED <<files, external, marker, staged, provider, faults>>

\* providerReview, first answer: the collect input of the lens.
AskStatus(m) ==
    /\ Answered(m, "askStatus")
    /\ LET st == op[m].ans
           slot == op[m].data.slot
           asked == st # Refused /\ slot[2] \in st.collecting
       IN  op' = [op EXCEPT ![m] =
                IF asked THEN Spawned("askContext", [slot |-> slot, version |-> st.version])
                         ELSE Idle]
    /\ UNCHANGED <<files, external, marker, staged, provider, faults>>

\* Mutant: the binding line of the reviewer task is not compared.
ContextUnchecked(data, st) == st # Refused

\* providerReview, second answer: the reviewer task must be bound to the
\* subject the status named.
ContextAgrees(data, st) ==
    st # Refused /\ st.version = data.version

AskContext(m) ==
    /\ Answered(m, "askContext")
    /\ Ends(m)
    /\ LET d == op[m].data
           st == op[m].ans
           review == [slot |-> d.slot, version |-> d.version, task |-> st.version]
       IN  \/ /\ ContextAgrees(d, st)
              /\ \E host \in AskedHosts : Publish(host, None, review)
           \/ /\ \/ ~ContextAgrees(d, st)
                 \/ \A i \in Requests : req[i] # None      \* bound: ids
              /\ UNCHANGED files
    /\ UNCHANGED <<external, marker, staged, provider, faults>>

----------------------------------------------------------------------------
(* The advisor's side. *)

Expired(i) == req[i].expired

\* The status advisorGet, advisorList and advisorRead report.
statusOf(i) ==
    IF req[i] = None THEN "absent"
    ELSE IF response[i] # None THEN response[i].status
    ELSE IF Expired(i) THEN "expired"
    ELSE IF claim[i] # None THEN "claimed" ELSE "pending"

\* advisorRead claims the request for the session that reads it first.
advisorRead(a, i) ==
    /\ Starts(a, "advisorRead")
    /\ req[i] # None
    /\ response[i] # None \/ ~Expired(i)
    /\ claim[i] = None
    /\ claim' = [claim EXCEPT ![i] = a]
    /\ UNCHANGED <<req, response, evidence, reserved, rotation, external, marker,
                   staged, op, provider, faults>>

\* evidenceKeep up to its first await: the worker is then read file by file.
EvidenceKeep(a, i) ==
    /\ Starts(a, "evidenceKeep")
    /\ req[i] # None /\ ~Expired(i)
    /\ response[i] = None
    /\ claim[i] = a
    /\ op' = [op EXCEPT ![a] = [pc |-> "keep", data |-> [id |-> i]]]
    /\ UNCHANGED <<files, external, marker, staged, provider, faults>>

\* The last stretch: reservation, rename, check of the answer, release.  A
\* refusal, a read that fails or the 120 s deadline removes what was staged.
KeepDone(a) ==
    /\ op[a].pc = "keep"
    /\ Ends(a)
    /\ LET i == op[a].data.id
           kept == evidence[i] = None /\ i \notin reserved /\ response[i] = None
       IN  \/ kept /\ \E b \in Bodies : evidence' = [evidence EXCEPT ![i] = b]
           \/ UNCHANGED evidence
    /\ UNCHANGED <<req, claim, response, reserved, rotation, external, marker,
                   staged, provider, faults>>

\* validateReviewerResult: the result is about the subject that was asked.
ValidResult(i, version) == version = req[i].review.version

\* Mutant: a request is answered after it has expired.
AnswerableExpired(a, i) == response[i] = None /\ claim[i] = a

\* advisorRespond, one synchronous stretch: validation, then answered,
\* expired, claimed, then the exclusive publication with the evidence found.
Answerable(a, i) ==
    response[i] = None /\ ~Expired(i) /\ claim[i] = a

advisorRespond(a, i) ==
    /\ Starts(a, "advisorRespond")
    /\ req[i] # None
    /\ Answerable(a, i)
    /\ \E status \in {"submitted", "declined"}, version \in Versions \cup {None} :
        /\ (req[i].review # None /\ status = "submitted") = (version # None)
        /\ version # None => ValidResult(i, version)
        /\ response' = [response EXCEPT ![i] =
                [status |-> status, by |-> a, result |-> version,
                 evidence |-> evidence[i]]]
    /\ UNCHANGED <<req, claim, evidence, reserved, rotation, external, marker,
                   staged, op, provider, faults>>

----------------------------------------------------------------------------
(* reviewStart and reviewCaptureResult. *)

\* externalLenses starts a lineage without a runtime agent; the lineage is
\* recorded once gentle-ai has answered with its id.
ReviewStart(m) ==
    /\ Starts(m, "reviewStart")
    /\ \E l \in Lineages, ext \in BOOLEAN :
        /\ lineage[l].version = 0
        /\ op' = [op EXCEPT ![m] =
                Spawned("start", [slot |-> <<l, None>>, ext |-> ext])]
    /\ UNCHANGED <<files, external, marker, staged, provider, faults>>

markExternalLensLineage(l) == external' = external \cup {l}

\* Mutant: the lineage is recorded whatever gentle-ai answered.
StartAnsweredUnchecked(m) ==
    /\ Answered(m, "start")
    /\ Ends(m)
    /\ IF op[m].data.ext
         THEN markExternalLensLineage(op[m].data.slot[1])
         ELSE UNCHANGED external
    /\ UNCHANGED <<files, marker, staged, provider, faults>>

StartAnswered(m) ==
    /\ Answered(m, "start")
    /\ Ends(m)
    /\ IF op[m].ans = "ok" /\ op[m].data.ext
         THEN markExternalLensLineage(op[m].data.slot[1])
         ELSE UNCHANGED external
    /\ UNCHANGED <<files, marker, staged, provider, faults>>

\* Mutant: free-form input is staged for every lineage.
CaptureUnguarded(l) == TRUE

\* guardExternalLensCapture: no free-form input and no agent on a recorded
\* lineage.
CaptureAllowed(l) == l \notin external

\* A capture with the caller's own input and the provider values it has read.
\* The input is staged before gentle-ai is spawned.  (Without an input the
\* command changes nothing here.)
FreeCapture(m) ==
    /\ Starts(m, "reviewCaptureResult")
    /\ \E slot \in Slots :
        /\ lineage[slot[1]].version # 0
        /\ CaptureAllowed(slot[1])
        /\ staged' = staged \cup {m}
        /\ op' = [op EXCEPT ![m] = Spawned("capture",
                [slot |-> slot, version |-> lineage[slot[1]].version,
                 rev |-> lineage[slot[1]].rev, from |-> None,
                 marked |-> slot[1] \in external])]
    /\ UNCHANGED <<files, external, marker, provider, faults>>

\* The finally of reviewCaptureResult removes the snapshot.
Unstaged(m) == staged' = staged \ {m}

FreeCaptured(m) ==
    /\ Answered(m, "capture")
    /\ Ends(m)
    /\ Unstaged(m)
    /\ UNCHANGED <<files, external, marker, provider, faults>>

\* readRelayableLensResponse.
Relayable(i) ==
    /\ req[i] # None /\ req[i].review # None
    /\ response[i] # None /\ response[i].status = "submitted"

\* relayAdvisorResponse up to the fresh status.
Relay(m, i) ==
    /\ Starts(m, "reviewCaptureResult")
    /\ Relayable(i)
    /\ req[i].review.slot[1] \in external
    /\ op' = [op EXCEPT ![m] =
            Spawned("relayStatus", [slot |-> req[i].review.slot, from |-> i])]
    /\ UNCHANGED <<files, external, marker, staged, provider, faults>>

\* The stored answer is about the candidate the lens is collected for now.
Fresh(st, i) ==
    /\ st # Refused
    /\ req[i].review.slot[2] \in st.collecting
    /\ st.version = req[i].review.version

\* The marker is created exclusively; then the preflight is staged and
\* spawned in the same stretch.
MarkerFree(slot) == marker[slot] = None

RelayStatus(m) ==
    /\ Answered(m, "relayStatus")
    /\ LET i == op[m].data.from
           slot == op[m].data.slot
           st == op[m].ans
       IN  IF Fresh(st, i) /\ MarkerFree(slot)
             THEN /\ marker' = [marker EXCEPT ![slot] = i]
                  /\ staged' = staged \cup {m}
                  /\ op' = [op EXCEPT ![m] = Spawned("preflight",
                        [slot |-> slot, version |-> req[i].review.version,
                         rev |-> st.rev, from |-> i, marked |-> TRUE])]
             ELSE Ends(m) /\ UNCHANGED <<marker, staged>>
    /\ UNCHANGED <<files, external, provider, faults>>

\* Mutant: a refused relay keeps its marker.
releaseMissing(m) == UNCHANGED marker

\* release: a refusal or a throw of either capture gives the marker back.
release(m) == marker' = [marker EXCEPT ![op[m].data.slot] = None]

Preflighted(m) ==
    /\ Answered(m, "preflight")
    /\ IF op[m].ans = "ok"
         THEN /\ op' = [op EXCEPT ![m] = Spawned("relayCapture", op[m].data)]
              /\ UNCHANGED <<marker, staged>>
         ELSE Ends(m) /\ Unstaged(m) /\ release(m)
    /\ UNCHANGED <<files, external, provider, faults>>

RelayCaptured(m) ==
    /\ Answered(m, "relayCapture")
    /\ Ends(m)
    /\ Unstaged(m)
    /\ IF op[m].ans = "ok" THEN UNCHANGED marker ELSE release(m)
    /\ UNCHANGED <<files, external, provider, faults>>

----------------------------------------------------------------------------
(* Time, crashes, and the specification. *)

TimePasses(i) ==
    /\ req[i] # None /\ ~Expired(i)
    /\ Fault("expiry")
    /\ req' = [req EXCEPT ![i].expired = TRUE]
    /\ UNCHANGED <<claim, response, evidence, reserved, rotation, external,
                   marker, staged, op, provider>>

\* cleanupStaleReviewInputs, in the constructor of the executor.
cleanupStaleReviewInputs == staged' = {}

\* The broker dies and is started again: every request in flight is gone.  An
\* evidenceKeep may have died between its mkdir and its rename, or between
\* its rename and the removal of the reservation.
Crash ==
    /\ Fault("crash")
    /\ op' = [s \in Mains \cup Advisors |-> Idle]
    /\ cleanupStaleReviewInputs
    /\ \/ UNCHANGED <<reserved, evidence>>
       \/ \E a \in Advisors :
            /\ op[a].pc = "keep"
            /\ evidence[op[a].data.id] = None
            /\ reserved' = reserved \cup {op[a].data.id}
            /\ \E b \in Bodies \cup {None} : evidence' = [evidence EXCEPT ![op[a].data.id] = b]
    /\ UNCHANGED <<req, claim, response, rotation, external, marker, provider>>

Init ==
    /\ req = [i \in Requests |-> None]
    /\ claim = [i \in Requests |-> None]
    /\ response = [i \in Requests |-> None]
    /\ evidence = [i \in Requests |-> None]
    /\ reserved = {}
    /\ rotation = None
    /\ external = {}
    /\ marker = [s \in Slots |-> None]
    /\ staged = {}
    /\ op = [s \in Mains \cup Advisors |-> Idle]
    /\ lineage = [l \in Lineages |-> [version |-> 0, collecting |-> {}, rev |-> 0,
                                      ext |-> FALSE]]
    /\ captures = {}
    /\ faults = {}

Next ==
    \/ \E m \in Mains :
        \/ AskPreCode(m) \/ AskReview(m) \/ AskStatus(m) \/ AskContext(m)
        \/ ReviewStart(m) \/ StartAnswered(m)
        \/ FreeCapture(m) \/ FreeCaptured(m)
        \/ RelayStatus(m) \/ Preflighted(m) \/ RelayCaptured(m)
        \/ ProviderRefuses(m) \/ ProviderReports(m) \/ ProviderExecutes(m)
        \/ \E i \in Requests : Relay(m, i)
    \/ \E a \in Advisors :
        \/ KeepDone(a)
        \/ \E i \in Requests : advisorRead(a, i) \/ EvidenceKeep(a, i) \/ advisorRespond(a, i)
    \/ \E l \in Lineages : ProviderMoves(l)
    \/ \E i \in Requests : TimePasses(i)
    \/ Crash

Spec == Init /\ [][Next]_vars

----------------------------------------------------------------------------
(* Properties. *)

InFlight(m) == op[m].pc \in {"preflight", "relayCapture"}

\* The requests a session of the main socket and of an advisor socket has in
\* flight, and what they carry across their awaits.
CaptureData ==
    [slot : Slots, version : Nat, rev : Nat, from : Requests \cup {None}, marked : BOOLEAN]

Spawns(pcs, data, answers) == [pc : pcs, data : data, ans : answers \cup {None}]

MainOp(o) ==
    /\ o.pc \in {"idle", "askStatus", "askContext", "relayStatus", "start",
                 "capture", "preflight", "relayCapture"}
    /\ o.pc = "idle" => o = Idle
    /\ o.pc = "askStatus" =>
        o \in Spawns({"askStatus"}, [slot : Slots], Report \cup {Refused})
    /\ o.pc = "askContext" =>
        o \in Spawns({"askContext"}, [slot : Slots, version : Nat], Report \cup {Refused})
    /\ o.pc = "relayStatus" =>
        o \in Spawns({"relayStatus"}, [slot : Slots, from : Requests], Report \cup {Refused})
    /\ o.pc = "start" =>
        o \in Spawns({"start"}, [slot : Lineages \X {None}, ext : BOOLEAN], Exits)
    /\ o.pc \in {"capture", "preflight", "relayCapture"} =>
        o \in Spawns({"capture", "preflight", "relayCapture"}, CaptureData, Exits)

AdvisorOp(o) == o = Idle \/ o \in [pc : {"keep"}, data : [id : Requests]]

FileTypes ==
    /\ req \in [Requests -> StoredRequest \cup {None}]
    /\ claim \in [Requests -> Advisors \cup {None}]
    /\ response \in [Requests -> StoredResponse \cup {None}]
    /\ evidence \in [Requests -> Bodies \cup {None}]
    /\ reserved \subseteq Requests /\ rotation \in Hosts \cup {None}
    /\ marker \in [Slots -> Requests \cup {None}] /\ staged \subseteq Mains

ProviderTypes ==
    /\ lineage \in [Lineages -> [version : Nat, collecting : SUBSET Lenses, rev : Nat,
                                 ext : BOOLEAN]]
    /\ captures \subseteq [slot : Slots, version : Nat, from : Requests \cup {None},
                           marked : BOOLEAN]

OpTypes ==
    /\ DOMAIN op = Mains \cup Advisors
    /\ \A m \in Mains : MainOp(op[m])
    /\ \A a \in Advisors : AdvisorOp(op[a])

\* The thread of a request begins with a request of its own, and a follow-up
\* is in the thread of its parent.
Threads ==
    \A i \in Requests : req[i] # None =>
        /\ req[req[i].thread] # None /\ req[req[i].thread].parent = None
        /\ req[i].parent # None =>
            req[req[i].parent] # None /\ req[req[i].parent].thread = req[i].thread

\* Every file and every request in flight has the shape the code gives it,
\* and gentle-ai is only asked about lineages it was asked to start.
TypeOK ==
    /\ FileTypes /\ ProviderTypes /\ OpTypes /\ Threads
    /\ \A i \in Requests :
        (claim[i] # None \/ response[i] # None \/ evidence[i] # None) => req[i] # None
    /\ external \subseteq {l \in Lineages : lineage[l].ext /\ lineage[l].version > 0}
    /\ faults \subseteq {"lost", "crash", "expiry"}

\* What is stored under one id belongs together.  The answer is by the session
\* that holds the claim (advisorRespond), it names the evidence set that is on
\* disk and no other (evidenceKeep never adds to an answered request), its
\* reviewer result is about the subject the request names, and the reviewer
\* task in the request was issued for that subject although it was read in a
\* second call (providerReview).
AnswerBound ==
    \A i \in Requests :
        /\ response[i] # None =>
            /\ response[i].by = claim[i]
            /\ response[i].evidence = evidence[i]
            /\ response[i].result # None => response[i].result = req[i].review.version
        /\ (req[i] # None /\ req[i].review # None) =>
                req[i].review.task = req[i].review.version

\* The relay's private files have one owner.  A relay past its marker holds
\* the marker alone; a marker that is on disk belongs to a relay in flight or
\* to one whose capture gentle-ai accepted, unless the broker died under it;
\* and a staged input snapshot belongs to a capture in flight (release and the
\* finally of reviewCaptureResult, the executor's clean-up at start).
RelayOwnsFiles ==
    /\ \A m \in Mains : InFlight(m) => marker[op[m].data.slot] = op[m].data.from
    /\ \A m, n \in Mains :
        (m # n /\ InFlight(m) /\ InFlight(n)) => op[m].data.slot # op[n].data.slot
    /\ \A s \in Slots : marker[s] # None =>
        \/ \E m \in Mains : InFlight(m) /\ op[m].data.slot = s
        \/ \E c \in captures : c.slot = s /\ c.from = marker[s]
        \/ "crash" \in faults
    /\ staged = {m \in Mains : InFlight(m) \/ op[m].pc = "capture"}

\* What gentle-ai accepted for a lineage that was recorded as external when
\* the capture was requested is the submitted answer of an advisor, relayed
\* under its own id and for the candidate and the lens it was asked about
\* (guardExternalLensCapture, readRelayableLensResponse, the freshness check).
CapturedIsStored ==
    \A c \in captures : c.marked =>
        /\ c.from # None
        /\ response[c.from] # None /\ response[c.from].status = "submitted"
        /\ response[c.from].result = c.version
        /\ req[c.from].review.slot = c.slot

\* An advisory request that was answered or has expired stays so, whatever
\* advisor reads, keeps evidence for or answers it afterwards (statusOf, the
\* checks of advisorRespond, publishExclusive).
StatusFinal ==
    [][\A i \in Requests :
        statusOf(i) \in {"submitted", "declined", "expired"} =>
            statusOf(i)' = statusOf(i)]_vars

=============================================================================

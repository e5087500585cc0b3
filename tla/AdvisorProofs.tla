---------------------------- MODULE AdvisorProofs ----------------------------
(***************************************************************************)
(* Proofs about Advisor, for every set of sessions, requests, lineages and *)
(* lenses, every number of candidates and of faults.                       *)
(***************************************************************************)
EXTENDS Advisor, TLAPS

(* An advisor that keeps evidence holds the claim, and nobody else answers. *)
Keeps(a, o) ==
  o.pc = "keep" => /\ req[o.data.id] # None /\ claim[o.data.id] = a
                   /\ response[o.data.id] = None

(* A submitted answer to a lens request holds a reviewer result.            *)
Results ==
  \A i \in Requests : response[i] # None =>
    (response[i].status = "submitted" /\ req[i].review # None => response[i].result # None)

Backed ==
  \A i \in Requests : (claim[i] # None \/ response[i] # None \/ evidence[i] # None) => req[i] # None

(* The advisory records and the advisors.                                   *)
FilesInv ==
  /\ FileTypes /\ Threads /\ Backed /\ AnswerBound /\ Results
  /\ \A a \in Advisors : AdvisorOp(op[a]) /\ Keeps(a, op[a])

(* Request i asks about the lens and the candidate, and is answered so.     *)
Stored(i, slot, version) ==
  /\ i \in Requests /\ req[i] # None /\ req[i].review # None
  /\ response[i] # None /\ response[i].status = "submitted"
  /\ req[i].review.slot = slot /\ req[i].review.version = version
  /\ response[i].result = version

(* What the request o of a session on the main socket knows.                *)
Knows(o) ==
  /\ o.pc = "start" /\ o.ans = "ok" => /\ lineage[o.data.slot[1]].version > 0
                                       /\ lineage[o.data.slot[1]].ext = o.data.ext
  /\ o.pc = "capture" => ~o.data.marked
  /\ o.pc = "relayStatus" =>
       Stored(o.data.from, o.data.slot, req[o.data.from].review.version)
  /\ o.pc \in {"preflight", "relayCapture"} =>
       Stored(o.data.from, o.data.slot, o.data.version)
  /\ o.pc = "relayCapture" /\ o.ans = "ok" =>
       \E c \in captures : c.slot = o.data.slot /\ c.from = o.data.from

Externals == external \subseteq {l \in Lineages : lineage[l].ext /\ lineage[l].version > 0}

MainInv ==
  /\ ProviderTypes /\ Externals
  /\ DOMAIN op = Mains \cup Advisors
  /\ \A m \in Mains : MainOp(op[m]) /\ Knows(op[m])

(* The inductive invariant.                                                 *)
AdvInv ==
  /\ FilesInv /\ MainInv /\ RelayOwnsFiles /\ CapturedIsStored
  /\ faults \subseteq {"lost", "crash", "expiry"}

-----------------------------------------------------------------------------
(* What no step takes back                                                 *)

(* A request stays, its expiry and its answer are final, and an expired     *)
(* request is not answered.                                                 *)
Settles ==
  \A i \in Requests :
    /\ req[i] # None => /\ req'[i] # None /\ req'[i].review = req[i].review
                        /\ req[i].expired => req'[i].expired
    /\ response[i] # None => response'[i] = response[i]
    /\ req[i] # None /\ req[i].expired /\ response[i] = None => response'[i] = None

(* The operations the sessions of the main socket run.                      *)
MainStep(m) ==
  \/ AskPreCode(m) \/ AskReview(m) \/ AskStatus(m) \/ AskContext(m)
  \/ ReviewStart(m) \/ StartAnswered(m) \/ FreeCapture(m) \/ FreeCaptured(m)
  \/ RelayStatus(m) \/ Preflighted(m) \/ RelayCaptured(m)
  \/ ProviderRefuses(m) \/ ProviderReports(m) \/ ProviderExecutes(m)
  \/ \E i \in Requests : Relay(m, i)

AdvisorStep(a) ==
  \/ KeepDone(a)
  \/ \E i \in Requests : advisorRead(a, i) \/ EvidenceKeep(a, i) \/ advisorRespond(a, i)

LEMMA PublishSettles ==
  ASSUME FileTypes, NEW host, NEW parent, NEW review, Publish(host, parent, review)
  PROVE  Settles
<1>1. PICK i \in Requests : req[i] = None /\ \E r : req' = [req EXCEPT ![i] = r]
  BY DEF Publish
<1>2. response' = response
  BY DEF Publish
<1>3. \A j \in Requests : req[j] # None => req'[j] = req[j]
  BY <1>1 DEF FileTypes
<1> QED BY <1>2, <1>3 DEF Settles

LEMMA StepSettles ==
  ASSUME FilesInv, [Next]_vars
  PROVE  Settles
<1>t. /\ req \in [Requests -> StoredRequest \cup {None}]
      /\ response \in [Requests -> StoredResponse \cup {None}]
  BY DEF FilesInv, FileTypes
<1>1. CASE UNCHANGED <<req, response>>
  BY <1>1 DEF Settles
<1>2. ASSUME NEW m \in Mains, AskPreCode(m) \/ AskContext(m) PROVE Settles
  <2>1. UNCHANGED files \/ \E h, p, r : Publish(h, p, r)
    BY <1>2 DEF AskPreCode, AskContext
  <2> QED BY <1>1, <2>1, PublishSettles DEF files, FilesInv
<1>3. ASSUME NEW m \in Mains, MainStep(m) PROVE Settles
  BY <1>1, <1>2, <1>3 DEF MainStep, AskReview, AskStatus, ReviewStart, StartAnswered, FreeCapture,
     FreeCaptured, RelayStatus, Preflighted, RelayCaptured, ProviderRefuses, ProviderReports,
     ProviderExecutes, Relay, files
<1>4. ASSUME NEW a \in Advisors, NEW i \in Requests, advisorRespond(a, i) PROVE Settles
  <2>1. PICK r : response' = [response EXCEPT ![i] = r]
    BY <1>4 DEF advisorRespond
  <2>2. req' = req /\ response[i] = None /\ ~req[i].expired
    BY <1>4 DEF advisorRespond, Answerable, Expired
  <2> QED BY <1>t, <2>1, <2>2 DEF Settles
<1>5. ASSUME NEW a \in Advisors, AdvisorStep(a) PROVE Settles
  BY <1>1, <1>4, <1>5 DEF AdvisorStep, KeepDone, advisorRead, EvidenceKeep, files
<1>6. ASSUME NEW i \in Requests, TimePasses(i) PROVE Settles
  <2>1. /\ req[i] # None /\ req' = [req EXCEPT ![i] = [req[i] EXCEPT !.expired = TRUE]]
        /\ response' = response /\ req[i] \in StoredRequest
    BY <1>t, <1>6 DEF TimePasses
  <2> DEFINE r == [req[i] EXCEPT !.expired = TRUE]
  <2>2. r.expired = TRUE /\ r.review = req[i].review /\ r \in StoredRequest
    BY <2>1 DEF StoredRequest
  <2> HIDE DEF r
  <2>3. r # None
    BY <2>2, AdvisorAssumption
  <2>4. \A j \in Requests : req'[j] = IF j = i THEN r ELSE req[j]
    BY <1>t, <2>1 DEF r
  <2> QED BY <2>1, <2>2, <2>3, <2>4 DEF Settles
<1>7. CASE (\E l \in Lineages : ProviderMoves(l)) \/ Crash
  BY <1>1, <1>7 DEF ProviderMoves, Crash, files
<1>8. CASE UNCHANGED vars
  BY <1>1, <1>8 DEF vars
<1> QED BY <1>3, <1>5, <1>6, <1>7, <1>8 DEF Next, MainStep, AdvisorStep

LEMMA StoredStays ==
  ASSUME Settles, NEW i, NEW slot, NEW version, Stored(i, slot, version)
  PROVE  /\ i \in Requests /\ req'[i] # None /\ req'[i].review # None
         /\ response'[i] # None /\ response'[i].status = "submitted"
         /\ req'[i].review = req[i].review
         /\ req'[i].review.slot = slot /\ req'[i].review.version = version
         /\ response'[i].result = version
BY DEF Settles, Stored

-----------------------------------------------------------------------------
(* The advisory records                                                    *)

AdvisorsStay == \A a \in Advisors : op'[a] = op[a]

MarkerTypes == marker \in [Slots -> Requests \cup {None}] /\ staged \subseteq Mains

LEMMA FilesFrame ==
  ASSUME FilesInv, UNCHANGED files, AdvisorsStay, MarkerTypes'
  PROVE  FilesInv'
<1>1. UNCHANGED <<req, claim, response, evidence, reserved, rotation>>
  BY DEF files
<1>2. FileTypes' /\ Threads' /\ Backed' /\ AnswerBound' /\ Results'
  BY <1>1 DEF FilesInv, FileTypes, MarkerTypes, Threads, Backed, AnswerBound, Results
<1>3. \A a \in Advisors : AdvisorOp(op[a])' /\ Keeps(a, op[a])'
  BY <1>1 DEF FilesInv, AdvisorsStay, Keeps
<1> QED BY <1>2, <1>3 DEF FilesInv

LEMMA PublishFiles ==
  ASSUME FilesInv, NEW host \in AskedHosts, NEW parent \in Requests \cup {None}, NEW review,
         review = None \/ (review \in StoredReview /\ review.task = review.version),
         Publish(host, parent, review), AdvisorsStay, MarkerTypes'
  PROVE  FilesInv'
<1>t. /\ req \in [Requests -> StoredRequest \cup {None}]
      /\ claim \in [Requests -> Advisors \cup {None}]
      /\ response \in [Requests -> StoredResponse \cup {None}]
      /\ rotation \in Hosts \cup {None}
  BY DEF FilesInv, FileTypes
<1>u. UNCHANGED <<claim, response, evidence, reserved>>
  BY DEF Publish
<1> DEFINE R(i) == [host |-> ResolvedHost(host), rotate |-> host = "rotate",
                    thread |-> IF parent = None THEN i ELSE req[parent].thread,
                    parent |-> parent, review |-> review, expired |-> FALSE]
<1>1. PICK i \in Requests : req[i] = None /\ req' = [req EXCEPT ![i] = R(i)]
  BY DEF Publish
<1>2. parent # None => parent \in Requests /\ req[parent] # None /\ req[parent] \in StoredRequest
  BY <1>t DEF Publish
<1>h. ResolvedHost(host) \in Hosts /\ rotation' \in Hosts \cup {None}
  BY <1>t, AdvisorAssumption DEF ResolvedHost, NextHost, Hosts, Publish, rotateHost
<1> DEFINE r == R(i)
<1>3. r \in StoredRequest
  <2>1. (IF parent = None THEN i ELSE req[parent].thread) \in Requests
    BY <1>2 DEF StoredRequest
  <2> QED BY <1>h, <2>1 DEF StoredRequest
<1>4. /\ r.parent = parent /\ r.review = review
      /\ r.thread = IF parent = None THEN i ELSE req[parent].thread
  OBVIOUS
<1>5. r # None
  BY <1>3, AdvisorAssumption
<1> HIDE DEF r
<1>6. \A j \in Requests : req'[j] = IF j = i THEN r ELSE req[j]
  BY <1>t, <1>1 DEF r
<1>7. FileTypes'
  <2>1. req' \in [Requests -> StoredRequest \cup {None}]
    BY <1>t, <1>1, <1>3 DEF r
  <2> QED BY <1>u, <1>h, <2>1 DEF FilesInv, FileTypes, MarkerTypes
<1>8. Threads'
  <2>1. \A j \in Requests : req[j] # None => j # i /\ req'[j] = req[j] /\ req[j] \in StoredRequest
    BY <1>t, <1>1, <1>6
  <2> SUFFICES ASSUME NEW j \in Requests, req'[j] # None
               PROVE  /\ req'[req'[j].thread] # None /\ req'[req'[j].thread].parent = None
                      /\ req'[j].parent # None =>
                           /\ req'[req'[j].parent] # None
                           /\ req'[req'[j].parent].thread = req'[j].thread
    BY DEF Threads
  <2>2. CASE j = i
    <3>1. req'[j] = r
      BY <1>6, <2>2
    <3>2. CASE parent = None
      BY <1>4, <1>5, <1>6, <2>2, <3>1, <3>2
    <3>3. CASE parent # None
      <4>1. /\ r.thread = req[parent].thread /\ r.thread \in Requests
            /\ req[r.thread] # None /\ req[r.thread].parent = None
        BY <1>2, <1>4, <3>3 DEF FilesInv, Threads, StoredRequest
      <4> QED BY <1>2, <1>4, <2>1, <3>1, <3>3, <4>1
    <3> QED BY <3>2, <3>3
  <2>3. CASE j # i
    <3>1. req'[j] = req[j] /\ req[j] # None /\ req[j] \in StoredRequest
      BY <1>t, <1>6, <2>3
    <3>2. /\ req[j].thread \in Requests /\ req[req[j].thread] # None
          /\ req[req[j].thread].parent = None
          /\ req[j].parent # None =>
               /\ req[j].parent \in Requests /\ req[req[j].parent] # None
               /\ req[req[j].parent].thread = req[j].thread
      BY <3>1 DEF FilesInv, Threads, StoredRequest
    <3> QED BY <2>1, <3>1, <3>2
  <2> QED BY <2>2, <2>3
<1>9. Backed'
  BY <1>5, <1>6, <1>u DEF FilesInv, Backed
<1>10. response[i] = None
  BY <1>1 DEF FilesInv, Backed
<1>11. AnswerBound'
  <2> SUFFICES ASSUME NEW j \in Requests
               PROVE  /\ response'[j] # None =>
                         /\ response'[j].by = claim'[j]
                         /\ response'[j].evidence = evidence'[j]
                         /\ response'[j].result # None => response'[j].result = req'[j].review.version
                      /\ (req'[j] # None /\ req'[j].review # None) =>
                            req'[j].review.task = req'[j].review.version
    BY DEF AnswerBound
  <2>1. CASE j = i
    BY <1>4, <1>6, <1>10, <1>u, <2>1
  <2>2. CASE j # i
    <3>1. req'[j] = req[j] /\ UNCHANGED <<claim, response, evidence>>
      BY <1>6, <1>u, <2>2
    <3> QED BY <3>1 DEF FilesInv, AnswerBound
  <2> QED BY <2>1, <2>2
<1>12. Results'
  BY <1>6, <1>10, <1>u DEF FilesInv, Results
<1>13. ASSUME NEW a \in Advisors
       PROVE  AdvisorOp(op'[a]) /\ (op'[a].pc = "keep" =>
                 /\ req'[op'[a].data.id] # None /\ claim'[op'[a].data.id] = a
                 /\ response'[op'[a].data.id] = None)
  <2>1. AdvisorOp(op[a]) /\ Keeps(a, op[a]) /\ op'[a] = op[a]
    BY DEF FilesInv, AdvisorsStay
  <2>2. op[a].pc = "keep" => op[a].data.id \in Requests
    BY <2>1 DEF AdvisorOp, Idle
  <2> QED BY <1>5, <1>6, <1>u, <2>1, <2>2 DEF Keeps
<1> QED BY <1>7, <1>8, <1>9, <1>11, <1>12, <1>13 DEF FilesInv, Keeps

(* The steps that leave the requests alone, or only let one expire.         *)
SameRequests ==
  \A i \in Requests :
    /\ req'[i] = None <=> req[i] = None
    /\ req[i] # None => /\ req'[i].thread = req[i].thread /\ req'[i].parent = req[i].parent
                        /\ req'[i].review = req[i].review

LEMMA SameThreads ==
  ASSUME FilesInv, SameRequests
  PROVE  Threads'
<1> SUFFICES ASSUME NEW j \in Requests, req'[j] # None
             PROVE  /\ req'[req'[j].thread] # None /\ req'[req'[j].thread].parent = None
                    /\ req'[j].parent # None =>
                         /\ req'[req'[j].parent] # None
                         /\ req'[req'[j].parent].thread = req'[j].thread
  BY DEF Threads
<1>1. /\ req[j] # None /\ req[j] \in StoredRequest
      /\ req'[j].thread = req[j].thread /\ req'[j].parent = req[j].parent
  BY DEF SameRequests, FilesInv, FileTypes
<1>2. /\ req[j].thread \in Requests /\ req[req[j].thread] # None
      /\ req[req[j].thread].parent = None
      /\ req[j].parent # None =>
           /\ req[j].parent \in Requests /\ req[req[j].parent] # None
           /\ req[req[j].parent].thread = req[j].thread
  BY <1>1 DEF FilesInv, Threads, StoredRequest
<1> QED BY <1>1, <1>2 DEF SameRequests

LEMMA FilesExpire ==
  ASSUME FilesInv, NEW i \in Requests, TimePasses(i)
  PROVE  FilesInv'
<1>t. req \in [Requests -> StoredRequest \cup {None}]
  BY DEF FilesInv, FileTypes
<1>1. /\ req[i] # None /\ req' = [req EXCEPT ![i] = [req[i] EXCEPT !.expired = TRUE]]
      /\ req[i] \in StoredRequest
      /\ UNCHANGED <<claim, response, evidence, reserved, rotation, marker, staged, op>>
  BY <1>t DEF TimePasses
<1> DEFINE r == [req[i] EXCEPT !.expired = TRUE]
<1>2. /\ r.review = req[i].review /\ r.thread = req[i].thread /\ r.parent = req[i].parent
      /\ r \in StoredRequest
  BY <1>1 DEF StoredRequest
<1> HIDE DEF r
<1>3. r # None
  BY <1>2, AdvisorAssumption
<1>4. \A j \in Requests : req'[j] = IF j = i THEN r ELSE req[j]
  BY <1>t, <1>1 DEF r
<1>5. SameRequests
  BY <1>1, <1>2, <1>3, <1>4 DEF SameRequests
<1>6. Threads'
  BY <1>5, SameThreads
<1>7. FileTypes'
  <2>1. req' \in [Requests -> StoredRequest \cup {None}]
    BY <1>t, <1>1, <1>2 DEF r
  <2> QED BY <1>1, <2>1 DEF FilesInv, FileTypes
<1>8. Backed'
  BY <1>1, <1>5 DEF FilesInv, Backed, SameRequests
<1>9. AnswerBound'
  BY <1>1, <1>5 DEF FilesInv, AnswerBound, SameRequests, Backed
<1>10. Results'
  BY <1>1, <1>5 DEF FilesInv, Results, SameRequests, Backed
<1>11. ASSUME NEW a \in Advisors
       PROVE  AdvisorOp(op'[a]) /\ (op'[a].pc = "keep" =>
                 /\ req'[op'[a].data.id] # None /\ claim'[op'[a].data.id] = a
                 /\ response'[op'[a].data.id] = None)
  <2>1. AdvisorOp(op[a]) /\ Keeps(a, op[a]) /\ op'[a] = op[a]
    BY <1>1 DEF FilesInv
  <2>2. op[a].pc = "keep" => op[a].data.id \in Requests
    BY <2>1 DEF AdvisorOp, Idle
  <2> QED BY <1>1, <1>5, <2>1, <2>2 DEF Keeps, SameRequests
<1> QED BY <1>6, <1>7, <1>8, <1>9, <1>10, <1>11 DEF FilesInv, Keeps

(* A request that is read is claimed, and was not answered before.          *)
LEMMA FilesRead ==
  ASSUME FilesInv, NEW a \in Advisors, NEW i \in Requests, advisorRead(a, i)
  PROVE  FilesInv'
<1>t. /\ claim \in [Requests -> Advisors \cup {None}]
      /\ response \in [Requests -> StoredResponse \cup {None}]
  BY DEF FilesInv, FileTypes
<1>1. /\ req[i] # None /\ claim[i] = None /\ claim' = [claim EXCEPT ![i] = a]
      /\ UNCHANGED <<req, response, evidence, reserved, rotation, marker, staged, op>>
  BY DEF advisorRead
<1>2. \A j \in Requests : claim'[j] = IF j = i THEN a ELSE claim[j]
  BY <1>t, <1>1
<1>3. response[i] = None
  <2>1. ASSUME response[i] # None PROVE FALSE
    <3>1. response[i].by = None
      BY <1>1, <2>1 DEF FilesInv, AnswerBound
    <3>2. response[i].by \in Advisors
      BY <1>t, <2>1 DEF StoredResponse
    <3> QED BY <3>1, <3>2, AdvisorAssumption
  <2> QED BY <2>1
<1>4. FileTypes' /\ Threads' /\ Results'
  BY <1>1 DEF FilesInv, FileTypes, Threads, Results
<1>5. Backed'
  BY <1>1, <1>2 DEF FilesInv, Backed
<1>6. AnswerBound'
  BY <1>1, <1>2, <1>3 DEF FilesInv, AnswerBound
<1>7. ASSUME NEW b \in Advisors
      PROVE  AdvisorOp(op'[b]) /\ (op'[b].pc = "keep" =>
                 /\ req'[op'[b].data.id] # None /\ claim'[op'[b].data.id] = b
                 /\ response'[op'[b].data.id] = None)
  <2>1. AdvisorOp(op[b]) /\ Keeps(b, op[b]) /\ op'[b] = op[b]
    BY <1>1 DEF FilesInv
  <2>2. op[b].pc = "keep" => op[b].data.id \in Requests
    BY <2>1 DEF AdvisorOp, Idle
  <2>3. op[b].pc = "keep" => op[b].data.id # i
    BY <1>1, <2>1, AdvisorAssumption DEF Keeps
  <2> QED BY <1>1, <1>2, <2>1, <2>2, <2>3 DEF Keeps
<1> QED BY <1>4, <1>5, <1>6, <1>7 DEF FilesInv, Keeps

(* The answer is by the advisor that holds the claim, who keeps no evidence *)
(* at the same time.                                                        *)
LEMMA FilesRespond ==
  ASSUME FilesInv, NEW a \in Advisors, NEW i \in Requests, advisorRespond(a, i)
  PROVE  FilesInv'
<1>t. /\ response \in [Requests -> StoredResponse \cup {None}]
      /\ evidence \in [Requests -> Bodies \cup {None}]
  BY DEF FilesInv, FileTypes
<1>1. /\ req[i] # None /\ response[i] = None /\ claim[i] = a /\ op[a] = Idle
      /\ UNCHANGED <<req, claim, evidence, reserved, rotation, marker, staged, op>>
  BY DEF advisorRespond, Answerable, Starts
<1>2. PICK status \in {"submitted", "declined"}, version \in Versions \cup {None} :
        /\ (req[i].review # None /\ status = "submitted") = (version # None)
        /\ version # None => ValidResult(i, version)
        /\ response' = [response EXCEPT ![i] =
              [status |-> status, by |-> a, result |-> version, evidence |-> evidence[i]]]
  BY DEF advisorRespond
<1> DEFINE r == [status |-> status, by |-> a, result |-> version, evidence |-> evidence[i]]
<1>3. /\ r \in StoredResponse /\ r.by = a /\ r.evidence = evidence[i] /\ r.result = version
      /\ r.status = status
  BY <1>t, <1>2 DEF StoredResponse
<1> HIDE DEF r
<1>4. \A j \in Requests : response'[j] = IF j = i THEN r ELSE response[j]
  BY <1>t, <1>2 DEF r
<1>5. FileTypes'
  <2>1. response' \in [Requests -> StoredResponse \cup {None}]
    BY <1>t, <1>2, <1>3 DEF r
  <2> QED BY <1>1, <2>1 DEF FilesInv, FileTypes
<1>6. Threads' /\ Backed'
  BY <1>1, <1>4 DEF FilesInv, Threads, Backed
<1>7. AnswerBound'
  BY <1>1, <1>2, <1>3, <1>4 DEF FilesInv, AnswerBound, ValidResult
<1>8. Results'
  BY <1>1, <1>2, <1>3, <1>4 DEF FilesInv, Results
<1>9. ASSUME NEW b \in Advisors
      PROVE  AdvisorOp(op'[b]) /\ (op'[b].pc = "keep" =>
                 /\ req'[op'[b].data.id] # None /\ claim'[op'[b].data.id] = b
                 /\ response'[op'[b].data.id] = None)
  <2>1. AdvisorOp(op[b]) /\ Keeps(b, op[b]) /\ op'[b] = op[b]
    BY <1>1 DEF FilesInv
  <2>2. op[b].pc = "keep" => op[b].data.id \in Requests /\ b # a
    BY <1>1, <2>1 DEF AdvisorOp, Idle
  <2>3. op[b].pc = "keep" => op[b].data.id # i
    BY <1>1, <2>1, <2>2 DEF Keeps
  <2> QED BY <1>1, <1>4, <2>1, <2>2, <2>3 DEF Keeps
<1> QED BY <1>5, <1>6, <1>7, <1>8, <1>9 DEF FilesInv, Keeps

(* Evidence is only added to a request without an answer.                   *)
LEMMA FilesEvidence ==
  ASSUME FilesInv, NEW i \in Requests, req[i] # None, response[i] = None,
         NEW b \in Bodies \cup {None}, evidence' = [evidence EXCEPT ![i] = b],
         UNCHANGED <<req, claim, response, rotation, marker>>,
         reserved' \subseteq Requests, staged' \subseteq Mains
  PROVE  FileTypes' /\ Threads' /\ Backed' /\ AnswerBound' /\ Results'
<1>t. evidence \in [Requests -> Bodies \cup {None}]
  BY DEF FilesInv, FileTypes
<1>1. \A j \in Requests : evidence'[j] = IF j = i THEN b ELSE evidence[j]
  BY <1>t
<1>2. evidence' \in [Requests -> Bodies \cup {None}]
  BY <1>t
<1>3. FileTypes' /\ Threads' /\ Results'
  BY <1>2 DEF FilesInv, FileTypes, Threads, Results
<1>4. Backed'
  BY <1>1 DEF FilesInv, Backed
<1>5. AnswerBound'
  BY <1>1 DEF FilesInv, AnswerBound
<1> QED BY <1>3, <1>4, <1>5

LEMMA FilesKeep ==
  ASSUME FilesInv, DOMAIN op = Mains \cup Advisors, NEW a \in Advisors, NEW i \in Requests,
         EvidenceKeep(a, i)
  PROVE  FilesInv'
<1> DEFINE o == [pc |-> "keep", data |-> [id |-> i]]
<1>1. /\ req[i] # None /\ response[i] = None /\ claim[i] = a
      /\ op' = [op EXCEPT ![a] = o]
      /\ UNCHANGED <<req, claim, response, evidence, reserved, rotation, marker, staged>>
  BY DEF EvidenceKeep, files
<1>2. o.pc = "keep" /\ o.data.id = i /\ AdvisorOp(o)
  BY DEF AdvisorOp
<1> HIDE DEF o
<1>3. \A b \in Advisors : op'[b] = IF b = a THEN o ELSE op[b]
  BY <1>1
<1>4. FileTypes' /\ Threads' /\ Backed' /\ AnswerBound' /\ Results'
  BY <1>1 DEF FilesInv, FileTypes, Threads, Backed, AnswerBound, Results
<1>5. ASSUME NEW b \in Advisors
      PROVE  AdvisorOp(op'[b]) /\ (op'[b].pc = "keep" =>
                 /\ req'[op'[b].data.id] # None /\ claim'[op'[b].data.id] = b
                 /\ response'[op'[b].data.id] = None)
  <2>1. CASE b = a
    BY <1>1, <1>2, <1>3, <2>1
  <2>2. CASE b # a
    <3>1. op'[b] = op[b]
      BY <1>3, <2>2
    <3> QED BY <1>1, <3>1 DEF FilesInv, Keeps
  <2> QED BY <2>1, <2>2
<1> QED BY <1>4, <1>5 DEF FilesInv, Keeps

LEMMA FilesKept ==
  ASSUME FilesInv, DOMAIN op = Mains \cup Advisors, NEW a \in Advisors, KeepDone(a)
  PROVE  FilesInv'
<1>1. /\ op[a].pc = "keep" /\ op' = [op EXCEPT ![a] = Idle]
      /\ UNCHANGED <<req, claim, response, reserved, rotation, marker, staged>>
  BY DEF KeepDone, Ends
<1> DEFINE i == op[a].data.id
<1>2. i \in Requests /\ req[i] # None /\ response[i] = None
  BY <1>1 DEF FilesInv, AdvisorOp, Idle, Keeps
<1>3. \/ UNCHANGED evidence
      \/ \E b \in Bodies : evidence' = [evidence EXCEPT ![i] = b]
  BY DEF KeepDone
<1> HIDE DEF i
<1>4. \A b \in Advisors : op'[b] = IF b = a THEN Idle ELSE op[b]
  BY <1>1
<1>5. FileTypes' /\ Threads' /\ Backed' /\ AnswerBound' /\ Results'
  <2>1. CASE UNCHANGED evidence
    BY <1>1, <2>1 DEF FilesInv, FileTypes, Threads, Backed, AnswerBound, Results
  <2>2. ASSUME NEW b \in Bodies, evidence' = [evidence EXCEPT ![i] = b]
        PROVE  FileTypes' /\ Threads' /\ Backed' /\ AnswerBound' /\ Results'
    <3>1. reserved' \subseteq Requests /\ staged' \subseteq Mains
      BY <1>1 DEF FilesInv, FileTypes
    <3> QED BY <1>1, <1>2, <2>2, <3>1, FilesEvidence
  <2> QED BY <1>3, <2>1, <2>2
<1>6. ASSUME NEW b \in Advisors
      PROVE  AdvisorOp(op'[b]) /\ (op'[b].pc = "keep" =>
                 /\ req'[op'[b].data.id] # None /\ claim'[op'[b].data.id] = b
                 /\ response'[op'[b].data.id] = None)
  <2>1. CASE b = a
    BY <1>4, <2>1 DEF AdvisorOp, Idle
  <2>2. CASE b # a
    <3>1. op'[b] = op[b]
      BY <1>4, <2>2
    <3> QED BY <1>1, <3>1 DEF FilesInv, Keeps
  <2> QED BY <2>1, <2>2
<1> QED BY <1>5, <1>6 DEF FilesInv, Keeps

LEMMA FilesCrash ==
  ASSUME FilesInv, Crash
  PROVE  FilesInv'
<1>1. /\ op' = [s \in Mains \cup Advisors |-> Idle] /\ staged' = {}
      /\ UNCHANGED <<req, claim, response, rotation, marker>>
  BY DEF Crash, cleanupStaleReviewInputs
<1>2. FileTypes' /\ Threads' /\ Backed' /\ AnswerBound' /\ Results'
  <2>1. CASE UNCHANGED <<reserved, evidence>>
    BY <1>1, <2>1 DEF FilesInv, FileTypes, Threads, Backed, AnswerBound, Results
  <2>2. ASSUME NEW a \in Advisors, op[a].pc = "keep",
               reserved' = reserved \cup {op[a].data.id},
               NEW b \in Bodies \cup {None}, evidence' = [evidence EXCEPT ![op[a].data.id] = b]
        PROVE  FileTypes' /\ Threads' /\ Backed' /\ AnswerBound' /\ Results'
    <3> DEFINE i == op[a].data.id
    <3>1. i \in Requests /\ req[i] # None /\ response[i] = None
      BY <2>2 DEF FilesInv, AdvisorOp, Idle, Keeps
    <3>2. reserved' \subseteq Requests /\ staged' \subseteq Mains
      BY <1>1, <2>2, <3>1 DEF FilesInv, FileTypes
    <3>3. evidence' = [evidence EXCEPT ![i] = b]
      BY <2>2
    <3> HIDE DEF i
    <3> QED BY <1>1, <3>1, <3>2, <3>3, FilesEvidence
  <2> QED BY <2>1, <2>2 DEF Crash
<1>3. \A b \in Advisors : AdvisorOp(op'[b]) /\ op'[b].pc # "keep"
  BY <1>1 DEF AdvisorOp, Idle
<1> QED BY <1>2, <1>3 DEF FilesInv, Keeps

-----------------------------------------------------------------------------
(* The sessions of the main socket and gentle-ai                           *)

(* What gentle-ai never takes back.                                         *)
ProviderGrows ==
  /\ \A l \in Lineages : lineage[l].version > 0 =>
       lineage'[l].version > 0 /\ lineage'[l].ext = lineage[l].ext
  /\ captures \subseteq captures'

(* Knows(o) in the next state, for a request o of this one.                 *)
KnowsNext(o) ==
  /\ o.pc = "start" /\ o.ans = "ok" => /\ lineage'[o.data.slot[1]].version > 0
                                       /\ lineage'[o.data.slot[1]].ext = o.data.ext
  /\ o.pc = "capture" => ~o.data.marked
  /\ o.pc = "relayStatus" =>
       /\ o.data.from \in Requests /\ req'[o.data.from] # None
       /\ req'[o.data.from].review # None
       /\ response'[o.data.from] # None /\ response'[o.data.from].status = "submitted"
       /\ req'[o.data.from].review.slot = o.data.slot
       /\ response'[o.data.from].result = req'[o.data.from].review.version
  /\ o.pc \in {"preflight", "relayCapture"} =>
       /\ o.data.from \in Requests /\ req'[o.data.from] # None
       /\ req'[o.data.from].review # None
       /\ response'[o.data.from] # None /\ response'[o.data.from].status = "submitted"
       /\ req'[o.data.from].review.slot = o.data.slot
       /\ req'[o.data.from].review.version = o.data.version
       /\ response'[o.data.from].result = o.data.version
  /\ o.pc = "relayCapture" /\ o.ans = "ok" =>
       \E c \in captures' : c.slot = o.data.slot /\ c.from = o.data.from

LEMMA KnowsStays ==
  ASSUME Settles, ProviderGrows, NEW o, MainOp(o), Knows(o)
  PROVE  KnowsNext(o)
<1>1. o.pc = "start" => o.data.slot[1] \in Lineages
  BY DEF MainOp, Spawns
<1>2. o.pc = "start" /\ o.ans = "ok" => /\ lineage'[o.data.slot[1]].version > 0
                                        /\ lineage'[o.data.slot[1]].ext = o.data.ext
  BY <1>1 DEF Knows, ProviderGrows
<1>3. o.pc = "relayStatus" =>
        /\ o.data.from \in Requests /\ req'[o.data.from] # None
        /\ req'[o.data.from].review # None
        /\ response'[o.data.from] # None /\ response'[o.data.from].status = "submitted"
        /\ req'[o.data.from].review.slot = o.data.slot
        /\ response'[o.data.from].result = req'[o.data.from].review.version
  BY StoredStays DEF Knows
<1>4. o.pc \in {"preflight", "relayCapture"} =>
        /\ o.data.from \in Requests /\ req'[o.data.from] # None
        /\ req'[o.data.from].review # None
        /\ response'[o.data.from] # None /\ response'[o.data.from].status = "submitted"
        /\ req'[o.data.from].review.slot = o.data.slot
        /\ req'[o.data.from].review.version = o.data.version
        /\ response'[o.data.from].result = o.data.version
  BY StoredStays DEF Knows
<1> QED BY <1>2, <1>3, <1>4 DEF Knows, KnowsNext, ProviderGrows

(* A step that gives the session m the request o.                           *)
Takes(m, o) ==
  /\ op' = [op EXCEPT ![m] = o]
  /\ MainOp(o) /\ KnowsNext(o)

LEMMA MainTakes ==
  ASSUME MainInv, Settles, ProviderGrows, NEW m \in Mains, NEW o, Takes(m, o)
  PROVE  /\ DOMAIN op' = Mains \cup Advisors /\ AdvisorsStay
         /\ op'[m] = o /\ \A n \in Mains \ {m} : op'[n] = op[n]
         /\ \A n \in Mains : MainOp(op'[n]) /\ KnowsNext(op'[n])
<1>1. /\ DOMAIN op' = Mains \cup Advisors /\ op'[m] = o
      /\ \A n \in (Mains \cup Advisors) \ {m} : op'[n] = op[n]
  BY DEF Takes, MainInv
<1>2. AdvisorsStay
  BY <1>1, AdvisorAssumption DEF AdvisorsStay
<1>3. \A n \in Mains : KnowsNext(op[n]) /\ MainOp(op[n])
  BY KnowsStays DEF MainInv
<1> QED BY <1>1, <1>2, <1>3 DEF Takes

LEMMA MainStays ==
  ASSUME MainInv, Settles, ProviderGrows, \A n \in Mains : op'[n] = op[n]
  PROVE  \A n \in Mains : MainOp(op'[n]) /\ KnowsNext(op'[n])
BY KnowsStays DEF MainInv

LEMMA MainNext ==
  ASSUME ProviderTypes', Externals', DOMAIN op' = Mains \cup Advisors,
         \A n \in Mains : MainOp(op'[n]) /\ KnowsNext(op'[n])
  PROVE  MainInv'
<1>1. \A n \in Mains : MainOp(op[n])'
  BY DEF MainOp
<1>2. \A n \in Mains : Knows(op[n])'
  BY DEF KnowsNext, Knows, Stored
<1> QED BY <1>1, <1>2 DEF MainInv

(* The answer to a request in flight leaves what it was sent with.          *)
LEMMA AnswerRecord ==
  ASSUME NEW o, MainOp(o), o.pc # "idle", NEW x
  PROVE  /\ [o EXCEPT !.ans = x].pc = o.pc
         /\ [o EXCEPT !.ans = x].data = o.data
         /\ [o EXCEPT !.ans = x].ans = x
BY DEF MainOp, Spawns

LEMMA AnswerMain ==
  ASSUME NEW o, MainOp(o), o.pc # "idle", NEW x,
         o.pc \in {"askStatus", "askContext", "relayStatus"} => x \in Report \cup {Refused},
         o.pc \in {"start", "capture", "preflight", "relayCapture"} => x \in Exits
  PROVE  MainOp([o EXCEPT !.ans = x])
<1> DEFINE p == [o EXCEPT !.ans = x]
<1>1. p.pc = o.pc
  BY AnswerRecord
<1>2. CASE o.pc = "askStatus"
  BY <1>1, <1>2 DEF MainOp, Spawns
<1>3. CASE o.pc = "askContext"
  BY <1>1, <1>3 DEF MainOp, Spawns
<1>4. CASE o.pc = "relayStatus"
  BY <1>1, <1>4 DEF MainOp, Spawns
<1>5. CASE o.pc = "start"
  BY <1>1, <1>5 DEF MainOp, Spawns
<1>6. CASE o.pc \in {"capture", "preflight", "relayCapture"}
  BY <1>1, <1>6 DEF MainOp, Spawns
<1> QED BY <1>2, <1>3, <1>4, <1>5, <1>6 DEF MainOp

LineageRecord == [version : Nat, collecting : SUBSET Lenses, rev : Nat, ext : BOOLEAN]

LEMMA ProviderCaptured ==
  ASSUME MainInv, NEW d \in CaptureData, Captured(d)
  PROVE  ProviderTypes' /\ ProviderGrows
<1>t. /\ lineage \in [Lineages -> LineageRecord]
      /\ captures \subseteq [slot : Slots, version : Nat, from : Requests \cup {None},
                             marked : BOOLEAN]
  BY DEF MainInv, ProviderTypes, LineageRecord
<1> DEFINE l == d.slot[1]
           q == [lineage[l] EXCEPT !.collecting = @ \ {d.slot[2]}]
           r == [q EXCEPT !.rev = @ + 1]
           c == [slot |-> d.slot, version |-> d.version, from |-> d.from, marked |-> d.marked]
<1>1. l \in Lineages /\ lineage[l] \in LineageRecord
  BY <1>t DEF CaptureData, Slots
<1>3. lineage' = [lineage EXCEPT ![l] = r]
  BY <1>t, <1>1 DEF Captured
<1>q. q \in LineageRecord /\ q.version = lineage[l].version /\ q.ext = lineage[l].ext
  BY <1>1 DEF LineageRecord
<1> HIDE DEF q
<1>2. r \in LineageRecord /\ r.version = lineage[l].version /\ r.ext = lineage[l].ext
  BY <1>q DEF LineageRecord
<1>4. captures' = captures \cup {c}
  BY DEF Captured
<1>5. c \in [slot : Slots, version : Nat, from : Requests \cup {None}, marked : BOOLEAN]
  BY DEF CaptureData
<1> HIDE DEF l, r, c
<1>6. lineage' \in [Lineages -> LineageRecord]
  BY <1>t, <1>1, <1>2, <1>3
<1>7. ProviderTypes'
  BY <1>t, <1>4, <1>5, <1>6 DEF ProviderTypes, LineageRecord
<1>8. \A k \in Lineages : lineage'[k] = IF k = l THEN r ELSE lineage[k]
  BY <1>t, <1>3
<1>9. ProviderGrows
  BY <1>2, <1>4, <1>8 DEF ProviderGrows
<1> QED BY <1>7, <1>9

LEMMA ProviderStarted ==
  ASSUME MainInv, NEW l \in Lineages, NEW ext \in BOOLEAN, lineage[l].version = 0,
         lineage' = StartLineage(l, ext), UNCHANGED captures
  PROVE  /\ ProviderTypes' /\ ProviderGrows
         /\ lineage'[l].version > 0 /\ lineage'[l].ext = ext
<1>t. lineage \in [Lineages -> LineageRecord]
  BY DEF MainInv, ProviderTypes, LineageRecord
<1> DEFINE r == [version |-> 1, collecting |-> Lenses, rev |-> 1, ext |-> ext]
<1>1. r \in LineageRecord /\ r.version = 1 /\ r.ext = ext
  BY DEF LineageRecord
<1>2. lineage' = [lineage EXCEPT ![l] = r]
  BY DEF StartLineage
<1> HIDE DEF r
<1>3. \A k \in Lineages : lineage'[k] = IF k = l THEN r ELSE lineage[k]
  BY <1>t, <1>2
<1>4. lineage' \in [Lineages -> LineageRecord]
  BY <1>t, <1>1, <1>2
<1> QED BY <1>1, <1>3, <1>4 DEF ProviderTypes, ProviderGrows, MainInv, LineageRecord

LEMMA ProviderMoved ==
  ASSUME MainInv, NEW l \in Lineages, ProviderMoves(l)
  PROVE  ProviderTypes' /\ ProviderGrows
<1>t. lineage \in [Lineages -> LineageRecord]
  BY DEF MainInv, ProviderTypes, LineageRecord
<1> DEFINE p == [lineage[l] EXCEPT !.version = @ + 1]
           q == [p EXCEPT !.collecting = Lenses]
           r == [q EXCEPT !.rev = @ + 1]
<1>1. lineage[l] \in LineageRecord
  BY <1>t
<1>3. lineage' = [lineage EXCEPT ![l] = r]
  BY <1>t DEF ProviderMoves
<1>p. p \in LineageRecord /\ p.version = lineage[l].version + 1 /\ p.ext = lineage[l].ext
  BY <1>1 DEF LineageRecord
<1> HIDE DEF p
<1>q. q \in LineageRecord /\ q.version = p.version /\ q.ext = p.ext
  BY <1>p DEF LineageRecord
<1> HIDE DEF q
<1>2. r \in LineageRecord /\ r.version = lineage[l].version + 1 /\ r.ext = lineage[l].ext
  BY <1>p, <1>q DEF LineageRecord
<1>v. lineage[l].version \in Nat
  BY <1>1 DEF LineageRecord
<1>u. UNCHANGED captures
  BY DEF ProviderMoves
<1> HIDE DEF r
<1>4. \A k \in Lineages : lineage'[k] = IF k = l THEN r ELSE lineage[k]
  BY <1>t, <1>3
<1>5. lineage' \in [Lineages -> LineageRecord]
  BY <1>t, <1>2, <1>3
<1>6. ProviderTypes'
  BY <1>5, <1>u DEF ProviderTypes, MainInv, LineageRecord
<1>7. ProviderGrows
  BY <1>2, <1>4, <1>u, <1>v DEF ProviderGrows
<1> QED BY <1>6, <1>7

LEMMA ProviderStays ==
  ASSUME MainInv, UNCHANGED provider
  PROVE  ProviderTypes' /\ ProviderGrows
BY DEF MainInv, provider, ProviderTypes, ProviderGrows

LEMMA ProviderDone ==
  ASSUME MainInv, NEW m \in Mains, ProviderExecutes(m)
  PROVE  ProviderTypes' /\ ProviderGrows
<1>1. CASE op[m].pc = "start"
  <2> DEFINE l == op[m].data.slot[1]
             ext == op[m].data.ext
  <2>1. l \in Lineages /\ ext \in BOOLEAN
    BY <1>1 DEF MainInv, MainOp, Spawns
  <2>2. lineage[l].version = 0 /\ lineage' = StartLineage(l, ext) /\ UNCHANGED captures
    BY <1>1 DEF ProviderExecutes
  <2> HIDE DEF l, ext
  <2> QED BY <2>1, <2>2, ProviderStarted
<1>2. CASE op[m].pc # "start"
  <2>1. op[m].data \in CaptureData /\ Captured(op[m].data)
    BY <1>2 DEF MainInv, MainOp, Spawns, ProviderExecutes
  <2> QED BY <2>1, ProviderCaptured
<1> QED BY <1>1, <1>2

LEMMA ProviderStep ==
  ASSUME MainInv, [Next]_vars
  PROVE  ProviderTypes' /\ ProviderGrows /\ Externals'
<1>1. ASSUME NEW m \in Mains, MainStep(m), ~ProviderExecutes(m)
      PROVE  UNCHANGED provider
  BY <1>1 DEF MainStep, AskPreCode, AskReview, AskStatus, AskContext, ReviewStart, StartAnswered,
     FreeCapture, FreeCaptured, RelayStatus, Preflighted, RelayCaptured, ProviderRefuses,
     ProviderReports, Relay
<1>2. ASSUME NEW a \in Advisors, AdvisorStep(a)
      PROVE  UNCHANGED provider
  BY <1>2 DEF AdvisorStep, KeepDone, advisorRead, EvidenceKeep, advisorRespond
<1>3. ASSUME (\E i \in Requests : TimePasses(i)) \/ Crash \/ UNCHANGED vars
      PROVE  UNCHANGED provider
  BY <1>3 DEF TimePasses, Crash, vars, provider
<1>4. ProviderTypes' /\ ProviderGrows
  BY <1>1, <1>2, <1>3, ProviderStays, ProviderDone, ProviderMoved DEF Next, MainStep, AdvisorStep
<1>5. ASSUME UNCHANGED external PROVE Externals'
  BY <1>4, <1>5 DEF MainInv, Externals, ProviderGrows
<1>6. ASSUME NEW m \in Mains, StartAnswered(m)
      PROVE  Externals'
  <2>1. CASE op[m].ans = "ok" /\ op[m].data.ext
    <3> DEFINE l == op[m].data.slot[1]
    <3>1. l \in Lineages /\ lineage[l].version > 0 /\ lineage[l].ext /\ external' = external \cup {l}
      BY <1>6, <2>1 DEF StartAnswered, Answered, MainInv, MainOp, Spawns, Knows,
         markExternalLensLineage
    <3> HIDE DEF l
    <3> QED BY <1>4, <3>1 DEF MainInv, Externals, ProviderGrows
  <2> QED BY <1>5, <1>6, <2>1 DEF StartAnswered
<1>7. ASSUME NEW m \in Mains, MainStep(m), ~StartAnswered(m)
      PROVE  UNCHANGED external
  BY <1>7 DEF MainStep, AskPreCode, AskReview, AskStatus, AskContext, ReviewStart,
     FreeCapture, FreeCaptured, RelayStatus, Preflighted, RelayCaptured, ProviderRefuses,
     ProviderReports, ProviderExecutes, Relay
<1>8. ASSUME NEW a \in Advisors, AdvisorStep(a)
      PROVE  UNCHANGED external
  BY <1>8 DEF AdvisorStep, KeepDone, advisorRead, EvidenceKeep, advisorRespond
<1>9. ASSUME \/ Crash \/ UNCHANGED vars
             \/ (\E i \in Requests : TimePasses(i)) \/ (\E l \in Lineages : ProviderMoves(l))
      PROVE  Externals'
  BY <1>5, <1>9 DEF TimePasses, Crash, ProviderMoves, vars
<1>10. Externals'
  BY <1>5, <1>6, <1>7, <1>8, <1>9 DEF Next, MainStep, AdvisorStep
<1> QED BY <1>4, <1>10

(* The requests that leave the relay's files alone: neither side of the     *)
(* step is a capture, or both are the same one.                             *)
Relays(o) == o.pc \in {"preflight", "relayCapture"}

SamePhase(o, p) ==
  /\ Relays(o) <=> Relays(p)
  /\ Relays(o) => o.data = p.data
  /\ o.pc = "capture" <=> p.pc = "capture"

LEMMA SilentKnows ==
  ASSUME NEW o, o.pc \in {"idle", "askStatus", "askContext"}
  PROVE  KnowsNext(o)
BY DEF KnowsNext

LEMMA IdleTakes ==
  ASSUME NEW m, op' = [op EXCEPT ![m] = Idle]
  PROVE  Takes(m, Idle) /\ Idle.pc = "idle"
<1>1. Idle.pc = "idle" /\ MainOp(Idle)
  BY DEF Idle, MainOp
<1> HIDE DEF Idle
<1> QED BY <1>1, SilentKnows DEF Takes

LEMMA AskTakes ==
  ASSUME MainInv, NEW m \in Mains, AskReview(m) \/ AskStatus(m) \/ AskContext(m)
  PROVE  \E o : Takes(m, o) /\ SamePhase(op[m], o)
<1>1. ASSUME AskReview(m) PROVE \E o : Takes(m, o) /\ SamePhase(op[m], o)
  <2>1. PICK slot \in Slots : op' = [op EXCEPT ![m] = Spawned("askStatus", [slot |-> slot])]
    BY <1>1 DEF AskReview
  <2> DEFINE o == Spawned("askStatus", [slot |-> slot])
  <2>2. o.pc = "askStatus" /\ MainOp(o)
    BY DEF Spawned, MainOp, Spawns
  <2>3. op[m].pc = "idle"
    BY <1>1 DEF AskReview, Starts, Idle
  <2> HIDE DEF o
  <2>4. Takes(m, o) /\ SamePhase(op[m], o)
    BY <2>1, <2>2, <2>3, SilentKnows DEF Takes, SamePhase, Relays, o
  <2> QED BY <2>4
<1>2. ASSUME AskStatus(m) PROVE \E o : Takes(m, o) /\ SamePhase(op[m], o)
  <2> DEFINE st == op[m].ans
             slot == op[m].data.slot
             asked == st # Refused /\ slot[2] \in st.collecting
             o == Spawned("askContext", [slot |-> slot, version |-> st.version])
  <2>1. /\ op[m].pc = "askStatus" /\ st # None
        /\ op' = [op EXCEPT ![m] = IF asked THEN o ELSE Idle]
    BY <1>2 DEF AskStatus, Answered
  <2>2. slot \in Slots /\ st \in Report \cup {Refused}
    BY <2>1 DEF MainInv, MainOp, Spawns
  <2> HIDE DEF st, slot
  <2>3. CASE asked
    <3>1. st.version \in Nat
      BY <2>2, <2>3 DEF Report
    <3>2. o.pc = "askContext" /\ MainOp(o)
      BY <2>2, <3>1 DEF Spawned, MainOp, Spawns
    <3>3. op' = [op EXCEPT ![m] = o]
      BY <2>1, <2>3
    <3> HIDE DEF o, asked
    <3>k. KnowsNext(o)
      BY <3>2, SilentKnows
    <3>s. SamePhase(op[m], o)
      BY <2>1, <3>2 DEF SamePhase, Relays
    <3>4. Takes(m, o) /\ SamePhase(op[m], o)
      BY <3>2, <3>3, <3>k, <3>s DEF Takes
    <3> QED BY <3>4
  <2>4. CASE ~asked
    <3>1. op' = [op EXCEPT ![m] = Idle]
      BY <2>1, <2>4
    <3>2. Takes(m, Idle) /\ SamePhase(op[m], Idle)
      BY <2>1, <3>1, IdleTakes DEF SamePhase, Relays
    <3> QED BY <3>2
  <2> QED BY <2>3, <2>4
<1>3. ASSUME AskContext(m) PROVE \E o : Takes(m, o) /\ SamePhase(op[m], o)
  <2>1. op[m].pc = "askContext" /\ op' = [op EXCEPT ![m] = Idle]
    BY <1>3 DEF AskContext, Answered, Ends
  <2>2. Takes(m, Idle) /\ SamePhase(op[m], Idle)
    BY <2>1, IdleTakes DEF SamePhase, Relays
  <2> QED BY <2>2
<1> QED BY <1>1, <1>2, <1>3

LEMMA StartTakes ==
  ASSUME MainInv, NEW m \in Mains, ReviewStart(m) \/ StartAnswered(m)
  PROVE  \E o : Takes(m, o) /\ SamePhase(op[m], o)
<1>1. ASSUME ReviewStart(m) PROVE \E o : Takes(m, o) /\ SamePhase(op[m], o)
  <2>1. PICK l \in Lineages, ext \in BOOLEAN :
          op' = [op EXCEPT ![m] = Spawned("start", [slot |-> <<l, None>>, ext |-> ext])]
    BY <1>1 DEF ReviewStart
  <2> DEFINE o == Spawned("start", [slot |-> <<l, None>>, ext |-> ext])
  <2>2. o.pc = "start" /\ o.ans = None /\ MainOp(o)
    BY DEF Spawned, MainOp, Spawns
  <2>3. op[m].pc = "idle"
    BY <1>1 DEF ReviewStart, Starts, Idle
  <2> HIDE DEF o
  <2>4. KnowsNext(o)
    BY <2>2, AdvisorAssumption DEF KnowsNext, Exits
  <2>5. Takes(m, o) /\ SamePhase(op[m], o)
    BY <2>1, <2>2, <2>3, <2>4 DEF Takes, SamePhase, Relays, o
  <2> QED BY <2>5
<1>2. ASSUME StartAnswered(m) PROVE \E o : Takes(m, o) /\ SamePhase(op[m], o)
  <2>1. op[m].pc = "start" /\ op' = [op EXCEPT ![m] = Idle]
    BY <1>2 DEF StartAnswered, Answered, Ends
  <2>2. Takes(m, Idle) /\ SamePhase(op[m], Idle)
    BY <2>1, IdleTakes DEF SamePhase, Relays
  <2> QED BY <2>2
<1> QED BY <1>1, <1>2

(* What readRelayableLensResponse lets through is bound to its request.     *)
LEMMA RelayableStored ==
  ASSUME FilesInv, NEW i \in Requests, Relayable(i)
  PROVE  /\ Stored(i, req[i].review.slot, req[i].review.version)
         /\ req[i].review \in StoredReview
<1>1. req[i] \in StoredRequest /\ req[i].review # None
  BY DEF FilesInv, FileTypes, Relayable
<1>2. req[i].review \in StoredReview
  BY <1>1 DEF StoredRequest
<1>3. response[i].result # None
  BY DEF FilesInv, Results, Relayable
<1>4. response[i].result = req[i].review.version
  BY <1>3 DEF FilesInv, AnswerBound, Relayable
<1> QED BY <1>2, <1>4 DEF Stored, Relayable

LEMMA RelayTakes ==
  ASSUME FilesInv, MainInv, Settles, NEW m \in Mains, NEW i \in Requests, Relay(m, i)
  PROVE  \E o : Takes(m, o) /\ SamePhase(op[m], o)
<1> DEFINE d == [slot |-> req[i].review.slot, from |-> i]
           o == Spawned("relayStatus", d)
<1>1. op[m].pc = "idle" /\ op' = [op EXCEPT ![m] = o] /\ Relayable(i)
  BY DEF Relay, Starts, Idle
<1>2. Stored(i, req[i].review.slot, req[i].review.version) /\ req[i].review.slot \in Slots
  BY <1>1, RelayableStored DEF StoredReview
<1>3. /\ o.pc = "relayStatus" /\ MainOp(o)
      /\ o.data.from = i /\ o.data.slot = req[i].review.slot
  BY <1>2 DEF Spawned, MainOp, Spawns
<1> HIDE DEF o
<1>4. KnowsNext(o)
  BY <1>2, <1>3, StoredStays DEF KnowsNext
<1>5. Takes(m, o) /\ SamePhase(op[m], o)
  BY <1>1, <1>3, <1>4 DEF Takes, SamePhase, Relays
<1> QED BY <1>5

LEMMA RefusedTakes ==
  ASSUME MainInv, Settles, ProviderGrows, NEW m \in Mains, ProviderRefuses(m)
  PROVE  \E o : Takes(m, o) /\ SamePhase(op[m], o)
<1> DEFINE p == op[m]
           o == [p EXCEPT !.ans = Refused]
<1>1. p.pc # "idle" /\ op' = [op EXCEPT ![m] = o]
  BY DEF ProviderRefuses
<1>2. MainOp(p) /\ KnowsNext(p)
  BY KnowsStays DEF MainInv
<1> HIDE DEF p
<1>3. MainOp(o) /\ o.pc = p.pc /\ o.data = p.data /\ o.ans = Refused
  BY <1>1, <1>2, AnswerMain, AnswerRecord DEF Exits
<1> HIDE DEF o
<1>4. KnowsNext(o)
  BY <1>2, <1>3, AdvisorAssumption DEF KnowsNext
<1>5. Takes(m, o) /\ SamePhase(p, o)
  BY <1>1, <1>3, <1>4 DEF Takes, SamePhase, Relays
<1> QED BY <1>5 DEF p

LEMMA ReportTakes ==
  ASSUME MainInv, Settles, ProviderGrows, NEW m \in Mains, ProviderReports(m)
  PROVE  \E o : Takes(m, o) /\ SamePhase(op[m], o)
<1> DEFINE p == op[m]
           x == IF p.pc = "preflight" THEN "ok" ELSE Status(p.data.slot[1])
           o == [p EXCEPT !.ans = x]
<1>1. /\ p.pc \in {"askStatus", "askContext", "relayStatus", "preflight"}
      /\ op' = [op EXCEPT ![m] = o]
  BY DEF ProviderReports
<1>2. MainOp(p) /\ KnowsNext(p)
  BY KnowsStays DEF MainInv
<1> HIDE DEF p
<1>3. ASSUME p.pc # "preflight" PROVE x \in Report
  <2>1. p.data.slot[1] \in Lineages
    BY <1>1, <1>2, <1>3 DEF MainOp, Spawns, Slots
  <2>2. lineage[p.data.slot[1]] \in [version : Nat, collecting : SUBSET Lenses, rev : Nat, ext : BOOLEAN]
    BY <2>1 DEF MainInv, ProviderTypes
  <2>3. Status(p.data.slot[1]) \in Report
    BY <2>2 DEF Status, Report
  <2> QED BY <1>3, <2>3
<1>4. p.pc = "preflight" => x = "ok"
  OBVIOUS
<1> HIDE DEF x
<1>5. MainOp(o) /\ o.pc = p.pc /\ o.data = p.data /\ o.ans = x
  BY <1>1, <1>2, <1>3, <1>4, AnswerMain, AnswerRecord DEF Exits
<1> HIDE DEF o
<1>6. KnowsNext(o)
  BY <1>1, <1>2, <1>5 DEF KnowsNext
<1>7. Takes(m, o) /\ SamePhase(p, o)
  BY <1>1, <1>5, <1>6 DEF Takes, SamePhase, Relays
<1> QED BY <1>7 DEF p

LEMMA ExecuteTakes ==
  ASSUME MainInv, Settles, ProviderGrows, NEW m \in Mains, ProviderExecutes(m)
  PROVE  \E o : Takes(m, o) /\ SamePhase(op[m], o)
<1> DEFINE p == op[m]
<1>1. PICK x \in {"ok", Lost} : op' = [op EXCEPT ![m] = [p EXCEPT !.ans = x]]
  BY DEF ProviderExecutes
<1>2. p.pc \in {"start", "capture", "relayCapture"}
  BY DEF ProviderExecutes
<1>3. MainOp(p) /\ KnowsNext(p)
  BY KnowsStays DEF MainInv
<1>4. ASSUME p.pc = "start"
      PROVE  lineage'[p.data.slot[1]].version > 0 /\ lineage'[p.data.slot[1]].ext = p.data.ext
  <2> DEFINE l == p.data.slot[1]
             ext == p.data.ext
  <2>1. l \in Lineages /\ ext \in BOOLEAN
    BY <1>3, <1>4 DEF MainOp, Spawns
  <2>2. lineage[l].version = 0 /\ lineage' = StartLineage(l, ext) /\ UNCHANGED captures
    BY <1>4 DEF ProviderExecutes
  <2> HIDE DEF l, ext
  <2>3. lineage'[l].version > 0 /\ lineage'[l].ext = ext
    BY <2>1, <2>2, ProviderStarted
  <2> QED BY <2>3 DEF l, ext
<1>5. ASSUME p.pc = "relayCapture"
      PROVE  \E c \in captures' : c.slot = p.data.slot /\ c.from = p.data.from
  <2> DEFINE c == [slot |-> p.data.slot, version |-> p.data.version, from |-> p.data.from,
                   marked |-> p.data.marked]
  <2>1. c \in captures'
    BY <1>5 DEF ProviderExecutes, Captured
  <2>2. c.slot = p.data.slot /\ c.from = p.data.from
    OBVIOUS
  <2> QED BY <2>1, <2>2
<1> HIDE DEF p
<1> DEFINE o == [p EXCEPT !.ans = x]
<1>6. MainOp(o) /\ o.pc = p.pc /\ o.data = p.data /\ o.ans = x
  BY <1>1, <1>2, <1>3, AnswerMain, AnswerRecord DEF Exits
<1> HIDE DEF o
<1>7. KnowsNext(o)
  BY <1>2, <1>3, <1>4, <1>5, <1>6 DEF KnowsNext
<1>8. Takes(m, o) /\ SamePhase(p, o)
  BY <1>1, <1>6, <1>7 DEF Takes, SamePhase, Relays, o
<1> QED BY <1>8 DEF p

(* A preflight that passed is followed by the capture it was for.           *)
LEMMA PreflightTakes ==
  ASSUME MainInv, Settles, ProviderGrows, NEW m \in Mains, Preflighted(m), op[m].ans = "ok"
  PROVE  \E o : Takes(m, o) /\ SamePhase(op[m], o)
<1> DEFINE p == op[m]
           o == Spawned("relayCapture", p.data)
<1>1. p.pc = "preflight" /\ op' = [op EXCEPT ![m] = o]
  BY DEF Preflighted, Answered
<1>2. MainOp(p) /\ KnowsNext(p)
  BY KnowsStays DEF MainInv
<1> HIDE DEF p
<1>3. p.data \in CaptureData
  BY <1>1, <1>2 DEF MainOp, Spawns
<1>4. o.pc = "relayCapture" /\ o.data = p.data /\ o.ans = None /\ MainOp(o)
  BY <1>3 DEF Spawned, MainOp, Spawns
<1> HIDE DEF o
<1>5. KnowsNext(o)
  BY <1>1, <1>2, <1>4, AdvisorAssumption DEF KnowsNext, Exits
<1>6. Takes(m, o) /\ SamePhase(p, o)
  BY <1>1, <1>4, <1>5 DEF Takes, SamePhase, Relays
<1> QED BY <1>6 DEF p

-----------------------------------------------------------------------------
(* The relay's private files                                               *)

(* RelayOwnsFiles in the next state.                                        *)
OwnsNext ==
  /\ \A n \in Mains : Relays(op'[n]) => marker'[op'[n].data.slot] = op'[n].data.from
  /\ \A n, k \in Mains :
       (n # k /\ Relays(op'[n]) /\ Relays(op'[k])) => op'[n].data.slot # op'[k].data.slot
  /\ \A s \in Slots : marker'[s] # None =>
       \/ \E n \in Mains : Relays(op'[n]) /\ op'[n].data.slot = s
       \/ \E c \in captures' : c.slot = s /\ c.from = marker'[s]
       \/ "crash" \in faults'
  /\ \A n \in Mains : n \in staged' <=> (Relays(op'[n]) \/ op'[n].pc = "capture")
  /\ staged' \subseteq Mains

Owns ==
  /\ \A n \in Mains : Relays(op[n]) => marker[op[n].data.slot] = op[n].data.from
  /\ \A n, k \in Mains :
       (n # k /\ Relays(op[n]) /\ Relays(op[k])) => op[n].data.slot # op[k].data.slot
  /\ \A s \in Slots : marker[s] # None =>
       \/ \E n \in Mains : Relays(op[n]) /\ op[n].data.slot = s
       \/ \E c \in captures : c.slot = s /\ c.from = marker[s]
       \/ "crash" \in faults
  /\ \A n \in Mains : n \in staged <=> (Relays(op[n]) \/ op[n].pc = "capture")
  /\ staged \subseteq Mains

LEMMA OwnsNow ==
  ASSUME RelayOwnsFiles PROVE Owns
BY DEF RelayOwnsFiles, InFlight, Owns, Relays

LEMMA OwnsThen ==
  ASSUME OwnsNext PROVE RelayOwnsFiles'
<1>1. \A n \in Mains : InFlight(n)' <=> Relays(op'[n])
  BY DEF InFlight, Relays
<1>2. (staged = {n \in Mains : InFlight(n) \/ op[n].pc = "capture"})'
  BY <1>1 DEF OwnsNext
<1> QED BY <1>1, <1>2 DEF OwnsNext, RelayOwnsFiles

LEMMA RelayStays ==
  ASSUME RelayOwnsFiles, UNCHANGED <<marker, staged>>, captures \subseteq captures',
         faults \subseteq faults', \A n \in Mains : SamePhase(op[n], op'[n])
  PROVE  RelayOwnsFiles'
<1>1. Owns
  BY OwnsNow
<1>2. \A n \in Mains : /\ Relays(op'[n]) <=> Relays(op[n])
                       /\ Relays(op[n]) => op'[n].data = op[n].data
                       /\ op'[n].pc = "capture" <=> op[n].pc = "capture"
  BY DEF SamePhase
<1>3. OwnsNext
  BY <1>1, <1>2 DEF Owns, OwnsNext
<1> QED BY <1>3, OwnsThen

(* The session m takes up o; the others go on.                              *)
Only(m, o) == op'[m] = o /\ \A n \in Mains \ {m} : op'[n] = op[n]

(* A capture request begins or ends without a marker.                       *)
LEMMA RelayFree ==
  ASSUME RelayOwnsFiles, NEW m \in Mains, NEW o, Only(m, o), UNCHANGED <<marker, captures, faults>>,
         ~Relays(op[m]), ~Relays(o),
         \/ o.pc = "capture" /\ staged' = staged \cup {m}
         \/ o.pc # "capture" /\ staged' = staged \ {m}
  PROVE  RelayOwnsFiles'
<1>1. Owns
  BY OwnsNow
<1>2. \A n \in Mains : /\ Relays(op'[n]) <=> Relays(op[n])
                       /\ Relays(op[n]) => op'[n] = op[n]
  BY DEF Only
<1>3. \A n \in Mains : n \in staged' <=> (Relays(op'[n]) \/ op'[n].pc = "capture")
  BY <1>1 DEF Owns, Only
<1>4. staged' \subseteq Mains
  BY <1>1 DEF Owns
<1>5. OwnsNext
  BY <1>1, <1>2, <1>3, <1>4 DEF Owns, OwnsNext
<1> QED BY <1>5, OwnsThen

(* A relay takes a free marker.                                             *)
LEMMA RelayBegins ==
  ASSUME RelayOwnsFiles, NEW m \in Mains, NEW o, Only(m, o), UNCHANGED <<captures, faults>>,
         \A n \in Mains : Relays(op[n]) => op[n].data.from # None /\ op[n].data.slot \in Slots,
         ~Relays(op[m]), Relays(o), o.data.slot \in Slots, marker[o.data.slot] = None,
         marker \in [Slots -> Requests \cup {None}],
         marker' = [marker EXCEPT ![o.data.slot] = o.data.from], staged' = staged \cup {m}
  PROVE  RelayOwnsFiles'
<1>1. Owns
  BY OwnsNow
<1>2. \A s \in Slots : marker'[s] = IF s = o.data.slot THEN o.data.from ELSE marker[s]
  OBVIOUS
<1>3. marker'[o.data.slot] = o.data.from
  BY <1>2
<1>4. \A n \in Mains \ {m} : op'[n] = op[n] /\ (Relays(op[n]) => op[n].data.slot # o.data.slot)
  BY <1>1 DEF Only, Owns
<1>5. \A n \in Mains : n \in staged' <=> (Relays(op'[n]) \/ op'[n].pc = "capture")
  BY <1>1 DEF Owns, Only
<1>6. staged' \subseteq Mains
  BY <1>1 DEF Owns
<1>7. op'[m] = o
  BY DEF Only
<1>8. \A n \in Mains : Relays(op'[n]) => marker'[op'[n].data.slot] = op'[n].data.from
  <2> SUFFICES ASSUME NEW n \in Mains \ {m}, Relays(op[n])
               PROVE  marker'[op[n].data.slot] = op[n].data.from
    BY <1>3, <1>4, <1>7
  <2>1. marker[op[n].data.slot] = op[n].data.from
    BY <1>1 DEF Owns
  <2>2. op[n].data.slot # o.data.slot
    BY <1>4
  <2> QED BY <1>2, <2>1, <2>2
<1>9. \A n, k \in Mains :
        (n # k /\ Relays(op'[n]) /\ Relays(op'[k])) => op'[n].data.slot # op'[k].data.slot
  BY <1>1, <1>4, <1>7 DEF Owns
<1>10. \A s \in Slots : marker'[s] # None =>
         \/ \E n \in Mains : Relays(op'[n]) /\ op'[n].data.slot = s
         \/ \E c \in captures' : c.slot = s /\ c.from = marker'[s]
         \/ "crash" \in faults'
  BY <1>1, <1>2, <1>4, <1>7 DEF Owns
<1>11. OwnsNext
  BY <1>5, <1>6, <1>8, <1>9, <1>10 DEF OwnsNext
<1> QED BY <1>11, OwnsThen

(* A relay ends: its marker is given back, or gentle-ai has its capture.    *)
LEMMA RelayEnds ==
  ASSUME RelayOwnsFiles, NEW m \in Mains, NEW o, Only(m, o), UNCHANGED <<captures, faults>>,
         Relays(op[m]), o.pc = "idle",
         \A n \in Mains : Relays(op[n]) => op[n].data.slot \in Slots,
         marker \in [Slots -> Requests \cup {None}], staged' = staged \ {m},
         \/ marker' = [marker EXCEPT ![op[m].data.slot] = None]
         \/ /\ UNCHANGED marker
            /\ \E c \in captures : c.slot = op[m].data.slot /\ c.from = op[m].data.from
  PROVE  RelayOwnsFiles'
<1>1. Owns
  BY OwnsNow
<1> DEFINE slot == op[m].data.slot
<1>2. ~Relays(op'[m]) /\ op'[m].pc # "capture" /\ \A n \in Mains \ {m} : op'[n] = op[n]
  BY DEF Only, Relays
<1>3. \A n \in Mains \ {m} : Relays(op[n]) => op[n].data.slot # slot
  BY <1>1 DEF Owns
<1>4. marker[slot] = op[m].data.from
  BY <1>1 DEF Owns
<1>5. /\ \A s \in Slots : s # slot => marker'[s] = marker[s]
      /\ marker'[slot] # None =>
           \E c \in captures : c.slot = slot /\ c.from = marker'[slot]
  BY <1>4
<1> HIDE DEF slot
<1>6. \A n \in Mains : n \in staged' <=> (Relays(op'[n]) \/ op'[n].pc = "capture")
  BY <1>1, <1>2 DEF Owns
<1>7. staged' \subseteq Mains
  BY <1>1 DEF Owns
<1>8. \A n \in Mains : Relays(op'[n]) => marker'[op'[n].data.slot] = op'[n].data.from
  <2> SUFFICES ASSUME NEW n \in Mains \ {m}, Relays(op[n])
               PROVE  marker'[op[n].data.slot] = op[n].data.from
    BY <1>2
  <2>1. marker[op[n].data.slot] = op[n].data.from
    BY <1>1 DEF Owns
  <2> QED BY <1>3, <1>5, <2>1
<1>9. \A n, k \in Mains :
        (n # k /\ Relays(op'[n]) /\ Relays(op'[k])) => op'[n].data.slot # op'[k].data.slot
  BY <1>1, <1>2 DEF Owns
<1>10. ASSUME NEW s \in Slots, marker'[s] # None
       PROVE  \/ \E n \in Mains : Relays(op'[n]) /\ op'[n].data.slot = s
              \/ \E c \in captures' : c.slot = s /\ c.from = marker'[s]
              \/ "crash" \in faults'
  <2>1. CASE s = slot
    BY <1>5, <1>10, <2>1
  <2>2. CASE s # slot
    <3>1. marker[s] # None /\ marker'[s] = marker[s]
      BY <1>5, <1>10, <2>2
    <3>2. \A n \in Mains : Relays(op[n]) /\ op[n].data.slot = s => n # m
      BY <2>2 DEF slot
    <3> QED BY <1>1, <1>2, <3>1, <3>2 DEF Owns
  <2> QED BY <2>1, <2>2
<1>11. OwnsNext
  BY <1>6, <1>7, <1>8, <1>9, <1>10 DEF OwnsNext
<1> QED BY <1>11, OwnsThen

-----------------------------------------------------------------------------
(* What gentle-ai accepted                                                 *)

StoredNext(c) ==
  c.marked => /\ c.from # None
              /\ response'[c.from] # None /\ response'[c.from].status = "submitted"
              /\ response'[c.from].result = c.version
              /\ req'[c.from].review.slot = c.slot

LEMMA CapturedStays ==
  ASSUME FilesInv, MainInv, CapturedIsStored, Settles, NEW c \in captures
  PROVE  StoredNext(c)
<1> SUFFICES ASSUME c.marked
             PROVE  /\ c.from # None
                    /\ response'[c.from] # None /\ response'[c.from].status = "submitted"
                    /\ response'[c.from].result = c.version
                    /\ req'[c.from].review.slot = c.slot
  BY DEF StoredNext
<1>1. /\ c.from # None /\ response[c.from] # None /\ response[c.from].status = "submitted"
      /\ response[c.from].result = c.version /\ req[c.from].review.slot = c.slot
  BY DEF CapturedIsStored
<1>2. c.from \in Requests
  BY <1>1 DEF MainInv, ProviderTypes
<1>3. req[c.from] # None
  BY <1>1, <1>2 DEF FilesInv, Backed
<1>4. response'[c.from] = response[c.from] /\ req'[c.from].review = req[c.from].review
  BY <1>1, <1>2, <1>3 DEF Settles
<1> QED BY <1>1, <1>4

LEMMA CapturesKept ==
  ASSUME [Next]_vars, \A m \in Mains : ~ProviderExecutes(m)
  PROVE  UNCHANGED captures
<1>1. ASSUME NEW m \in Mains, MainStep(m)
      PROVE  UNCHANGED provider
  BY <1>1 DEF MainStep, AskPreCode, AskReview, AskStatus, AskContext, ReviewStart, StartAnswered,
     FreeCapture, FreeCaptured, RelayStatus, Preflighted, RelayCaptured, ProviderRefuses,
     ProviderReports, Relay
<1>2. ASSUME NEW a \in Advisors, AdvisorStep(a)
      PROVE  UNCHANGED provider
  BY <1>2 DEF AdvisorStep, KeepDone, advisorRead, EvidenceKeep, advisorRespond
<1>3. ASSUME \/ Crash \/ UNCHANGED vars
             \/ (\E i \in Requests : TimePasses(i)) \/ (\E l \in Lineages : ProviderMoves(l))
      PROVE  UNCHANGED captures
  BY <1>3 DEF TimePasses, Crash, ProviderMoves, vars, provider
<1>4. UNCHANGED provider \/ UNCHANGED captures
  BY <1>1, <1>2, <1>3 DEF Next, MainStep, AdvisorStep
<1> QED BY <1>4 DEF provider

LEMMA CapturedStep ==
  ASSUME FilesInv, MainInv, CapturedIsStored, Settles, [Next]_vars
  PROVE  CapturedIsStored'
<1>1. ASSUME \A c \in captures' : StoredNext(c)
      PROVE  CapturedIsStored'
  BY <1>1 DEF CapturedIsStored, StoredNext
<1>2. CASE UNCHANGED captures
  BY <1>1, <1>2, CapturedStays
<1>3. ASSUME NEW m \in Mains, ProviderExecutes(m) PROVE CapturedIsStored'
  <2>1. CASE op[m].pc = "start"
    BY <1>2, <1>3, <2>1 DEF ProviderExecutes
  <2>2. CASE op[m].pc # "start"
    <3> DEFINE d == op[m].data
               c == [slot |-> d.slot, version |-> d.version, from |-> d.from, marked |-> d.marked]
    <3>1. op[m].pc \in {"capture", "relayCapture"} /\ captures' = captures \cup {c}
      BY <1>3, <2>2 DEF ProviderExecutes, Captured
    <3>2. Knows(op[m])
      BY DEF MainInv
    <3>3. c.slot = d.slot /\ c.version = d.version /\ c.from = d.from /\ c.marked = d.marked
      OBVIOUS
    <3> HIDE DEF c
    <3>4. op[m].pc = "capture" => ~c.marked
      BY <3>2, <3>3 DEF Knows
    <3>5. op[m].pc = "relayCapture" => Stored(c.from, c.slot, c.version)
      BY <3>2, <3>3 DEF Knows
    <3>6. StoredNext(c)
      BY <3>1, <3>4, <3>5, StoredStays, AdvisorAssumption DEF StoredNext
    <3> QED BY <1>1, <3>1, <3>6, CapturedStays
  <2> QED BY <2>1, <2>2
<1> QED BY <1>2, <1>3, CapturesKept

-----------------------------------------------------------------------------
(* The steps                                                               *)

LEMMA QuietStep ==
  ASSUME AdvInv, Settles, ProviderTypes', ProviderGrows, Externals', faults \subseteq faults',
         UNCHANGED <<marker, staged>>, NEW m \in Mains,
         \E o : Takes(m, o) /\ SamePhase(op[m], o)
  PROVE  MainInv' /\ RelayOwnsFiles' /\ AdvisorsStay /\ MarkerTypes'
<1>0. MainInv /\ RelayOwnsFiles /\ MarkerTypes
  BY DEF AdvInv, FilesInv, FileTypes, MarkerTypes
<1>1. PICK o : Takes(m, o) /\ SamePhase(op[m], o)
  OBVIOUS
<1>2. /\ DOMAIN op' = Mains \cup Advisors /\ AdvisorsStay
      /\ op'[m] = o /\ \A n \in Mains \ {m} : op'[n] = op[n]
      /\ \A n \in Mains : MainOp(op'[n]) /\ KnowsNext(op'[n])
  BY <1>0, <1>1, MainTakes
<1>3. MainInv'
  BY <1>2, MainNext
<1>4. \A n \in Mains : SamePhase(op[n], op'[n])
  BY <1>1, <1>2 DEF SamePhase
<1>5. RelayOwnsFiles'
  BY <1>0, <1>4, RelayStays DEF ProviderGrows
<1> QED BY <1>0, <1>2, <1>3, <1>5 DEF MarkerTypes

(* Nobody on the main socket takes a step.                                  *)
LEMMA OthersStep ==
  ASSUME AdvInv, Settles, ProviderTypes', ProviderGrows, Externals', faults \subseteq faults',
         UNCHANGED <<marker, staged>>, DOMAIN op' = Mains \cup Advisors,
         \A n \in Mains : op'[n] = op[n]
  PROVE  MainInv' /\ RelayOwnsFiles'
<1>0. MainInv /\ RelayOwnsFiles
  BY DEF AdvInv
<1>1. \A n \in Mains : MainOp(op'[n]) /\ KnowsNext(op'[n])
  BY <1>0, MainStays
<1>2. MainInv'
  BY <1>1, MainNext
<1>3. \A n \in Mains : SamePhase(op[n], op'[n])
  BY DEF SamePhase
<1>4. RelayOwnsFiles'
  BY <1>0, <1>3, RelayStays DEF ProviderGrows
<1> QED BY <1>2, <1>4

(* What a relay in flight carries.                                          *)
LEMMA RelayData ==
  ASSUME MainInv
  PROVE  /\ \A n \in Mains : Relays(op[n]) =>
              /\ op[n].data.from # None /\ op[n].data.from \in Requests
              /\ op[n].data.slot \in Slots
<1> SUFFICES ASSUME NEW n \in Mains, Relays(op[n])
             PROVE  /\ op[n].data.from # None /\ op[n].data.from \in Requests
                    /\ op[n].data.slot \in Slots
  OBVIOUS
<1>1. op[n].data \in CaptureData
  BY DEF MainInv, MainOp, Relays, Spawns
<1>2. op[n].data.from \in Requests
  BY DEF MainInv, Knows, Stored, Relays
<1> QED BY <1>1, <1>2, AdvisorAssumption DEF CaptureData

LEMMA MainStepTakes ==
  ASSUME AdvInv, Settles, ProviderTypes', ProviderGrows, Externals', NEW m \in Mains, NEW o,
         Takes(m, o)
  PROVE  MainInv' /\ AdvisorsStay /\ Only(m, o)
<1>0. MainInv
  BY DEF AdvInv
<1>1. /\ DOMAIN op' = Mains \cup Advisors /\ AdvisorsStay
      /\ op'[m] = o /\ \A n \in Mains \ {m} : op'[n] = op[n]
      /\ \A n \in Mains : MainOp(op'[n]) /\ KnowsNext(op'[n])
  BY <1>0, MainTakes
<1>2. MainInv'
  BY <1>1, MainNext
<1> QED BY <1>1, <1>2 DEF Only

LEMMA FreeStep ==
  ASSUME AdvInv, Settles, ProviderTypes', ProviderGrows, Externals', NEW m \in Mains,
         FreeCapture(m) \/ FreeCaptured(m)
  PROVE  MainInv' /\ RelayOwnsFiles' /\ AdvisorsStay /\ MarkerTypes'
<1>0. /\ MainInv /\ RelayOwnsFiles /\ marker \in [Slots -> Requests \cup {None}]
      /\ staged \subseteq Mains
      /\ lineage \in [Lineages -> LineageRecord]
  BY DEF AdvInv, FilesInv, FileTypes, MainInv, ProviderTypes, LineageRecord
<1>u. UNCHANGED <<marker, captures, faults>>
  BY DEF FreeCapture, FreeCaptured, provider
<1>1. ASSUME FreeCapture(m)
      PROVE  MainInv' /\ RelayOwnsFiles' /\ AdvisorsStay /\ MarkerTypes'
  <2> DEFINE D(slot) == [slot |-> slot, version |-> lineage[slot[1]].version,
                         rev |-> lineage[slot[1]].rev, from |-> None,
                         marked |-> slot[1] \in external]
  <2>1. PICK slot \in Slots :
          /\ slot[1] \notin external /\ staged' = staged \cup {m}
          /\ op' = [op EXCEPT ![m] = Spawned("capture", D(slot))]
    BY <1>1 DEF FreeCapture, CaptureAllowed
  <2> DEFINE d == D(slot)
             o == Spawned("capture", d)
  <2>2. lineage[slot[1]] \in LineageRecord
    BY <1>0 DEF Slots
  <2>b. (slot[1] \in external) = FALSE
    BY <2>1
  <2>3. d \in CaptureData /\ ~d.marked
    <3>1. d = [slot |-> slot, version |-> lineage[slot[1]].version,
               rev |-> lineage[slot[1]].rev, from |-> None, marked |-> FALSE]
      BY <2>b, Zenon
    <3>2. lineage[slot[1]].version \in Nat /\ lineage[slot[1]].rev \in Nat
      BY <2>2 DEF LineageRecord
    <3> QED BY <3>1, <3>2 DEF CaptureData
  <2>4. op' = [op EXCEPT ![m] = o]
    BY <2>1
  <2> HIDE DEF d
  <2>5. o.pc = "capture" /\ o.data = d /\ MainOp(o)
    BY <2>3 DEF Spawned, MainOp, Spawns
  <2> HIDE DEF o
  <2>6. KnowsNext(o)
    BY <2>3, <2>5 DEF KnowsNext
  <2>7. MainInv' /\ AdvisorsStay /\ Only(m, o)
    BY <2>4, <2>5, <2>6, MainStepTakes DEF Takes
  <2>8. op[m].pc = "idle"
    BY <1>1 DEF FreeCapture, Starts, Idle
  <2>9. ~Relays(op[m]) /\ ~Relays(o)
    BY <2>5, <2>8 DEF Relays
  <2>10. RelayOwnsFiles'
    BY <1>0, <1>u, <2>1, <2>5, <2>7, <2>9, RelayFree
  <2> QED BY <1>0, <1>u, <2>1, <2>7, <2>10 DEF MarkerTypes
<1>2. ASSUME FreeCaptured(m)
      PROVE  MainInv' /\ RelayOwnsFiles' /\ AdvisorsStay /\ MarkerTypes'
  <2>1. op[m].pc = "capture" /\ op' = [op EXCEPT ![m] = Idle] /\ staged' = staged \ {m}
    BY <1>2 DEF FreeCaptured, Answered, Ends, Unstaged
  <2>2. Takes(m, Idle) /\ Idle.pc = "idle"
    BY <2>1, IdleTakes
  <2>3. MainInv' /\ AdvisorsStay /\ Only(m, Idle)
    BY <2>2, MainStepTakes
  <2>4. ~Relays(op[m]) /\ ~Relays(Idle) /\ Idle.pc # "capture"
    BY <2>1, <2>2 DEF Relays
  <2>5. RelayOwnsFiles'
    BY <1>0, <1>u, <2>1, <2>3, <2>4, RelayFree
  <2> QED BY <1>0, <1>u, <2>1, <2>3, <2>5 DEF MarkerTypes
<1> QED BY <1>1, <1>2

LEMMA RelayEndStep ==
  ASSUME AdvInv, Settles, ProviderTypes', ProviderGrows, Externals', NEW m \in Mains,
         (Preflighted(m) /\ op[m].ans # "ok") \/ RelayCaptured(m)
  PROVE  MainInv' /\ RelayOwnsFiles' /\ AdvisorsStay /\ MarkerTypes'
<1>0. /\ MainInv /\ RelayOwnsFiles /\ marker \in [Slots -> Requests \cup {None}]
      /\ staged \subseteq Mains
  BY DEF AdvInv, FilesInv, FileTypes
<1>1. /\ Relays(op[m]) /\ op' = [op EXCEPT ![m] = Idle] /\ staged' = staged \ {m}
      /\ UNCHANGED <<captures, faults>>
  BY DEF Preflighted, RelayCaptured, Answered, Relays, Ends, Unstaged, provider
<1>2. \/ marker' = [marker EXCEPT ![op[m].data.slot] = None]
      \/ /\ UNCHANGED marker
         /\ \E c \in captures : c.slot = op[m].data.slot /\ c.from = op[m].data.from
  BY <1>0 DEF Preflighted, RelayCaptured, Answered, release, MainInv, Knows
<1>3. \A n \in Mains : Relays(op[n]) => op[n].data.slot \in Slots
  BY <1>0, RelayData
<1>4. Takes(m, Idle) /\ Idle.pc = "idle"
  BY <1>1, IdleTakes
<1>5. MainInv' /\ AdvisorsStay /\ Only(m, Idle)
  BY <1>4, MainStepTakes
<1>6. RelayOwnsFiles'
  BY <1>0, <1>1, <1>2, <1>3, <1>4, <1>5, RelayEnds
<1>7. marker' \in [Slots -> Requests \cup {None}]
  BY <1>0, <1>2
<1> QED BY <1>0, <1>1, <1>5, <1>6, <1>7 DEF MarkerTypes

LEMMA RelayBeginStep ==
  ASSUME AdvInv, Settles, ProviderTypes', ProviderGrows, Externals', NEW m \in Mains,
         RelayStatus(m)
  PROVE  MainInv' /\ RelayOwnsFiles' /\ AdvisorsStay /\ MarkerTypes'
<1>0. /\ MainInv /\ RelayOwnsFiles /\ marker \in [Slots -> Requests \cup {None}]
      /\ staged \subseteq Mains
      /\ req \in [Requests -> StoredRequest \cup {None}]
  BY DEF AdvInv, FilesInv, FileTypes
<1>u. UNCHANGED <<captures, faults>>
  BY DEF RelayStatus, provider
<1> DEFINE i == op[m].data.from
           slot == op[m].data.slot
           st == op[m].ans
<1>1. /\ op[m].pc = "relayStatus" /\ st # None
      /\ slot \in Slots /\ st \in Report \cup {Refused}
      /\ Stored(i, slot, req[i].review.version)
  BY <1>0 DEF RelayStatus, Answered, MainInv, MainOp, Spawns, Knows
<1>2. CASE Fresh(st, i) /\ MarkerFree(slot)
  <2> DEFINE d == [slot |-> slot, version |-> req[i].review.version, rev |-> st.rev,
                   from |-> i, marked |-> TRUE]
             o == Spawned("preflight", d)
  <2>1. /\ marker' = [marker EXCEPT ![slot] = i] /\ staged' = staged \cup {m}
        /\ op' = [op EXCEPT ![m] = o]
    BY <1>2 DEF RelayStatus
  <2>2. st.rev \in Nat
    BY <1>1, <1>2 DEF Fresh, Report
  <2>3. i \in Requests /\ req[i].review.version \in Nat
    BY <1>0, <1>1 DEF Stored, StoredRequest, StoredReview
  <2> HIDE DEF i, slot, st
  <2>4. d \in CaptureData /\ d.slot = slot /\ d.from = i /\ d.version = req[i].review.version
    BY <1>1, <2>2, <2>3 DEF CaptureData
  <2> HIDE DEF d
  <2>5. o.pc = "preflight" /\ o.data = d /\ MainOp(o)
    BY <2>4 DEF Spawned, MainOp, Spawns
  <2> HIDE DEF o
  <2>6. KnowsNext(o)
    BY <1>1, <2>4, <2>5, StoredStays DEF KnowsNext
  <2>7. MainInv' /\ AdvisorsStay /\ Only(m, o)
    BY <2>1, <2>5, <2>6, MainStepTakes DEF Takes
  <2>8. ~Relays(op[m]) /\ Relays(o)
    BY <1>1, <2>5 DEF Relays
  <2>9. \A n \in Mains : Relays(op[n]) => op[n].data.from # None /\ op[n].data.slot \in Slots
    BY <1>0, RelayData
  <2>10. /\ o.data.slot \in Slots /\ marker[o.data.slot] = None
         /\ marker' = [marker EXCEPT ![o.data.slot] = o.data.from]
    BY <1>1, <1>2, <2>1, <2>4, <2>5 DEF MarkerFree
  <2>11. RelayOwnsFiles'
    BY <1>0, <1>u, <2>1, <2>7, <2>8, <2>9, <2>10, RelayBegins
  <2>12. marker' \in [Slots -> Requests \cup {None}]
    BY <1>0, <2>1, <2>3
  <2> QED BY <1>0, <2>1, <2>7, <2>11, <2>12 DEF MarkerTypes
<1>3. CASE ~(Fresh(st, i) /\ MarkerFree(slot))
  <2>1. op' = [op EXCEPT ![m] = Idle] /\ UNCHANGED <<marker, staged>>
    BY <1>3 DEF RelayStatus, Ends
  <2>2. Takes(m, Idle) /\ SamePhase(op[m], Idle)
    BY <1>1, <2>1, IdleTakes DEF SamePhase, Relays
  <2>3. \E o : Takes(m, o) /\ SamePhase(op[m], o)
    BY <2>2
  <2> QED BY <1>u, <2>1, <2>3, QuietStep
<1> QED BY <1>2, <1>3

LEMMA CrashStep ==
  ASSUME AdvInv, ProviderTypes', Externals', Crash
  PROVE  MainInv' /\ RelayOwnsFiles'
<1>1. /\ op' = [s \in Mains \cup Advisors |-> Idle] /\ staged' = {} /\ "crash" \in faults'
  BY DEF Crash, cleanupStaleReviewInputs, Fault
<1>2. Idle.pc = "idle" /\ MainOp(Idle)
  BY DEF Idle, MainOp
<1> HIDE DEF Idle
<1>3. \A n \in Mains : op'[n] = Idle
  BY <1>1
<1>4. \A n \in Mains : MainOp(op'[n]) /\ KnowsNext(op'[n])
  BY <1>2, <1>3, SilentKnows
<1>5. MainInv'
  BY <1>1, <1>4, MainNext
<1>6. \A n \in Mains : ~Relays(op'[n]) /\ op'[n].pc # "capture"
  BY <1>2, <1>3 DEF Relays
<1>7. OwnsNext
  BY <1>1, <1>6 DEF OwnsNext
<1> QED BY <1>5, <1>7, OwnsThen

LEMMA FaultsStep ==
  ASSUME AdvInv, [Next]_vars
  PROVE  faults' \subseteq {"lost", "crash", "expiry"} /\ faults \subseteq faults'
<1>1. ASSUME NEW m \in Mains, MainStep(m)
      PROVE  UNCHANGED faults \/ faults' = faults \cup {"lost"}
  BY <1>1 DEF MainStep, AskPreCode, AskReview, AskStatus, AskContext, ReviewStart, StartAnswered,
     FreeCapture, FreeCaptured, RelayStatus, Preflighted, RelayCaptured, ProviderRefuses,
     ProviderReports, ProviderExecutes, Relay, Fault
<1>2. ASSUME NEW a \in Advisors, AdvisorStep(a)
      PROVE  UNCHANGED faults
  BY <1>2 DEF AdvisorStep, KeepDone, advisorRead, EvidenceKeep, advisorRespond
<1>3. ASSUME \/ Crash \/ UNCHANGED vars
             \/ (\E i \in Requests : TimePasses(i)) \/ (\E l \in Lineages : ProviderMoves(l))
      PROVE  UNCHANGED faults \/ faults' = faults \cup {"crash"} \/ faults' = faults \cup {"expiry"}
  BY <1>3 DEF TimePasses, Crash, ProviderMoves, vars, Fault
<1> QED BY <1>1, <1>2, <1>3 DEF Next, MainStep, AdvisorStep, AdvInv

(* The files a step of the main socket leaves alone or publishes a request  *)
(* into.                                                                    *)
LEMMA MainFiles ==
  ASSUME AdvInv, NEW m \in Mains, MainStep(m), AdvisorsStay, MarkerTypes'
  PROVE  FilesInv'
<1>0. FilesInv /\ MainInv
  BY DEF AdvInv
<1>1. CASE UNCHANGED files
  BY <1>0, <1>1, FilesFrame
<1>2. CASE AskPreCode(m)
  <2>1. \E host \in AskedHosts, parent \in Requests \cup {None} : Publish(host, parent, None)
    BY <1>2 DEF AskPreCode
  <2> QED BY <1>0, <2>1, PublishFiles
<1>3. CASE AskContext(m)
  <2> DEFINE d == op[m].data
             st == op[m].ans
             review == [slot |-> d.slot, version |-> d.version, task |-> st.version]
  <2>1. /\ op[m].pc = "askContext" /\ st # None
        /\ \/ ContextAgrees(d, st) /\ \E host \in AskedHosts : Publish(host, None, review)
           \/ UNCHANGED files
    BY <1>3 DEF AskContext, Answered
  <2>2. CASE ContextAgrees(d, st) /\ \E host \in AskedHosts : Publish(host, None, review)
    <3>1. d.slot \in Slots /\ d.version \in Nat /\ st.version = d.version
      BY <1>0, <2>1, <2>2 DEF MainInv, MainOp, Spawns, ContextAgrees
    <3>2. review \in StoredReview /\ review.task = review.version
      BY <3>1 DEF StoredReview
    <3> HIDE DEF review
    <3> QED BY <1>0, <2>2, <3>2, PublishFiles
  <2> QED BY <1>1, <2>1, <2>2
<1>4. CASE ~AskPreCode(m) /\ ~AskContext(m)
  BY <1>1, <1>4 DEF MainStep, AskReview, AskStatus, ReviewStart, StartAnswered,
     FreeCapture, FreeCaptured, RelayStatus, Preflighted, RelayCaptured, ProviderRefuses,
     ProviderReports, ProviderExecutes, Relay
<1> QED BY <1>2, <1>3, <1>4

LEMMA MainAction ==
  ASSUME AdvInv, [Next]_vars, NEW m \in Mains, MainStep(m)
  PROVE  FilesInv' /\ MainInv' /\ RelayOwnsFiles'
<1>0. FilesInv /\ MainInv
  BY DEF AdvInv
<1>s. Settles
  BY <1>0, StepSettles
<1>p. ProviderTypes' /\ ProviderGrows /\ Externals'
  BY <1>0, ProviderStep
<1>f. faults \subseteq faults'
  BY FaultsStep
<1>1. CASE AskPreCode(m)
  <2>1. UNCHANGED <<marker, staged, op>>
    BY <1>1 DEF AskPreCode
  <2>2. DOMAIN op' = Mains \cup Advisors /\ AdvisorsStay /\ MarkerTypes'
    BY <1>0, <2>1 DEF MainInv, AdvisorsStay, FilesInv, FileTypes, MarkerTypes
  <2>3. \A n \in Mains : op'[n] = op[n]
    BY <2>1
  <2>4. MainInv' /\ RelayOwnsFiles'
    BY <1>s, <1>p, <1>f, <2>1, <2>2, <2>3, OthersStep
  <2> QED BY <2>2, <2>4, MainFiles
<1>2. ASSUME UNCHANGED <<marker, staged>>, \E o : Takes(m, o) /\ SamePhase(op[m], o)
      PROVE  FilesInv' /\ MainInv' /\ RelayOwnsFiles'
  BY <1>s, <1>p, <1>f, <1>2, QuietStep, MainFiles
<1>3. CASE AskReview(m) \/ AskStatus(m) \/ AskContext(m)
  <2>1. UNCHANGED <<marker, staged>>
    BY <1>3 DEF AskReview, AskStatus, AskContext
  <2> QED BY <1>0, <1>2, <1>3, <2>1, AskTakes
<1>4. CASE ReviewStart(m) \/ StartAnswered(m)
  <2>1. UNCHANGED <<marker, staged>>
    BY <1>4 DEF ReviewStart, StartAnswered
  <2> QED BY <1>0, <1>2, <1>4, <2>1, StartTakes
<1>5. CASE \E i \in Requests : Relay(m, i)
  <2>1. UNCHANGED <<marker, staged>>
    BY <1>5 DEF Relay
  <2> QED BY <1>0, <1>s, <1>2, <1>5, <2>1, RelayTakes
<1>6. CASE ProviderRefuses(m) \/ ProviderReports(m) \/ ProviderExecutes(m)
  <2>1. UNCHANGED <<marker, staged>>
    BY <1>6 DEF ProviderRefuses, ProviderReports, ProviderExecutes
  <2> QED BY <1>0, <1>s, <1>p, <1>2, <1>6, <2>1, RefusedTakes, ReportTakes, ExecuteTakes
<1>7. CASE Preflighted(m) /\ op[m].ans = "ok"
  <2>1. UNCHANGED <<marker, staged>>
    BY <1>7 DEF Preflighted
  <2> QED BY <1>0, <1>s, <1>p, <1>2, <1>7, <2>1, PreflightTakes
<1>8. CASE (Preflighted(m) /\ op[m].ans # "ok") \/ RelayCaptured(m)
  BY <1>s, <1>p, <1>8, RelayEndStep, MainFiles
<1>9. CASE RelayStatus(m)
  BY <1>s, <1>p, <1>9, RelayBeginStep, MainFiles
<1>10. CASE FreeCapture(m) \/ FreeCaptured(m)
  BY <1>s, <1>p, <1>10, FreeStep, MainFiles
<1> QED BY <1>1, <1>3, <1>4, <1>5, <1>6, <1>7, <1>8, <1>9, <1>10 DEF MainStep

LEMMA AdvisorAction ==
  ASSUME AdvInv, [Next]_vars, NEW a \in Advisors, AdvisorStep(a)
  PROVE  FilesInv' /\ MainInv' /\ RelayOwnsFiles'
<1>0. FilesInv /\ MainInv /\ DOMAIN op = Mains \cup Advisors
  BY DEF AdvInv, MainInv
<1>1. FilesInv'
  BY <1>0, FilesRead, FilesRespond, FilesKeep, FilesKept DEF AdvisorStep
<1>2. UNCHANGED <<marker, staged>>
  BY DEF AdvisorStep, KeepDone, advisorRead, EvidenceKeep, advisorRespond
<1>3. UNCHANGED op \/ \E o : op' = [op EXCEPT ![a] = o]
  BY DEF AdvisorStep, KeepDone, advisorRead, EvidenceKeep, advisorRespond, Ends
<1>4. DOMAIN op' = Mains \cup Advisors /\ \A n \in Mains : op'[n] = op[n]
  BY <1>0, <1>3, AdvisorAssumption
<1>5. Settles /\ ProviderTypes' /\ ProviderGrows /\ Externals' /\ faults \subseteq faults'
  BY <1>0, StepSettles, ProviderStep, FaultsStep
<1> QED BY <1>1, <1>2, <1>4, <1>5, OthersStep

LEMMA AdvInit ==
  ASSUME Init PROVE AdvInv
<1> DEFINE z == [version |-> 0, collecting |-> {}, rev |-> 0, ext |-> FALSE]
<1>1. Idle.pc = "idle" /\ MainOp(Idle) /\ AdvisorOp(Idle)
  BY DEF Idle, MainOp, AdvisorOp
<1>2. FileTypes /\ Threads /\ Backed /\ AnswerBound /\ Results
  BY DEF Init, FileTypes, Threads, Backed, AnswerBound, Results
<1>3. \A s \in Mains \cup Advisors : op[s] = Idle
  BY DEF Init
<1>d. DOMAIN op = Mains \cup Advisors
  BY DEF Init
<1>4. z \in LineageRecord
  BY DEF LineageRecord
<1>5. lineage = [l \in Lineages |-> z] /\ captures = {} /\ external = {}
  BY DEF Init
<1> HIDE DEF Idle, z
<1>6. FilesInv
  BY <1>1, <1>2, <1>3 DEF FilesInv, Keeps
<1>7. ProviderTypes /\ Externals
  BY <1>4, <1>5 DEF ProviderTypes, Externals, LineageRecord
<1>8. MainInv
  BY <1>1, <1>3, <1>7, <1>d DEF MainInv, Knows
<1>9. \A m \in Mains : ~InFlight(m) /\ op[m].pc # "capture"
  BY <1>1, <1>3 DEF InFlight
<1>10. RelayOwnsFiles
  BY <1>9 DEF RelayOwnsFiles, Init
<1>11. CapturedIsStored /\ faults = {}
  BY DEF CapturedIsStored, Init
<1> QED BY <1>6, <1>8, <1>10, <1>11 DEF AdvInv

LEMMA AdvStep ==
  ASSUME AdvInv, [Next]_vars
  PROVE  AdvInv'
<1>0. FilesInv /\ MainInv /\ CapturedIsStored /\ RelayOwnsFiles
  BY DEF AdvInv
<1>1. Settles /\ ProviderTypes' /\ ProviderGrows /\ Externals'
  BY <1>0, StepSettles, ProviderStep
<1>2. faults' \subseteq {"lost", "crash", "expiry"} /\ faults \subseteq faults'
  BY FaultsStep
<1>3. CapturedIsStored'
  BY <1>0, <1>1, CapturedStep
<1>4. FilesInv' /\ MainInv' /\ RelayOwnsFiles'
  <2>1. ASSUME NEW m \in Mains, MainStep(m) PROVE FilesInv' /\ MainInv' /\ RelayOwnsFiles'
    BY <2>1, MainAction
  <2>2. ASSUME NEW a \in Advisors, AdvisorStep(a) PROVE FilesInv' /\ MainInv' /\ RelayOwnsFiles'
    BY <2>2, AdvisorAction
  <2>3. ASSUME Crash PROVE FilesInv' /\ MainInv' /\ RelayOwnsFiles'
    BY <1>0, <1>1, <2>3, FilesCrash, CrashStep
  <2>4. ASSUME UNCHANGED <<marker, staged, op>> PROVE MainInv' /\ RelayOwnsFiles'
    <3>1. DOMAIN op' = Mains \cup Advisors /\ \A n \in Mains : op'[n] = op[n]
      BY <1>0, <2>4 DEF MainInv
    <3> QED BY <1>1, <1>2, <2>4, <3>1, OthersStep
  <2>5. ASSUME NEW i \in Requests, TimePasses(i) PROVE FilesInv' /\ MainInv' /\ RelayOwnsFiles'
    <3>1. UNCHANGED <<marker, staged, op>>
      BY <2>5 DEF TimePasses
    <3> QED BY <1>0, <2>4, <2>5, <3>1, FilesExpire
  <2>6. ASSUME (\E l \in Lineages : ProviderMoves(l)) \/ UNCHANGED vars
        PROVE  FilesInv' /\ MainInv' /\ RelayOwnsFiles'
    <3>1. UNCHANGED <<marker, staged, op>> /\ UNCHANGED files
      BY <2>6 DEF ProviderMoves, vars, files
    <3>2. AdvisorsStay /\ MarkerTypes'
      BY <1>0, <3>1 DEF AdvisorsStay, FilesInv, FileTypes, MarkerTypes
    <3> QED BY <1>0, <2>4, <3>1, <3>2, FilesFrame
  <2> QED BY <2>1, <2>2, <2>3, <2>5, <2>6 DEF Next, MainStep, AdvisorStep
<1> QED BY <1>2, <1>3, <1>4 DEF AdvInv

LEMMA AdvCorrect == Spec => []AdvInv
<1>1. Init => AdvInv
  BY AdvInit
<1>2. AdvInv /\ [Next]_vars => AdvInv'
  BY AdvStep
<1> QED BY <1>1, <1>2, PTL DEF Spec

-----------------------------------------------------------------------------
(* The theorems                                                            *)

(* Every file, every request in flight and every lineage has the shape the  *)
(* code gives it, and what is stored under an id has a request.             *)
THEOREM AdvisorTypes == Spec => []TypeOK
<1>1. AdvInv => TypeOK
  BY DEF AdvInv, FilesInv, MainInv, TypeOK, OpTypes, Backed, Externals
<1> QED BY <1>1, AdvCorrect, PTL

(* What is stored under one id belongs together (advisorRespond,            *)
(* evidenceKeep, providerReview): the answer is by the claiming session,    *)
(* with the evidence on disk, about the subject that was asked.             *)
THEOREM AnswersBound == Spec => []AnswerBound
<1>1. AdvInv => AnswerBound
  BY DEF AdvInv, FilesInv
<1> QED BY <1>1, AdvCorrect, PTL

(* The marker and the staged snapshot of a relay have one owner             *)
(* (relayAdvisorResponse, reviewCaptureResult).                             *)
THEOREM RelayOwned == Spec => []RelayOwnsFiles
<1>1. AdvInv => RelayOwnsFiles
  BY DEF AdvInv
<1> QED BY <1>1, AdvCorrect, PTL

(* What gentle-ai accepted for an external lineage is the stored answer of  *)
(* an advisor (guardExternalLensCapture, readRelayableLensResponse).        *)
THEOREM CapturedStored == Spec => []CapturedIsStored
<1>1. AdvInv => CapturedIsStored
  BY DEF AdvInv
<1> QED BY <1>1, AdvCorrect, PTL

(* An answered or expired request stays so (statusOf, advisorRespond).      *)
THEOREM StatusIsFinal == Spec => StatusFinal
<1>1. ASSUME AdvInv, [Next]_vars
      PROVE  [\A i \in Requests :
                statusOf(i) \in {"submitted", "declined", "expired"} =>
                    statusOf(i)' = statusOf(i)]_vars
  <2>1. Settles
    BY <1>1, StepSettles DEF AdvInv
  <2>2. ASSUME NEW i \in Requests, statusOf(i) \in {"submitted", "declined", "expired"}
        PROVE  statusOf(i)' = statusOf(i)
    <3>1. req[i] # None
      BY <2>2 DEF statusOf
    <3>2. req'[i] # None
      BY <2>1, <3>1 DEF Settles
    <3>3. CASE response[i] # None
      <4>1. response'[i] = response[i]
        BY <2>1, <3>3 DEF Settles
      <4> QED BY <3>1, <3>2, <3>3, <4>1 DEF statusOf
    <3>4. CASE response[i] = None
      <4>1. req[i].expired
        BY <2>2, <3>1, <3>4 DEF statusOf, Expired
      <4>2. req'[i].expired /\ response'[i] = None
        BY <2>1, <3>1, <3>4, <4>1 DEF Settles
      <4> QED BY <3>1, <3>2, <3>4, <4>1, <4>2 DEF statusOf, Expired
    <3> QED BY <3>3, <3>4
  <2> QED BY <2>2
<1> QED BY <1>1, AdvCorrect, PTL DEF Spec, StatusFinal

=============================================================================

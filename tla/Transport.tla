------------------------------ MODULE Transport ------------------------------
(***************************************************************************)
(* One plugin's connection to the broker: createBrokerClient of            *)
(* opencode/plugins/lib/broker-client.ts at one end, onData, dispatchLine, *)
(* RequestLineFramer and SocketWriteQueue of broker/src/server.ts at the   *)
(* other.  What an operation does is left to the other modules; here it    *)
(* runs, may report that it is queued, and ends with one final response.   *)
(*                                                                         *)
(* A frame is a line of two pieces: the first carries the id, the second   *)
(* ends with the newline.  A socket write takes any number of the pieces   *)
(* that are waiting, and pieces arrive one at a time and in order.         *)
(***************************************************************************)
EXTENDS Naturals, Sequences

CONSTANTS
  Req,          \* the requests the plugin's sessions issue, by id
  LongOpening,  \* requests whose first piece is already over the line cap
  LongClosing,  \* requests that only their last piece takes over the cap
  MaxConn,      \* bound on the connections the client opens
  MaxCrashes,   \* bound on the broker's crashes
  MaxNotices,   \* bound on the queue notices of a request
  WireCap,      \* how many pieces the kernel buffers in each direction
  Faults        \* "client_write", "server_write", "framer", "close"

ASSUME ConstantsAssumption ==
  /\ LongOpening \subseteq Req /\ LongClosing \subseteq Req
  /\ MaxConn \in Nat \ {0} /\ MaxCrashes \in Nat /\ MaxNotices \in Nat
  /\ WireCap \in Nat \ {0}
  /\ Faults \subseteq {"client_write", "server_write", "framer", "close"}

VARIABLES
  st,           \* client: what each request's caller is waiting for
  timer,        \* client: the deadline that is armed for each request
  open,         \* client: it has a socket and is not closed
  connecting,   \* client: a connect is under way
  outgoing,     \* client: pieces not yet written
  rx,           \* client: pieces received of an incomplete line
  up, down,     \* the socket's two directions
  framer,       \* server: pieces of an incomplete line, and discarding
  srv,          \* server: what each request's operation is doing
  notices,      \* server: how many queue notices each request was sent
  writes,       \* server: pieces in the socket's write queue
  peer,         \* server: the socket is "open", "dead" or "ended"
  alive,        \* the broker is running
  conns, crashes

client == <<st, timer, open, connecting, outgoing, rx>>
server == <<framer, srv, notices, writes, peer>>
bounds == <<alive, conns, crashes>>
transportVars == <<client, up, down, server, bounds>>

Kinds == {"request", "progress", "final"}

Frame(r, k) == << [id |-> r, kind |-> k, last |-> FALSE],
                  [id |-> r, kind |-> k, last |-> TRUE] >>

(* frameIdAtStart: only the start of a frame names its request.             *)
StartsFrame(buf, r) == buf # <<>> /\ ~buf[1].last /\ buf[1].id = r

EmptyFramer == [buf |-> <<>>, discarding |-> FALSE]

(* Nobody is left to answer the operations that are running.                *)
Abandoned == [r \in Req |-> IF srv[r] = "running" THEN "done" ELSE srv[r]]

Settled == {"ok", "malformed", "timeout", "unavailable"}

TransportInit ==
  /\ st = [r \in Req |-> "new"]
  /\ timer = [r \in Req |-> "none"]
  /\ open = TRUE /\ connecting = FALSE
  /\ outgoing = <<>> /\ rx = <<>>
  /\ up = <<>> /\ down = <<>>
  /\ framer = EmptyFramer
  /\ srv = [r \in Req |-> "none"]
  /\ notices = [r \in Req |-> 0]
  /\ writes = <<>>
  /\ peer = "open"
  /\ alive = TRUE /\ conns = 1 /\ crashes = 0

-----------------------------------------------------------------------------
(* The client                                                              *)

(* failPending: every request on the wire is rejected, its timer cleared.   *)
FailPending ==
  /\ st' = [r \in Req |-> IF st[r] = "pending" THEN "unavailable" ELSE st[r]]
  /\ timer' = [r \in Req |-> "none"]

(* Mutant: the pending requests are left to their timers.                   *)
DisconnectKeepsPending ==
  /\ open' = FALSE
  /\ outgoing' = <<>> /\ rx' = <<>>
  /\ UNCHANGED <<st, timer>>

(* The close and error handlers, and a failed write.                        *)
Disconnect ==
  /\ open' = FALSE
  /\ outgoing' = <<>> /\ rx' = <<>>
  /\ FailPending

(* flushWrites: the socket takes a prefix of out; onSent arms the deadline  *)
(* of each request whose last piece was taken.                              *)
FlushWrites(out) ==
  \E n \in 0..Len(out) :
    /\ Len(up) + n <= WireCap
    /\ up' = up \o SubSeq(out, 1, n)
    /\ outgoing' = SubSeq(out, n + 1, Len(out))
    /\ timer' = [r \in Req |->
         IF timer[r] = "none" /\ \E i \in 1..n : out[i].id = r /\ out[i].last
         THEN "op" ELSE timer[r]]

Send(r) ==
  /\ st' = [st EXCEPT ![r] = "pending"]
  /\ FlushWrites(outgoing \o Frame(r, "request"))

(* request(), up to its first await: a closed client connects first.        *)
Request(r) ==
  /\ st[r] = "new"
  /\ IF open
     THEN Send(r) /\ UNCHANGED connecting
     ELSE /\ connecting \/ conns < MaxConn
          /\ st' = [st EXCEPT ![r] = "waiting"]
          /\ connecting' = TRUE
          /\ UNCHANGED <<timer, outgoing, up>>
  /\ UNCHANGED <<open, rx, down, server, bounds>>

(* connect() resolves: open() resets both accumulators, the server has a    *)
(* new socket, and the requests that waited go on.  Operations of the old   *)
(* socket still end, but respond to a socket that is gone.                  *)
ConnectOk ==
  /\ connecting /\ alive /\ conns < MaxConn
  /\ connecting' = FALSE
  /\ open' = TRUE
  /\ outgoing' = <<>> /\ rx' = <<>>
  /\ up' = <<>> /\ down' = <<>>
  /\ framer' = EmptyFramer /\ writes' = <<>> /\ peer' = "open"
  /\ st' = [r \in Req |-> IF st[r] = "waiting" THEN "ready" ELSE st[r]]
  /\ srv' = Abandoned
  /\ conns' = conns + 1
  /\ UNCHANGED <<timer, notices, alive, crashes>>

ConnectFails ==
  /\ connecting /\ ~alive
  /\ connecting' = FALSE
  /\ st' = [r \in Req |-> IF st[r] = "waiting" THEN "unavailable" ELSE st[r]]
  /\ UNCHANGED <<timer, open, outgoing, rx, up, down, server, bounds>>

(* request() after the await: the socket may be gone again.                 *)
Continue(r) ==
  /\ st[r] = "ready"
  /\ IF open
     THEN Send(r)
     ELSE st' = [st EXCEPT ![r] = "unavailable"] /\ UNCHANGED <<timer, outgoing, up>>
  /\ UNCHANGED <<open, connecting, rx, down, server, bounds>>

ClientDrain ==
  /\ open
  /\ outgoing # <<>> /\ Len(up) < WireCap
  /\ FlushWrites(outgoing)
  /\ outgoing' # outgoing
  /\ UNCHANGED <<st, open, connecting, rx, down, server, bounds>>

(* sock.write throws, or the caller closes the client: the socket is closed *)
(* from this end and what is in flight is lost.                             *)
ClientCloses ==
  /\ \/ "client_write" \in Faults /\ outgoing # <<>>
     \/ "close" \in Faults
  /\ open
  /\ Disconnect
  /\ up' = <<>> /\ down' = <<>>
  /\ peer' = "ended" /\ writes' = <<>>
  /\ UNCHANGED <<connecting, framer, srv, notices, bounds>>

(* The last bytes have been read and the close event is delivered.          *)
PeerCloses ==
  /\ open /\ peer = "ended" /\ down = <<>>
  /\ Disconnect
  /\ up' = <<>>
  /\ UNCHANGED <<connecting, down, server, bounds>>

(* A complete line: a queue notice replaces the deadline, a final response  *)
(* settles its request, anything else is matched by its start or dropped.   *)
TakeLine(line) ==
  LET r == line[1].id
      settles(outcome) ==
        /\ st' = [st EXCEPT ![r] = outcome]
        /\ timer' = [timer EXCEPT ![r] = "none"]
  IN CASE st[r] # "pending" -> UNCHANGED <<st, timer>>
       [] st[r] = "pending" /\ line = Frame(r, "progress") ->
            timer' = [timer EXCEPT ![r] = "hold"] /\ UNCHANGED st
       [] st[r] = "pending" /\ line = Frame(r, "final") -> settles("ok")
       [] OTHER -> IF StartsFrame(line, r) THEN settles("malformed")
                                           ELSE UNCHANGED <<st, timer>>

ClientData ==
  /\ open /\ down # <<>>
  /\ down' = Tail(down)
  /\ LET line == Append(rx, Head(down))
     IN IF Head(down).last
        THEN rx' = <<>> /\ TakeLine(line)
        ELSE rx' = line /\ UNCHANGED <<st, timer>>
  /\ UNCHANGED <<open, connecting, outgoing, up, server, bounds>>

(* Mutant: whatever was received is dropped with the request.               *)
OnTimeoutDropsAll(r) ==
  /\ st[r] = "pending" /\ timer[r] # "none"
  /\ st' = [st EXCEPT ![r] = "timeout"]
  /\ timer' = [timer EXCEPT ![r] = "none"]
  /\ rx' = <<>>
  /\ UNCHANGED <<open, connecting, outgoing, up, down, server, bounds>>

(* onTimeout: a partial reply is dropped only if it is this request's.      *)
OnTimeout(r) ==
  /\ st[r] = "pending" /\ timer[r] # "none"
  /\ st' = [st EXCEPT ![r] = "timeout"]
  /\ timer' = [timer EXCEPT ![r] = "none"]
  /\ rx' = IF StartsFrame(rx, r) THEN <<>> ELSE rx
  /\ UNCHANGED <<open, connecting, outgoing, up, down, server, bounds>>

-----------------------------------------------------------------------------
(* The server                                                              *)

(* SocketWriteQueue.enqueue: append and flush, in order.                    *)
Enqueue(frame) ==
  LET all == writes \o frame
  IN \E n \in 0..Len(all) :
       /\ Len(down) + n <= WireCap
       /\ down' = down \o SubSeq(all, 1, n)
       /\ writes' = SubSeq(all, n + 1, Len(all))

(* respond: nothing is written to a socket that is dead or gone.            *)
Respond(frame) ==
  IF peer = "open" THEN Enqueue(frame) ELSE UNCHANGED <<down, writes>>

(* The line buf is over maxRequestLineBytes.                                *)
TooLong(buf) ==
  \E i \in 1..Len(buf) :
    buf[i].id \in (IF buf[i].last THEN LongClosing \cup LongOpening ELSE LongOpening)

(* RequestLineFramer.push and the events onData makes of it: a line is      *)
(* dispatched, one that is too long is refused alone by its recovered id.   *)
FramerPush(p) ==
  LET line == Append(framer.buf, p)
  IN \/ /\ ~p.last
        /\ framer' = IF framer.discarding THEN framer
                     ELSE [buf |-> line, discarding |-> TooLong(line)]
        /\ UNCHANGED <<srv, down, writes>>
     \/ /\ p.last
        /\ framer' = EmptyFramer
        /\ IF framer.discarding \/ TooLong(line)
           THEN Respond(Frame(line[1].id, "final")) /\ UNCHANGED srv
           ELSE /\ srv' = [srv EXCEPT ![line[1].id] = "running"]
                /\ UNCHANGED <<down, writes>>

ServerData ==
  /\ up # <<>> /\ peer = "open"
  /\ FramerPush(Head(up))
  /\ up' = Tail(up)
  /\ UNCHANGED <<client, notices, peer, bounds>>

(* onData of a dead socket returns at once.                                 *)
DeadData ==
  /\ up # <<>> /\ peer = "dead"
  /\ up' = Tail(up)
  /\ UNCHANGED <<client, down, server, bounds>>

(* push throws: no more requests are read and no more responses written;    *)
(* the socket ends at once, or when the bytes already owed have drained.    *)
FramerFails ==
  /\ "framer" \in Faults
  /\ up # <<>> /\ peer = "open"
  /\ up' = Tail(up)
  /\ peer' = IF writes = <<>> THEN "ended" ELSE "dead"
  /\ UNCHANGED <<client, down, framer, srv, notices, writes, bounds>>

(* The operation is parked by the admission queue.                          *)
SendProgress(r) ==
  /\ srv[r] = "running" /\ notices[r] < MaxNotices
  /\ notices' = [notices EXCEPT ![r] = @ + 1]
  /\ Respond(Frame(r, "progress"))
  /\ UNCHANGED <<client, up, framer, srv, peer, bounds>>

(* writeFinal: the operation has returned or thrown.                        *)
WriteFinal(r) ==
  /\ srv[r] = "running"
  /\ srv' = [srv EXCEPT ![r] = "done"]
  /\ Respond(Frame(r, "final"))
  /\ UNCHANGED <<client, up, framer, notices, peer, bounds>>

(* drainSocketWrites: also on a dead socket, which ends once all is out.    *)
ServerDrain ==
  /\ writes # <<>> /\ peer \in {"open", "dead"}
  /\ \E n \in 1..Len(writes) :
       /\ Len(down) + n <= WireCap
       /\ down' = down \o SubSeq(writes, 1, n)
       /\ writes' = SubSeq(writes, n + 1, Len(writes))
  /\ peer' = IF peer = "dead" /\ writes' = <<>> THEN "ended" ELSE peer
  /\ UNCHANGED <<client, up, framer, srv, notices, bounds>>

(* A write fails, or the drain deadline of a dead socket passes: what was   *)
(* owed is dropped and the socket closed.                                   *)
ServerCloses ==
  /\ \/ "server_write" \in Faults /\ writes # <<>> /\ peer = "open"
     \/ peer = "dead"
  /\ writes' = <<>>
  /\ peer' = "ended"
  /\ UNCHANGED <<client, up, down, framer, srv, notices, bounds>>

(* The broker dies with its operations; the kernel closes its sockets.      *)
Crash ==
  /\ alive /\ crashes < MaxCrashes
  /\ alive' = FALSE /\ crashes' = crashes + 1
  /\ writes' = <<>> /\ peer' = "ended"
  /\ srv' = Abandoned
  /\ UNCHANGED <<client, up, down, framer, notices, conns>>

Restart ==
  /\ ~alive
  /\ alive' = TRUE
  /\ UNCHANGED <<client, up, down, server, conns, crashes>>

ClientStep ==
  \/ \E r \in Req : Request(r) \/ Continue(r) \/ OnTimeout(r)
  \/ ConnectOk \/ ConnectFails \/ ClientDrain \/ ClientCloses \/ PeerCloses
  \/ ClientData

ServerStep ==
  \/ \E r \in Req : SendProgress(r) \/ WriteFinal(r)
  \/ ServerData \/ DeadData \/ FramerFails \/ ServerDrain \/ ServerCloses
  \/ Crash \/ Restart

TransportNext == ClientStep \/ ServerStep

(* The event loops run what is ready, timers fire, both kernels deliver,    *)
(* and connect() succeeds or fails.                                         *)
Fairness ==
  /\ \A r \in Req : WF_transportVars(Continue(r)) /\ WF_transportVars(OnTimeout(r))
  /\ WF_transportVars(ConnectOk \/ ConnectFails)
  /\ WF_transportVars(ClientDrain) /\ WF_transportVars(PeerCloses) /\ WF_transportVars(ClientData)
  /\ WF_transportVars(ServerData \/ DeadData) /\ WF_transportVars(ServerDrain)

TransportSpec == TransportInit /\ [][TransportNext]_transportVars /\ Fairness

-----------------------------------------------------------------------------
(* Properties                                                              *)

Carries(s, t) ==
  \E i \in 0..(Len(s) - Len(t)) : SubSeq(s, i + 1, i + Len(t)) = t

(* A request that is still awaited on a healthy connection is on its way to *)
(* the broker, is being worked on, or has its whole final response on its   *)
(* way back: no timeout, oversize line or partial write of another request  *)
(* swallows it or tears it apart.                                           *)
ReplyNotLost ==
  \A r \in Req :
    /\ st[r] # "malformed"
    /\ st[r] = "pending" /\ peer = "open" =>
         \/ Carries(framer.buf \o up \o outgoing, Frame(r, "request"))
         \/ srv[r] = "running"
         \/ Carries(rx \o down \o writes, Frame(r, "final"))

(* Every request that was issued settles, whatever fails at either end.     *)
EveryRequestSettles ==
  \A r \in Req : st[r] # "new" ~> st[r] \in Settled

=============================================================================

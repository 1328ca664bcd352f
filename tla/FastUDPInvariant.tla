--------------------------- MODULE FastUDPInvariant ---------------------------
(***************************************************************************)
(* The inductive invariant of FastUDP, on top of that of Handshake: which  *)
(* numbers, answers and runs belong together while sessions come and go,   *)
(* and why a replay window refuses what it refuses. TLC checks it as one   *)
(* of the properties of the composed run, FastUDPProofs and FastUDPWindows *)
(* show that it is inductive.                                              *)
(***************************************************************************)
EXTENDS FastUDP

Tables ==
  /\ sessions \subseteq SessionIds /\ expired \subseteq sessions
  /\ recv_windows \in [SessionIds -> [Streams -> Windows]]
  /\ lives \in [SessionIds -> Nat]
  /\ streams \in [Streams -> R!StreamStates]
  /\ \A s \in Streams : streams[s].next_request_id = streams[s].next_seq + 1
  /\ phase = [c \in Calls |-> phase[c]] /\ packet = [c \in Calls |-> packet[c]]
  /\ executions \in [Calls -> Nat]

\* The packet of call c was sent, or was about to be.
Numbered(c) == c \in Calls /\ phase[c] # "idle"

\* A waiting call has a REQUEST of its own, and every REQUEST is some call's.
RequestsGenuine ==
  /\ \A c \in Calls : phase[c] = "waiting" => packet[c] \in net /\ packet[c].type = "REQUEST"
  /\ \A m \in net : m.type = "REQUEST" =>
       /\ Numbered(m.call) /\ packet[m.call] = m
       /\ m.stream \in Streams /\ m.seq \in Nat /\ m.rid = m.seq + 1

AnswersItsCall(r) ==
  Numbered(r.body.call) /\ R!SameRequest(packet[r.body.call], r)

\* What answers a request, or stands for it, has its stream and request id.
AnswersGenuine ==
  /\ \A r \in net \cup response_cache : r.type = "RESPONSE" => AnswersItsCall(r)
  /\ \A r \in response_cache : r.type = "RESPONSE"
  /\ tasks \subseteq [req : net, attached : BOOLEAN]
  /\ \A t \in tasks : t.req.type = "REQUEST"
  /\ \A p \in pending_requests : Numbered(p.call) /\ R!SameRequest(packet[p.call], p)

\* What a call was given answers a request of its stream and request id.
FuturesGenuine ==
  \A c \in Calls :
    \/ future[c] \in {NoReply, Undecryptable}
    \/ /\ Numbered(c) /\ Numbered(future[c].call)
       /\ R!SameRequest(packet[c], packet[future[c].call])

\* Runs of this life of a session are marked in its windows.
RunsMarked ==
  \A x \in runs :
    /\ x.sid \in SessionIds /\ x.stream \in Streams
    /\ x.rid - 1 \in Nat /\ x.life \in Nat /\ x.life <= lives[x.sid]
    /\ (x.sid \in sessions /\ x.life = lives[x.sid]) =>
         Seen(recv_windows[x.sid][x.stream], x.rid - 1)

ClosesGenuine == \A m \in net : m.type = "CLOSE" => m = CloseMessage(m.sid)

Inv ==
  /\ Tables /\ RequestsGenuine /\ AnswersGenuine /\ FuturesGenuine /\ RunsMarked
  /\ ClosesGenuine

LayerMessages == R!RequestMessages \cup R!ResponseMessages \cup R!FrameAckMessages

\* The types of what Handshake does not see.
Typed ==
  /\ R!LayerTypes
  /\ \A m \in net : m.type \notin HandshakeTypes => m \in LayerMessages

\* A registered call has built its packet; and also a packet that never left, behind
\* a closed transport, has its numbers.
PacketsNumbered ==
  /\ \A c \in Calls : Sent(c) => packet[c].rid = packet[c].seq + 1
  /\ \A p \in pending_requests : Sent(p.call)

Overtaken(w, q) == w.highest - q >= REPLAY_WINDOW

\* The server took the request: there is a handler or an answer for it, unless
\* it had no path, one that split_path raises on, or a body it could not open.
Met(m) ==
  \/ executions[m.call] > 0 \/ answer[m.call] # "none"
  \/ m.path \in {"empty", "malformed"} \/ m.key # session_key[m.sid]

\* What a server's window refuses was overtaken, or is the number of a request
\* that the server has met. The windows of a session that is gone are new.
ServerWindowsExplained ==
  \A sid \in SessionIds :
    /\ sid \notin sessions => recv_windows[sid] = R!NewStreamWindows
    /\ \A s \in Streams :
         LET w == recv_windows[sid][s] IN
         \A q \in 0 .. w.highest : Seen(w, q) =>
           \/ Overtaken(w, q)
           \/ \E m \in net : /\ m.type = "REQUEST" /\ Met(m)
                             /\ m.sid = sid /\ m.stream = s /\ m.seq = q

\* What a client's window refuses was overtaken, or is the number of a response
\* whose call has left the pending table.
ClientWindowsExplained ==
  \A s \in Streams :
    LET w == client_windows[s] IN
    \A q \in 0 .. w.highest : Seen(w, q) =>
      \/ Overtaken(w, q)
      \/ \E r \in net : /\ r.type = "RESPONSE" /\ r.stream = s /\ r.seq = q
                        /\ \A p \in pending_requests : p.call # r.body.call

WindowInv ==
  /\ Typed /\ PacketsNumbered /\ ServerWindowsExplained /\ ClientWindowsExplained

\* All of it, for the composed run.
Bookkeeping == Inv /\ WindowInv
=============================================================================

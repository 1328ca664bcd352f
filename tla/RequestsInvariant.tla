-------------------------- MODULE RequestsInvariant --------------------------
(***************************************************************************)
(* The inductive invariant of Requests: what has to be remembered of the   *)
(* numbers, the datagrams and the windows for at-most-once execution to be *)
(* preserved by every step. TLC checks it as one of the properties of the  *)
(* safety run, RequestsProofs shows that it is inductive.                  *)
(***************************************************************************)
EXTENDS Requests

Sent(c) == packet[c] # NoPacket

\* The server knows the client's session, and only that, under its key.
OneSession ==
  /\ sessions \subseteq {session.id}
  /\ session_key[session.id] = session.key

\* Numbers are handed out in step: request id n carries sequence number n - 1,
\* no two calls share one, and the packets of a stream lie below its counter.
Numbering ==
  /\ \A s \in Streams : streams[s].next_request_id = streams[s].next_seq + 1
  /\ \A c \in Calls : Sent(c) =>
       /\ packet[c].call = c
       /\ packet[c].sid = session.id /\ packet[c].key = session.key
       /\ packet[c].rid = packet[c].seq + 1
       /\ packet[c].seq < streams[packet[c].stream].next_seq
  /\ \A c, d \in Calls :
       Sent(c) /\ Sent(d) /\ SameRequest(packet[c], packet[d]) => c = d

\* get_stream opens max_streams streams and no more.
StreamsBounded ==
  IsFiniteSet(OpenStreams) /\ Cardinality(OpenStreams) <= MaxStreams

\* A call has a packet once it waits or is answered, and none while idle.
CallProgress ==
  \A c \in Calls :
    /\ phase[c] = "waiting" \/ future[c] # NoReply => Sent(c)
    /\ phase[c] = "idle" => ~ Sent(c)

\* Every REQUEST in the network is the packet of its call.
RequestsGenuine ==
  \A m \in net : m.type = "REQUEST" => packet[m.call] = m

\* Every RESPONSE in the network answers the packet of its call, as the server
\* answered it; cached responses are among them.
ResponsesGenuine ==
  /\ \A r \in net : r.type = "RESPONSE" =>
       LET c == r.body.call IN
       /\ Sent(c) /\ Slot(r) = Slot(packet[c]) /\ r.seq = packet[c].seq
       /\ r.key = session.key
       /\ r.body.status = answer[c]
  /\ response_cache \subseteq net

\* A running handler is the only execution of its call, not yet answered.
TasksGenuine ==
  /\ \A t \in tasks :
       /\ t.req \in net
       /\ executions[t.req.call] = 1 /\ answer[t.req.call] = "none"
  /\ \A t, u \in tasks : t.req.call = u.req.call => t = u

\* Executions and answers agree: none twice, a 404 without any, ok or error
\* after one.
AnswersEarned ==
  \A c \in Calls :
    /\ executions[c] <= 1
    /\ answer[c] = "notfound" => executions[c] = 0
    /\ answer[c] \in {"ok", "error"} => executions[c] = 1

\* While the session lives, its window refuses every request that was executed
\* or answered, whether or not the cache still has the response.
HandledIsSeen ==
  \A c \in Calls :
    (executions[c] > 0 \/ answer[c] # "none") =>
      /\ Sent(c)
      /\ session.id \in sessions =>
           Seen(recv_windows[session.id][packet[c].stream], packet[c].seq)

\* A registered future is registered under the numbers of its call's packet.
PendingGenuine ==
  \A p \in pending_requests :
    Sent(p.call) /\ SameRequest(p, packet[p.call])

\* The window of a stream has not gone beyond the numbers handed out.
WindowBelow ==
  session.id \in sessions =>
    \A s \in Streams : recv_windows[session.id][s].highest < streams[s].next_seq

Inv ==
  /\ TypeOK
  /\ OneSession
  /\ Numbering
  /\ CallProgress
  /\ RequestsGenuine
  /\ ResponsesGenuine
  /\ TasksGenuine
  /\ AnswersEarned
  /\ HandledIsSeen
  /\ PendingGenuine
  /\ NoStalePending
  /\ AnswerMatchesCall

\* The part that is not a property of its own, for the safety run.
Bookkeeping ==
  /\ OneSession /\ Numbering /\ StreamsBounded /\ CallProgress
  /\ RequestsGenuine /\ ResponsesGenuine /\ TasksGenuine /\ AnswersEarned
  /\ HandledIsSeen /\ PendingGenuine /\ WindowBelow
=============================================================================

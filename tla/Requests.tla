------------------------------- MODULE Requests -------------------------------
(***************************************************************************)
(* The request layer: FastUDPClient.request and its callbacks on one side, *)
(* FastUDPServer._handle_request, the handler tasks, the response cache    *)
(* and the cleanup loop on the other, over the network of Transport.       *)
(*                                                                         *)
(* Both programs are single asyncio loops: what runs between two awaits is *)
(* one action. A call of request() suspends in wait_for alone (the stream  *)
(* lock is never held across an await), so it is StartRequest, any number  *)
(* of Retry, then one of the actions that end it. A handler is a task: it  *)
(* ends, at any later time, in FinishRequest or FinishUnsendable.          *)
(*                                                                         *)
(* A path is one of five classes: "found" and "missing" by the router's    *)
(* verdict, "malformed" (urlsplit raises on it: the server drops it after  *)
(* the FRAME_ACK), "empty" (the server drops it before) and "toolong" (the *)
(* client does).                                                           *)
(***************************************************************************)
EXTENDS Transport, FiniteSets, ReplayWindow

CONSTANTS
  Calls,             \* invocations of request()
  Streams,           \* stream identifiers
  Paths,             \* the path classes calls may use
  MaxStreams,        \* max_streams of the client
  Retries,           \* the retries each call was given
  NoPacket,          \* no datagram built yet
  NoReply,           \* a future that is not done
  Undecryptable      \* a future that holds a SecurityError

ASSUME RequestsAssumption ==
  /\ Paths \subseteq {"found", "missing", "malformed", "empty", "toolong"}
  /\ MaxStreams \in Nat
  /\ Retries \in [Calls -> Nat]
  /\ NoPacket \notin [type : {"REQUEST"}, sid : SessionIds, key : Keys,
                      stream : Streams, seq : Nat, rid : Nat,
                      call : Calls, path : Paths]
  /\ NoReply \notin [call : Calls, status : {"ok", "error", "notfound"}]
  /\ Undecryptable \notin [call : Calls, status : {"ok", "error", "notfound"}]
  /\ NoReply # Undecryptable

VARIABLES
  \* client
  streams,           \* the StreamState of each stream of the session
  phase,             \* where each call of request() is, or how it ended
  packet,            \* the datagram a call built, sent again on each retry
  attempt,           \* retries made so far
  future,            \* the future a call waits for
  pending_requests,  \* the futures registered under (stream, request id)
  acked,             \* the acknowledgement event of a call
  client_windows,    \* recv_windows of the client
  \* server
  recv_windows,      \* recv_windows of each session
  response_cache,    \* RESPONSE packets kept for retries
  inflight_requests, \* requests whose handler was started
  tasks,             \* handler tasks that have not finished
  \* history
  executions,        \* handler tasks started for a call
  answer,            \* the status of the response made for a call, or "none"
  acks_read          \* FRAME_ACK datagrams the client has read

clientVars == <<streams, phase, packet, attempt, future, pending_requests,
                acked, client_windows, acks_read>>
serverVars == <<recv_windows, response_cache, inflight_requests, tasks,
                executions, answer>>
vars == <<transportVars, clientVars, serverVars>>

-----------------------------------------------------------------------------
(***************************************************************************)
(* Data.                                                                   *)
(***************************************************************************)

Statuses == {"ok", "error", "notfound"}

Failures == {"timeout", "closed", "security", "refused", "toolarge", "cancelled"}

Responses == [call : Calls, status : Statuses]

RequestMessages ==
  [type : {"REQUEST"}, sid : SessionIds, key : Keys, stream : Streams,
   seq : Nat, rid : Nat, call : Calls, path : Paths]

ResponseMessages ==
  [type : {"RESPONSE"}, sid : SessionIds, key : Keys, stream : Streams,
   seq : Nat, rid : Nat, body : Responses]

FrameAckMessages ==
  [type : {"FRAME_ACK"}, sid : SessionIds, stream : Streams, seq : Nat, rid : Nat]

StreamStates == [open : BOOLEAN, next_request_id : Nat, next_seq : Nat]

NewStream == [open |-> FALSE, next_request_id |-> 1, next_seq |-> 0]

NewStreamWindows == [s \in Streams |-> NewWindow]

Slots == [sid : SessionIds, stream : Streams, rid : Nat]

\* The keys of the dictionaries: (stream, request id), per session.
Slot(m) == [sid |-> m.sid, stream |-> m.stream, rid |-> m.rid]

SameRequest(m, n) == m.stream = n.stream /\ m.rid = n.rid

\* pending_requests without the entry of key (m.stream, m.rid).
Unregister(m) == {p \in pending_requests : ~ SameRequest(p, m)}

Entry(m) == [stream |-> m.stream, rid |-> m.rid, call |-> m.call]

\* The types of what belongs to this layer alone.
LayerTypes ==
  /\ streams \in [Streams -> StreamStates]
  /\ phase \in [Calls -> {"idle", "waiting", "answered"} \cup Failures]
  /\ packet \in [Calls -> RequestMessages \cup {NoPacket}]
  /\ attempt \in [Calls -> Nat] /\ \A c \in Calls : attempt[c] <= Retries[c]
  /\ future \in [Calls -> Responses \cup {NoReply, Undecryptable}]
  /\ pending_requests \subseteq [stream : Streams, rid : Nat, call : Calls]
  /\ acked \in [Calls -> {"absent", "clear", "set"}]
  /\ client_windows \in [Streams -> Windows]
  /\ recv_windows \in [SessionIds -> [Streams -> Windows]]
  /\ response_cache \subseteq ResponseMessages
  /\ inflight_requests \subseteq Slots
  /\ tasks \subseteq [req : RequestMessages, attached : BOOLEAN]
  /\ executions \in [Calls -> Nat]
  /\ answer \in [Calls -> Statuses \cup {"none"}]
  /\ acks_read \subseteq FrameAckMessages

TypeOK ==
  /\ net \subseteq CloseMessages \cup RequestMessages \cup ResponseMessages
                     \cup FrameAckMessages
  /\ transport \in BOOLEAN
  /\ session \in Established
  /\ sessions \subseteq SessionIds
  /\ session_key \in [SessionIds -> Keys]
  /\ expired \subseteq sessions
  /\ LayerTypes

\* Nothing was requested yet.
LayerInit ==
  /\ streams = [s \in Streams |-> NewStream]
  /\ phase = [c \in Calls |-> "idle"]
  /\ packet = [c \in Calls |-> NoPacket]
  /\ attempt = [c \in Calls |-> 0]
  /\ future = [c \in Calls |-> NoReply]
  /\ pending_requests = {}
  /\ acked = [c \in Calls |-> "absent"]
  /\ client_windows = NewStreamWindows
  /\ recv_windows = [s \in SessionIds |-> NewStreamWindows]
  /\ response_cache = {}
  /\ inflight_requests = {}
  /\ tasks = {}
  /\ executions = [c \in Calls |-> 0]
  /\ answer = [c \in Calls |-> "none"]
  /\ acks_read = {}

Init == EstablishedInit /\ LayerInit

-----------------------------------------------------------------------------
(***************************************************************************)
(* The client.                                                             *)
(***************************************************************************)

OpenStreams == {s \in Streams : streams[s].open}

\* get_stream: an open stream, or a new one while the limit allows it.
CanUse(s) == s \in OpenStreams \/ Cardinality(OpenStreams) < MaxStreams

\* Mutant: the sequence number is read and not advanced.
TakeNumbersOnce(s) ==
  streams' = [streams EXCEPT ![s].open = TRUE, ![s].next_request_id = @ + 1]

\* get_stream, then a request id and a sequence number under stream.lock.
TakeNumbers(s) ==
  streams' = [streams EXCEPT ![s].open = TRUE,
                             ![s].next_request_id = @ + 1,
                             ![s].next_seq = @ + 1]

RequestPacket(c, s, p) ==
  [type |-> "REQUEST", sid |-> session.id, key |-> session.key, stream |-> s,
   seq |-> streams[s].next_seq, rid |-> streams[s].next_request_id,
   call |-> c, path |-> p]

\* request() up to its first wait_for: numbers, packet, future, event, _send.
\* Behind a closed transport _send raises, and what was registered stays.
StartRequest(c, s, p) ==
  LET pkt == RequestPacket(c, s, p) IN
  /\ phase[c] = "idle" /\ session # NoSession
  /\ CanUse(s) /\ p # "toolong"
  /\ TakeNumbers(s)
  /\ packet' = [packet EXCEPT ![c] = pkt]
  /\ pending_requests' = Unregister(pkt) \cup {Entry(pkt)}
  /\ acked' = [acked EXCEPT ![c] = "clear"]
  /\ IF transport
     THEN phase' = [phase EXCEPT ![c] = "waiting"] /\ Send({pkt})
     ELSE phase' = [phase EXCEPT ![c] = "closed"] /\ UNCHANGED net
  /\ UNCHANGED <<transport, session, sessions, session_key, expired, attempt,
                 future, client_windows, acks_read, serverVars>>

\* request() with a path over MAX_PATH_BYTES: the numbers are spent.
StartTooLarge(c, s) ==
  /\ phase[c] = "idle" /\ session # NoSession
  /\ CanUse(s) /\ "toolong" \in Paths
  /\ TakeNumbers(s)
  /\ phase' = [phase EXCEPT ![c] = "toolarge"]
  /\ UNCHANGED <<transportVars, packet, attempt, future, pending_requests,
                 acked, client_windows, acks_read, serverVars>>

\* request() on a stream beyond the limit.
StartRefused(c, s) ==
  /\ phase[c] = "idle" /\ session # NoSession
  /\ ~ CanUse(s)
  /\ phase' = [phase EXCEPT ![c] = "refused"]
  /\ UNCHANGED <<transportVars, streams, packet, attempt, future,
                 pending_requests, acked, client_windows, acks_read, serverVars>>

\* How a call whose future is done ends.
Outcome(c) == IF future[c] = Undecryptable THEN "security" ELSE "answered"

\* wait_for returns: the future is done.
Return(c) ==
  /\ phase[c] = "waiting" /\ future[c] # NoReply
  /\ phase' = [phase EXCEPT ![c] = Outcome(c)]
  /\ UNCHANGED <<transportVars, streams, packet, attempt, future,
                 pending_requests, acked, client_windows, acks_read, serverVars>>

\* Mutant: the loop makes one attempt too many.
RetryOnceMore(c) ==
  /\ phase[c] = "waiting" /\ attempt[c] <= Retries[c] /\ transport
  /\ Send({packet[c]})
  /\ attempt' = [attempt EXCEPT ![c] = @ + 1]
  /\ UNCHANGED <<transport, session, sessions, session_key, expired, streams,
                 phase, packet, future, pending_requests, acked,
                 client_windows, acks_read, serverVars>>

\* Mutant: a retry does not count.
RetryForever(c) ==
  /\ phase[c] = "waiting" /\ attempt[c] < Retries[c] /\ transport
  /\ Send({packet[c]})
  /\ phase' = IF future[c] = NoReply THEN phase
              ELSE [phase EXCEPT ![c] = Outcome(c)]
  /\ UNCHANGED <<transport, session, sessions, session_key, expired, streams,
                 packet, attempt, future, pending_requests, acked,
                 client_windows, acks_read, serverVars>>

\* Mutant: a retry is sent as a new request, under new numbers.
RetryRenumbered(c) ==
  LET pkt == [packet[c] EXCEPT !.seq = streams[packet[c].stream].next_seq] IN
  /\ phase[c] = "waiting" /\ attempt[c] < Retries[c] /\ transport
  /\ Send({pkt})
  /\ TakeNumbers(pkt.stream)
  /\ attempt' = [attempt EXCEPT ![c] = @ + 1]
  /\ packet' = [packet EXCEPT ![c] = pkt]
  /\ UNCHANGED <<transport, session, sessions, session_key, expired, phase,
                 future, pending_requests, acked, client_windows,
                 acks_read, serverVars>>

\* A timeout before the last attempt: the loop sends the packet again. If the
\* future was done when the timer fired, the next wait_for returns at once.
Retry(c) ==
  /\ phase[c] = "waiting" /\ attempt[c] < Retries[c] /\ transport
  /\ Send({packet[c]})
  /\ attempt' = [attempt EXCEPT ![c] = @ + 1]
  /\ phase' = IF future[c] = NoReply THEN phase
              ELSE [phase EXCEPT ![c] = Outcome(c)]
  /\ UNCHANGED <<transport, session, sessions, session_key, expired, streams,
                 packet, future, pending_requests, acked, client_windows,
                 acks_read, serverVars>>

\* The same with the transport closed meanwhile: _send raises ProtocolError.
RetryClosed(c) ==
  /\ phase[c] = "waiting" /\ attempt[c] < Retries[c] /\ ~ transport
  /\ phase' = [phase EXCEPT ![c] = "closed"]
  /\ UNCHANGED <<transportVars, streams, packet, attempt, future,
                 pending_requests, acked, client_windows, acks_read, serverVars>>

\* Mutant: RequestTimeout is raised with the future still registered.
GiveUpRegistered(c) ==
  /\ phase[c] = "waiting" /\ attempt[c] = Retries[c]
  /\ phase' = [phase EXCEPT ![c] = "timeout"]
  /\ acked' = [acked EXCEPT ![c] = "absent"]
  /\ UNCHANGED <<transportVars, streams, packet, attempt, future,
                 pending_requests, client_windows, acks_read, serverVars>>

\* A timeout on the last attempt, even if the future is done by now.
GiveUp(c) ==
  /\ phase[c] = "waiting" /\ attempt[c] = Retries[c]
  /\ phase' = [phase EXCEPT ![c] = "timeout"]
  /\ pending_requests' = Unregister(packet[c])
  /\ acked' = [acked EXCEPT ![c] = "absent"]
  /\ UNCHANGED <<transportVars, streams, packet, attempt, future,
                 client_windows, acks_read, serverVars>>

\* The caller's task is cancelled in wait_for: shield leaves the future, and
\* its registration, alone.
Cancel(c) ==
  /\ phase[c] = "waiting"
  /\ phase' = [phase EXCEPT ![c] = "cancelled"]
  /\ UNCHANGED <<transportVars, streams, packet, attempt, future,
                 pending_requests, acked, client_windows, acks_read, serverVars>>

\* Mutant: a response is given to any call that waits on its stream.
OnResponseAnyCall(m) ==
  /\ m \in net /\ m.type = "RESPONSE" /\ transport
  /\ session # NoSession /\ session.id = m.sid
  /\ Accepts(client_windows[m.stream], m.seq)
  /\ client_windows' = [client_windows EXCEPT ![m.stream] = Mark(@, m.seq)]
  /\ pending_requests' = {p \in pending_requests : p.stream # m.stream}
  /\ future' = [c \in Calls |->
       IF \E p \in pending_requests : p.stream = m.stream /\ p.call = c
       THEN m.body ELSE future[c]]
  /\ UNCHANGED <<transportVars, streams, phase, packet, attempt, acked,
                 acks_read, serverVars>>

\* Mutant: the window takes the number before the session is compared.
OnResponseMarksFirst(m) ==
  LET mine == session # NoSession /\ session.id = m.sid IN
  /\ m \in net /\ m.type = "RESPONSE" /\ transport
  /\ Accepts(client_windows[m.stream], m.seq)
  /\ client_windows' = [client_windows EXCEPT ![m.stream] = Mark(@, m.seq)]
  /\ pending_requests' = IF mine THEN Unregister(m) ELSE pending_requests
  /\ future' = [c \in Calls |->
       IF /\ mine /\ future[c] = NoReply
          /\ \E p \in pending_requests : SameRequest(p, m) /\ p.call = c
       THEN m.body ELSE future[c]]
  /\ UNCHANGED <<transportVars, streams, phase, packet, attempt, acked,
                 acks_read, serverVars>>

\* _on_response: session check, replay window, then the future registered
\* under the response's key is taken out and given the response or, if that
\* does not decrypt, an error. A response without a future moves the window.
OnResponse(m) ==
  /\ m \in net /\ m.type = "RESPONSE" /\ transport
  /\ session # NoSession /\ session.id = m.sid
  /\ Accepts(client_windows[m.stream], m.seq)
  /\ client_windows' = [client_windows EXCEPT ![m.stream] = Mark(@, m.seq)]
  /\ pending_requests' = Unregister(m)
  /\ future' = [c \in Calls |->
       IF /\ future[c] = NoReply
          /\ \E p \in pending_requests : SameRequest(p, m) /\ p.call = c
       THEN IF m.key = session.key THEN m.body ELSE Undecryptable
       ELSE future[c]]
  /\ UNCHANGED <<transportVars, streams, phase, packet, attempt, acked,
                 acks_read, serverVars>>

\* The streams _on_frame_ack can find: FastUDPClient.streams is created empty
\* and never filled, the streams in use are those of the TransportSession.
ClientStreams == {}

\* _on_frame_ack.
OnFrameAck(m) ==
  /\ m \in net /\ m.type = "FRAME_ACK" /\ transport
  /\ acks_read' = acks_read \cup {m}
  /\ acked' = [c \in Calls |->
       IF /\ m.stream \in ClientStreams /\ acked[c] = "clear"
          /\ SameRequest(packet[c], m)
       THEN "set" ELSE acked[c]]
  /\ UNCHANGED <<transportVars, streams, phase, packet, attempt, future,
                 pending_requests, client_windows, serverVars>>

\* close(): a CLOSE to the server, then the transport goes.
Close ==
  /\ transport
  /\ IF session = NoSession THEN UNCHANGED net
     ELSE Send({CloseMessage(session.id)})
  /\ transport' = FALSE
  /\ UNCHANGED <<session, sessions, session_key, expired, clientVars, serverVars>>

-----------------------------------------------------------------------------
(***************************************************************************)
(* The server.                                                             *)
(***************************************************************************)

\* SessionState objects leave the table: what they hold is out of reach, and
\* a handler that is still running keeps an object nobody looks up.
Forget(gone) ==
  /\ sessions' = sessions \ gone
  /\ expired' = expired \ gone
  /\ recv_windows' = [sid \in SessionIds |->
       IF sid \in gone THEN NewStreamWindows ELSE recv_windows[sid]]
  /\ tasks' = {IF t.req.sid \in gone THEN [t EXCEPT !.attached = FALSE] ELSE t :
                 t \in tasks}

OfOthers(records, gone) == {r \in records : r.sid \notin gone}

\* expires_at goes by.
SessionExpires(sid) ==
  /\ sid \in sessions \ expired
  /\ expired' = expired \cup {sid}
  /\ UNCHANGED <<net, transport, session, sessions, session_key, clientVars,
                 serverVars>>

\* datagram_received up to the dispatch on a live session.
Received(m, type) ==
  m \in net /\ m.type = type /\ m.sid \in sessions \ expired

\* A REQUEST or CLOSE finds its session expired: the session is dropped.
DropExpired(m) ==
  /\ m \in net /\ m.type \in {"REQUEST", "CLOSE"} /\ m.sid \in expired
  /\ Forget({m.sid})
  /\ response_cache' = OfOthers(response_cache, {m.sid})
  /\ inflight_requests' = OfOthers(inflight_requests, {m.sid})
  /\ UNCHANGED <<net, transport, session, session_key, clientVars, executions, answer>>

\* A CLOSE on a live session.
HandleClose(m) ==
  /\ Received(m, "CLOSE")
  /\ Forget({m.sid})
  /\ response_cache' = OfOthers(response_cache, {m.sid})
  /\ inflight_requests' = OfOthers(inflight_requests, {m.sid})
  /\ UNCHANGED <<net, transport, session, session_key, clientVars, executions, answer>>

Cached(m) == {r \in response_cache : Slot(r) = Slot(m)}

\* _handle_request, the answer is in the cache: it is sent once more.
ResendCached(m) ==
  /\ Received(m, "REQUEST") /\ Cached(m) # {}
  /\ Send(Cached(m))
  /\ UNCHANGED <<transport, session, sessions, session_key, expired,
                 clientVars, serverVars>>

\* Mutant: the window is not consulted.
AcceptRequestAlways(m) ==
  /\ Received(m, "REQUEST") /\ Cached(m) = {}
  /\ recv_windows' = [recv_windows EXCEPT ![m.sid][m.stream] = Mark(@, m.seq)]

\* Mutant: the window is given the request id in place of the sequence number.
AcceptRequestById(m) ==
  /\ Received(m, "REQUEST") /\ Cached(m) = {}
  /\ Accepts(recv_windows[m.sid][m.stream], m.rid)
  /\ recv_windows' = [recv_windows EXCEPT ![m.sid][m.stream] = Mark(@, m.rid)]

\* _handle_request up to the replay window, which marks what it accepts.
AcceptRequest(m) ==
  /\ Received(m, "REQUEST") /\ Cached(m) = {}
  /\ Accepts(recv_windows[m.sid][m.stream], m.seq)
  /\ recv_windows' = [recv_windows EXCEPT ![m.sid][m.stream] = Mark(@, m.seq)]

Decrypts(m) == m.key = session_key[m.sid]

\* No path, or a body that does not decrypt: dropped, after the window took it.
DiscardAccepted(m) ==
  /\ AcceptRequest(m)
  /\ m.path = "empty" \/ ~ Decrypts(m)
  /\ UNCHANGED <<transportVars, clientVars, response_cache, inflight_requests,
                 tasks, executions, answer>>

FrameAck(m) ==
  [type |-> "FRAME_ACK", sid |-> m.sid, stream |-> m.stream, seq |-> m.seq,
   rid |-> m.rid]

Response(m, status) ==
  [type |-> "RESPONSE", sid |-> m.sid, key |-> session_key[m.sid],
   stream |-> m.stream, seq |-> m.seq, rid |-> m.rid,
   body |-> [call |-> m.call, status |-> status]]

\* split_path raises on the path: FRAME_ACK was sent, the catch-all handler of
\* datagram_received ends the rest. No answer, and nothing for a retry to find.
FailSplitting(m) ==
  /\ AcceptRequest(m)
  /\ m.path = "malformed" /\ Decrypts(m)
  /\ Send({FrameAck(m)})
  /\ UNCHANGED <<transport, session, sessions, session_key, expired, clientVars,
                 response_cache, inflight_requests, tasks, executions, answer>>

\* response_cache[(stream_id, request_id)] = (packet, ...)
Cache(r) == (response_cache \ Cached(r)) \cup {r}

\* No route matches: FRAME_ACK, then 404 through _send_response.
AnswerNotFound(m) ==
  /\ AcceptRequest(m)
  /\ m.path = "missing" /\ Decrypts(m)
  /\ Send({FrameAck(m), Response(m, "notfound")})
  /\ response_cache' = Cache(Response(m, "notfound"))
  /\ inflight_requests' = inflight_requests \ {Slot(m)}
  /\ answer' = [answer EXCEPT ![m.call] = "notfound"]
  /\ UNCHANGED <<transport, session, sessions, session_key, expired, clientVars,
                 tasks, executions>>

\* A route matches: FRAME_ACK, and the handler's task.
SpawnHandler(m) ==
  /\ AcceptRequest(m)
  /\ m.path = "found" /\ Decrypts(m)
  /\ Send({FrameAck(m)})
  /\ tasks' = tasks \cup {[req |-> m, attached |-> TRUE]}
  /\ inflight_requests' = inflight_requests \cup {Slot(m)}
  /\ executions' = [executions EXCEPT ![m.call] = @ + 1]
  /\ UNCHANGED <<transport, session, sessions, session_key, expired, clientVars,
                 response_cache, answer>>

\* _finish_request and _send_response. The cache and inflight_requests are
\* those of the SessionState the task was started with.
FinishRequest(t, status) ==
  /\ t \in tasks
  /\ tasks' = tasks \ {t}
  /\ Send({Response(t.req, status)})
  /\ answer' = [answer EXCEPT ![t.req.call] = status]
  /\ IF t.attached
     THEN /\ response_cache' = Cache(Response(t.req, status))
          /\ inflight_requests' = inflight_requests \ {Slot(t.req)}
     ELSE UNCHANGED <<response_cache, inflight_requests>>
  /\ UNCHANGED <<transport, session, sessions, session_key, expired, clientVars,
                 recv_windows, executions>>

\* The response does not encode (a body that is not bytes, say), or the handler
\* ended in CancelledError, which is no Exception: the done callback raises,
\* nothing is sent and the inflight entry stays.
FinishUnsendable(t) ==
  /\ t \in tasks
  /\ tasks' = tasks \ {t}
  /\ UNCHANGED <<transportVars, clientVars, recv_windows, response_cache,
                 inflight_requests, executions, answer>>

\* Mutant: the pass looks at sessions and at the cache alone.
CleanupPassNoInflight(staleCache, staleInflight) ==
  /\ staleCache \subseteq response_cache /\ staleInflight \subseteq inflight_requests
  /\ Forget(expired)
  /\ response_cache' = OfOthers(response_cache \ staleCache, expired)
  /\ inflight_requests' = OfOthers(inflight_requests, expired)
  /\ UNCHANGED <<net, transport, session, session_key, clientVars, executions, answer>>

\* One turn of _cleanup_loop: expired sessions go; in the others, the cached
\* responses and the inflight entries that have passed their deadlines.
CleanupPass(staleCache, staleInflight) ==
  /\ staleCache \subseteq response_cache /\ staleInflight \subseteq inflight_requests
  /\ Forget(expired)
  /\ response_cache' = OfOthers(response_cache \ staleCache, expired)
  /\ inflight_requests' = OfOthers(inflight_requests \ staleInflight, expired)
  /\ UNCHANGED <<net, transport, session, session_key, clientVars, executions, answer>>

-----------------------------------------------------------------------------

CallNext ==
  \/ \E c \in Calls, s \in Streams :
       \/ \E p \in Paths : StartRequest(c, s, p)
       \/ StartTooLarge(c, s) \/ StartRefused(c, s)
  \/ \E c \in Calls :
       Return(c) \/ Retry(c) \/ RetryClosed(c) \/ GiveUp(c) \/ Cancel(c)
  \/ \E m \in net : OnResponse(m)

ClientNext == CallNext \/ Close \/ \E m \in net : OnFrameAck(m)

HandlerNext(outcomes) ==
  \/ \E sid \in SessionIds : SessionExpires(sid)
  \/ \E m \in net :
       \/ DropExpired(m) \/ HandleClose(m) \/ ResendCached(m)
       \/ DiscardAccepted(m) \/ FailSplitting(m)
       \/ AnswerNotFound(m) \/ SpawnHandler(m)
  \/ \E t \in tasks :
       \/ \E status \in outcomes : FinishRequest(t, status)
       \/ FinishUnsendable(t)

ServerNext ==
  \/ HandlerNext({"ok", "error"})
  \/ \E staleCache \in SUBSET response_cache,
        staleInflight \in SUBSET inflight_requests :
       CleanupPass(staleCache, staleInflight)

Next == ClientNext \/ ServerNext

Spec == Init /\ [][Next]_vars

\* The event loops run: a timer that is set fires, a done future wakes its
\* waiter, and the cleanup loop meets every inflight entry past its deadline.
\* No datagram need ever arrive, no handler need ever end.
EndsWait(c) == Return(c) \/ Retry(c) \/ RetryClosed(c) \/ GiveUp(c)

Entries(c) == {Slot(m) : m \in {n \in net : n.type = "REQUEST" /\ n.call = c}}

Inflight(c) == Entries(c) \cap inflight_requests # {}

CleansUp(c) ==
  /\ Inflight(c)
  /\ \E staleInflight \in SUBSET inflight_requests :
       /\ Entries(c) \subseteq staleInflight
       /\ CleanupPass({}, staleInflight)

Fairness == \A c \in Calls : WF_vars(EndsWait(c)) /\ WF_vars(CleansUp(c))

LiveSpec == Spec /\ Fairness

-----------------------------------------------------------------------------
(***************************************************************************)
(* Properties.                                                             *)
(***************************************************************************)

\* The handler of a call runs at most once, whatever is retried, duplicated
\* or reordered, and although cache entries expire before retries end.
AtMostOnceExecution == \A c \in Calls : executions[c] <= 1

\* A future holds the answer the server made for the call that waits for it:
\* request ids, windows and the pending table never let a late or duplicated
\* response reach another call of the stream.
AnswerMatchesCall ==
  \A c \in Calls :
    future[c] \in Responses => future[c] = [call |-> c, status |-> answer[c]]

\* The server never makes two answers for one request id of a session.
OneAnswerPerRequest ==
  \A m, n \in {r \in net : r.type = "RESPONSE"} : Slot(m) = Slot(n) => m = n

\* pending_requests holds no future that is done and none of a call that
\* timed out. What it keeps for good are the calls that ended some other way:
\* cancelled by the caller, or failed in _send behind a closed transport.
NoStalePending ==
  \A p \in pending_requests :
    /\ future[p.call] = NoReply
    /\ phase[p.call] \in {"waiting", "cancelled", "closed"}

\* While its session lives, the server refuses a request it neither answered
\* nor gave to a handler in three cases only: it came without a path, with one
\* that split_path raises on, or REPLAY_WINDOW newer numbers of the stream
\* overtook it.
RetryStillUseful ==
  \A c \in Calls :
    LET m == packet[c] IN
    (m # NoPacket /\ m.sid \in sessions /\ Seen(recv_windows[m.sid][m.stream], m.seq)) =>
      \/ executions[c] > 0 \/ answer[c] # "none"
      \/ m.path \in {"empty", "malformed"}
      \/ recv_windows[m.sid][m.stream].highest - m.seq >= REPLAY_WINDOW

\* The abstract promise of request(), of which all this is an implementation.
RPC == INSTANCE AtMostOnceRPC
         WITH reply <- [c \in Calls |-> IF phase[c] = "answered" THEN future[c]
                                        ELSE NoReply]

ImplementsRPC == RPC!Spec

\* Every call of request() ends, with or without an answer.
CallsTerminate == \A c \in Calls : (phase[c] = "waiting") ~> (phase[c] # "waiting")

\* No inflight entry outlives its handler and the cleanup loop for ever, not
\* even that of a handler whose response could not be sent.
InflightDrains == \A c \in Calls : Inflight(c) ~> ~ Inflight(c)

\* README: FRAME_ACK is a "Reliability acknowledgement": once the client has
\* read the FRAME_ACK of a request, the request's event is no longer clear.
AckReachesEvent ==
  \A c \in Calls :
    acked[c] = "clear" => ~ \E m \in acks_read : SameRequest(packet[c], m)
=============================================================================

---------------------------- MODULE FastUDPWindows ----------------------------
(***************************************************************************)
(* The composed system is well typed, and its replay windows can account   *)
(* for what they refuse: the server's for the calls that starve, the       *)
(* client's for the answers it does not take.                              *)
(***************************************************************************)
EXTENDS FastUDPProofs

-----------------------------------------------------------------------------
(***************************************************************************)
(* Types.                                                                  *)
(***************************************************************************)

\* What Handshake says of the types of the state that the layers share.
LEMMA SharedTypes ==
  ASSUME HP!TypeOK
  PROVE  /\ session \in Established \cup {NoSession}
         /\ sessions \subseteq SessionIds /\ expired \subseteq sessions
         /\ session_key \in [SessionIds -> Keys]
BY DEF HP!TypeOK, HP!Established, Established

LEMMA ClientSession ==
  ASSUME HP!TypeOK, session # NoSession
  PROVE  session.id \in SessionIds /\ session.key \in Keys
BY SharedTypes DEF Established

\* A request datagram in the network, and what a call has sent.
LEMMA TypedNet ==
  ASSUME Typed, NEW m \in net
  PROVE  /\ m.type = "REQUEST" => m \in R!RequestMessages
         /\ m.type = "RESPONSE" => m \in R!ResponseMessages
BY DEF Typed, LayerMessages, R!RequestMessages, R!ResponseMessages, R!FrameAckMessages,
       HandshakeTypes

LEMMA SentTypes ==
  ASSUME Typed, NEW c \in Calls, Sent(c)
  PROVE  packet[c] \in R!RequestMessages
BY DEF Typed, R!LayerTypes, Sent

\* Handshake's datagrams do not matter, those of requests have to be typed.
LEMMA NetKept ==
  ASSUME Typed, \A m \in net' \ net : m.type \in HandshakeTypes \/ m \in LayerMessages
  PROVE  (\A m \in net : m.type \notin HandshakeTypes => m \in LayerMessages)'
BY DEF Typed, LayerMessages, R!RequestMessages, R!ResponseMessages, R!FrameAckMessages

LEMMA UntouchedTyped ==
  ASSUME Typed, UNCHANGED <<callVars, serverVars>>,
         streams' \in [Streams -> R!StreamStates],
         \A m \in net' \ net : m.type \in HandshakeTypes \/ m \in LayerMessages
  PROVE  Typed'
<1>1. R!LayerTypes'
  BY DEF Typed, R!LayerTypes, callVars, serverVars
<1> QED
  BY <1>1, NetKept DEF Typed

LEMMA InitTyped == Init => Typed
<1> SUFFICES ASSUME Init PROVE Typed
  OBVIOUS
<1> USE DEF Init, H!Init, R!LayerInit
<1>1. R!NewStream \in R!StreamStates /\ R!NewStreamWindows \in [Streams -> Windows]
  BY SameWindow, NewWindowFacts DEF R!NewStream, R!StreamStates, R!NewStreamWindows
<1>2. R!LayerTypes
  BY <1>1, SameWindow, FastUDPAssumption DEF R!LayerTypes, R!RequestsAssumption
<1> QED
  BY <1>2 DEF Typed

LEMMA StartRequestTyped ==
  ASSUME Inv, Typed, HP!TypeOK, NEW c \in Calls, NEW s \in Streams, NEW p \in Paths,
         R!StartRequest(c, s, p)
  PROVE  Typed'
<1> DEFINE pkt == R!RequestPacket(c, s, p)
<1>1. /\ packet' = [packet EXCEPT ![c] = pkt] /\ R!TakeNumbers(s)
      /\ \/ phase' = [phase EXCEPT ![c] = "waiting"] /\ net' = net \cup {pkt}
         \/ phase' = [phase EXCEPT ![c] = "closed"] /\ net' = net
      /\ pending_requests' = R!Unregister(pkt) \cup {R!Entry(pkt)}
      /\ acked' = [acked EXCEPT ![c] = "clear"]
      /\ UNCHANGED <<attempt, future, client_windows, acks_read, serverVars>>
  BY DEF R!StartRequest, R!Send, R!serverVars, serverVars
<1>2. pkt \in R!RequestMessages
  <2>1. streams[s].next_seq \in Nat /\ streams[s].next_request_id \in Nat
    BY DEF Inv, Tables, R!StreamStates
  <2>2. session.id \in SessionIds /\ session.key \in Keys
    BY ClientSession DEF R!StartRequest
  <2>3. p \in Paths
    OBVIOUS
  <2> QED
    BY <2>1, <2>2, <2>3 DEF R!RequestPacket, R!RequestMessages
<1>3. R!Entry(pkt) \in [stream : Streams, rid : Nat, call : Calls]
  BY <1>2 DEF R!Entry, R!RequestMessages
<1>4. pkt \in LayerMessages
  BY <1>2 DEF LayerMessages
<1> HIDE DEF pkt
<1>5. streams' \in [Streams -> R!StreamStates]
  BY <1>1, NumbersTaken DEF Inv
<1>6. R!LayerTypes'
  BY <1>1, <1>2, <1>3, <1>5, SMTT(30) DEF Typed, R!LayerTypes, R!Unregister, R!Failures,
     serverVars
<1> QED
  BY <1>1, <1>4, <1>6, NetKept DEF Typed

LEMMA CallEndsTyped ==
  ASSUME Inv, Typed, NEW c \in Calls,
         \/ \E s \in Streams : R!StartTooLarge(c, s) \/ R!StartRefused(c, s)
         \/ R!Return(c) \/ R!Retry(c) \/ R!RetryClosed(c) \/ R!GiveUp(c)
         \/ R!Cancel(c)
  PROVE  Typed'
<1> USE DEF R!transportVars, R!serverVars
<1>1. \/ UNCHANGED streams
      \/ \E s \in Streams : R!TakeNumbers(s)
  BY DEF R!StartTooLarge, R!StartRefused, R!Return, R!Retry, R!RetryClosed, R!GiveUp,
         R!Cancel
<1>2. streams' \in [Streams -> R!StreamStates]
  BY <1>1, NumbersTaken DEF Inv, Tables
<1>3. phase' \in [Calls -> {"idle", "waiting", "answered"} \cup R!Failures]
  BY DEF R!StartTooLarge, R!StartRefused, R!Return, R!Retry, R!RetryClosed, R!GiveUp,
         R!Cancel, R!Outcome, R!Failures, Typed, R!LayerTypes
<1>4. attempt' \in [Calls -> Nat] /\ \A d \in Calls : attempt'[d] <= Retries[d]
  <2>1. attempt \in [Calls -> Nat] /\ \A d \in Calls : attempt[d] <= Retries[d]
    BY DEF Typed, R!LayerTypes
  <2>2. \/ attempt' = attempt
        \/ attempt' = [attempt EXCEPT ![c] = @ + 1] /\ attempt[c] < Retries[c]
    BY DEF R!StartTooLarge, R!StartRefused, R!Return, R!Retry, R!RetryClosed, R!GiveUp,
           R!Cancel
  <2>3. Retries[c] \in Nat
    BY FastUDPAssumption DEF R!RequestsAssumption
  <2> QED
    BY <2>1, <2>2, <2>3
<1>5. /\ pending_requests' \subseteq pending_requests
      /\ acked' \in [Calls -> {"absent", "clear", "set"}]
  BY DEF R!StartTooLarge, R!StartRefused, R!Return, R!Retry, R!RetryClosed, R!GiveUp,
         R!Cancel, R!Unregister, Typed, R!LayerTypes
<1>6. UNCHANGED <<packet, future, client_windows, acks_read, recv_windows, response_cache>>
  BY DEF R!StartTooLarge, R!StartRefused, R!Return, R!Retry, R!RetryClosed, R!GiveUp,
         R!Cancel
<1>7. UNCHANGED <<inflight_requests, tasks, executions, answer>>
  BY DEF R!StartTooLarge, R!StartRefused, R!Return, R!Retry, R!RetryClosed, R!GiveUp,
         R!Cancel
<1>8. net' = net
  BY DEF R!StartTooLarge, R!StartRefused, R!Return, R!Retry, R!RetryClosed, R!GiveUp,
         R!Cancel, R!Send, Inv, RequestsGenuine
<1>9. R!LayerTypes'
  BY <1>2, <1>3, <1>4, <1>5, <1>6, <1>7 DEF Typed, R!LayerTypes
<1> QED
  BY <1>8, <1>9 DEF Typed

LEMMA OnResponseTyped ==
  ASSUME Typed, NEW m \in net, R!OnResponse(m)
  PROVE  Typed'
<1> USE DEF R!transportVars, R!serverVars
<1>1. m \in R!ResponseMessages
  BY TypedNet DEF R!OnResponse
<1>2. m.stream \in Streams /\ m.seq \in Nat /\ m.body \in R!Responses
  BY <1>1 DEF R!ResponseMessages
<1>3. client_windows' \in [Streams -> Windows]
  <2>1. client_windows \in [Streams -> Windows]
    BY SameWindow DEF Typed, R!LayerTypes
  <2>2. R!Mark(client_windows[m.stream], m.seq) \in Windows
    BY <1>2, <2>1, Accepted DEF R!OnResponse
  <2> QED
    BY <2>1, <2>2 DEF R!OnResponse
<1>4. future' \in [Calls -> R!Responses \cup {NoReply, Undecryptable}]
  BY <1>2 DEF R!OnResponse, Typed, R!LayerTypes
<1>5. pending_requests' \subseteq pending_requests
  BY DEF R!OnResponse, R!Unregister
<1>6. /\ UNCHANGED <<net, streams, phase, packet, attempt, acked, acks_read>>
      /\ UNCHANGED <<recv_windows, response_cache, inflight_requests, tasks>>
      /\ UNCHANGED <<executions, answer>>
  BY DEF R!OnResponse
<1>7. R!LayerTypes'
  BY <1>3, <1>4, <1>5, <1>6, SameWindow DEF Typed, R!LayerTypes
<1> QED
  BY <1>6, <1>7 DEF Typed

LEMMA CallTyped == ASSUME Inv, Typed, HP!TypeOK, R!CallNext PROVE Typed'
BY StartRequestTyped, CallEndsTyped, OnResponseTyped DEF R!CallNext

\* SessionStates leave the table.
LEMMA ForgetTyped ==
  ASSUME Inv, Typed, NEW gone, R!Forget(gone), UNCHANGED <<net, streams, callVars>>,
         response_cache' \subseteq response_cache,
         inflight_requests' \subseteq inflight_requests,
         UNCHANGED <<executions, answer>>
  PROVE  Typed'
<1>1. R!NewStreamWindows \in [Streams -> Windows]
  BY SameWindow, NewWindowFacts DEF R!NewStreamWindows
<1>2. recv_windows' \in [SessionIds -> [Streams -> R!Windows]]
  BY <1>1, SameWindow DEF R!Forget, Typed, R!LayerTypes
<1>3. tasks' \subseteq [req : R!RequestMessages, attached : BOOLEAN]
  <2>1. tasks \subseteq [req : R!RequestMessages, attached : BOOLEAN]
    BY DEF Typed, R!LayerTypes
  <2>2. \A t \in tasks : [t EXCEPT !.attached = FALSE]
                           \in [req : R!RequestMessages, attached : BOOLEAN]
    BY <2>1
  <2> QED
    BY <2>1, <2>2 DEF R!Forget
<1>4. R!LayerTypes'
  BY <1>2, <1>3 DEF Typed, R!LayerTypes, callVars
<1> QED
  BY <1>4 DEF Typed

\* What the server makes of a request, and of the session it came in.
LEMMA AnswerTypes ==
  ASSUME HP!TypeOK, NEW m \in R!RequestMessages
  PROVE  /\ R!FrameAck(m) \in R!FrameAckMessages
         /\ \A status \in R!Statuses : R!Response(m, status) \in R!ResponseMessages
         /\ R!Slot(m) \in R!Slots
BY SharedTypes DEF R!RequestMessages, R!FrameAck, R!FrameAckMessages, R!Response,
   R!ResponseMessages, R!Responses, R!Slot, R!Slots

LEMMA AcceptedTyped ==
  ASSUME Inv, Typed, HP!TypeOK, NEW m \in net,
         R!DiscardAccepted(m) \/ R!FailSplitting(m) \/ R!AnswerNotFound(m)
           \/ R!SpawnHandler(m)
  PROVE  Typed'
<1> USE DEF R!transportVars
<1>1. /\ R!AcceptRequest(m) /\ UNCHANGED <<streams, callVars>>
  BY DEF R!DiscardAccepted, R!FailSplitting, R!AnswerNotFound, R!SpawnHandler,
         R!clientVars, callVars
<1>2. /\ recv_windows' \in [SessionIds -> [Streams -> R!Windows]]
      /\ m \in R!RequestMessages /\ m.call \in Calls
  BY <1>1, AcceptRequestFacts, TypedNet, SameWindow
<1>3. /\ R!FrameAck(m) \in R!FrameAckMessages /\ R!Slot(m) \in R!Slots
      /\ R!Response(m, "notfound") \in R!ResponseMessages
  BY <1>2, AnswerTypes DEF R!Statuses
<1>4. response_cache' \subseteq R!ResponseMessages /\ inflight_requests' \subseteq R!Slots
  BY <1>3 DEF R!DiscardAccepted, R!FailSplitting, R!AnswerNotFound, R!SpawnHandler,
     R!Cache, Typed, R!LayerTypes
<1>5. tasks' \subseteq [req : R!RequestMessages, attached : BOOLEAN]
  <2>1. tasks \subseteq [req : R!RequestMessages, attached : BOOLEAN]
    BY DEF Typed, R!LayerTypes
  <2>2. [req |-> m, attached |-> TRUE] \in [req : R!RequestMessages, attached : BOOLEAN]
    BY <1>2
  <2> QED
    BY <2>1, <2>2 DEF R!DiscardAccepted, R!FailSplitting, R!AnswerNotFound, R!SpawnHandler
<1>6. executions' \in [Calls -> Nat] /\ answer' \in [Calls -> R!Statuses \cup {"none"}]
  <2>1. executions \in [Calls -> Nat] /\ answer \in [Calls -> R!Statuses \cup {"none"}]
    BY DEF Typed, R!LayerTypes
  <2>2. executions' = executions \/ executions' = [executions EXCEPT ![m.call] = @ + 1]
    BY DEF R!DiscardAccepted, R!FailSplitting, R!AnswerNotFound, R!SpawnHandler
  <2>3. answer' = answer \/ answer' = [answer EXCEPT ![m.call] = "notfound"]
    BY DEF R!DiscardAccepted, R!FailSplitting, R!AnswerNotFound, R!SpawnHandler
  <2> QED
    BY <1>2, <2>1, <2>2, <2>3 DEF R!Statuses
<1>7. R!LayerTypes'
  BY <1>1, <1>2, <1>4, <1>5, <1>6 DEF Typed, R!LayerTypes, callVars
<1>8. \A n \in net' \ net : n \in LayerMessages
  BY <1>3 DEF R!DiscardAccepted, R!FailSplitting, R!AnswerNotFound, R!SpawnHandler,
     R!Send, LayerMessages
<1> QED
  BY <1>7, <1>8, NetKept DEF Typed

LEMMA FinishTyped ==
  ASSUME Inv, Typed, HP!TypeOK, NEW t \in tasks,
         R!FinishRequest(t, "ok") \/ R!FinishUnsendable(t)
  PROVE  Typed'
<1> DEFINE r == R!Response(t.req, "ok")
<1>1. /\ t.req \in R!RequestMessages /\ t.req.call \in Calls
  BY DEF Typed, R!LayerTypes, R!RequestMessages
<1>2. r \in R!ResponseMessages
  BY <1>1, AnswerTypes DEF R!Statuses
<1>3. /\ UNCHANGED <<streams, callVars, recv_windows, executions>>
      /\ tasks' \subseteq tasks /\ inflight_requests' \subseteq inflight_requests
      /\ net' = net \/ net' = net \cup {r}
      /\ response_cache' \subseteq response_cache \cup {r}
      /\ answer' = answer \/ answer' = [answer EXCEPT ![t.req.call] = "ok"]
  BY DEF R!FinishRequest, R!FinishUnsendable, R!transportVars, R!clientVars, callVars,
     R!Send, R!Cache
<1> HIDE DEF r
<1>4. answer' \in [Calls -> R!Statuses \cup {"none"}]
  BY <1>1, <1>3 DEF Typed, R!LayerTypes, R!Statuses
<1>5. R!LayerTypes'
  BY <1>2, <1>3, <1>4 DEF Typed, R!LayerTypes, callVars
<1>6. \A n \in net' \ net : n \in LayerMessages
  BY <1>2, <1>3 DEF LayerMessages
<1> QED
  BY <1>5, <1>6, NetKept DEF Typed

LEMMA HandlersTyped ==
  ASSUME Inv, Typed, HP!TypeOK, R!HandlerNext({"ok"})
  PROVE  Typed'
<1> USE DEF R!transportVars, R!clientVars, callVars
<1>1. ASSUME NEW sid \in SessionIds, R!SessionExpires(sid) PROVE Typed'
  BY <1>1, UntouchedTyped DEF R!SessionExpires, R!serverVars, serverVars, Inv, Tables
<1>2. ASSUME NEW m \in net, R!DropExpired(m) \/ R!HandleClose(m) PROVE Typed'
  BY <1>2, ForgetTyped DEF R!DropExpired, R!HandleClose, R!OfOthers
<1>3. ASSUME NEW m \in net, R!ResendCached(m) PROVE Typed'
  <2>1. /\ UNCHANGED <<streams, callVars, serverVars>>
        /\ \A n \in net' \ net : n \in response_cache
    BY <1>3 DEF R!ResendCached, R!serverVars, serverVars, R!Send, R!Cached
  <2>2. response_cache \subseteq LayerMessages /\ streams \in [Streams -> R!StreamStates]
    BY DEF Typed, R!LayerTypes, LayerMessages
  <2> QED
    BY <2>1, <2>2, UntouchedTyped
<1>4. ASSUME NEW m \in net,
             R!DiscardAccepted(m) \/ R!FailSplitting(m) \/ R!AnswerNotFound(m)
           \/ R!SpawnHandler(m)
      PROVE  Typed'
  BY <1>4, AcceptedTyped
<1>5. ASSUME NEW t \in tasks, R!FinishRequest(t, "ok") \/ R!FinishUnsendable(t)
      PROVE  Typed'
  BY <1>5, FinishTyped
<1> QED
  BY <1>1, <1>2, <1>3, <1>4, <1>5 DEF R!HandlerNext

LEMMA RequestStepTyped == ASSUME Inv, Typed, HP!TypeOK, RequestStep PROVE Typed'
<1>1. CASE R!Close
  <2>1. /\ UNCHANGED <<streams, callVars, serverVars>>
        /\ net' = net \/ net' = net \cup {R!CloseMessage(session.id)}
    BY <1>1 DEF R!Close, R!clientVars, R!serverVars, callVars, serverVars, R!Send
  <2>2. R!CloseMessage(session.id).type \in HandshakeTypes
    BY DEF R!CloseMessage, HandshakeTypes
  <2> QED
    BY <2>1, <2>2, UntouchedTyped DEF Inv, Tables
<1> QED
  BY <1>1, CallTyped, HandlersTyped DEF RequestStep

LEMMA NextTyped == Inv /\ Typed /\ HP!TypeOK /\ [Next]_vars => Typed'
<1> SUFFICES ASSUME Inv, Typed, HP!TypeOK, [Next]_vars PROVE Typed'
  OBVIOUS
<1>1. CASE HandshakeStep
  <2>1. \A m \in net' \ net : m.type \in HandshakeTypes
    BY <1>1 DEF HandshakeStep, H!Connect, H!ConnectReturns, H!ConnectTimesOut,
       H!OnChallenge, H!HandleLateProve, H!HandleHello, H!PendingExpires,
       H!TicketExpires, H!Send, H!transportVars, HandshakeTypes
  <2> QED
    BY <1>1, <2>1, UntouchedTyped DEF HandshakeStep, requestVars, Inv, Tables
<1>2. ASSUME NEW m \in net, AdoptSession(m) PROVE Typed'
  <2>1. FreshStreams \in [Streams -> R!StreamStates]
    BY DEF FreshStreams, R!NewStream, R!StreamStates
  <2> QED
    BY <1>2, <2>1, UntouchedTyped DEF AdoptSession, H!OnAck
<1>3. ASSUME NEW m \in net, ResumeSession(m) \/ ProveSession(m) PROVE Typed'
  <2>1. \A n \in net' \ net : n.type \in HandshakeTypes
    BY <1>3 DEF ResumeSession, ProveSession, H!HandleResume, H!HandleProve, H!Grant,
       H!Send, H!Ack, HandshakeTypes
  <2> QED
    BY <1>3, <2>1, UntouchedTyped DEF ResumeSession, ProveSession, requestVars, Inv, Tables
<1>4. ASSUME NEW staleCache, NEW staleInflight, CleanupPass(staleCache, staleInflight)
      PROVE  Typed'
  BY <1>4, ForgetTyped DEF CleanupPass, R!CleanupPass, R!OfOthers, R!clientVars, callVars
<1>5. CASE Restart
  <2>1. R!NewStreamWindows \in [Streams -> Windows]
    BY SameWindow, NewWindowFacts DEF R!NewStreamWindows
  <2>2. R!LayerTypes' /\ net' = net
    BY <1>5, <2>1, SameWindow DEF Restart, H!Restart, Typed, R!LayerTypes, callVars
  <2> QED
    BY <2>2 DEF Typed
<1>6. CASE UNCHANGED vars
  BY <1>6, UntouchedTyped DEF vars, requestVars, transportVars, Inv, Tables
<1> QED
  BY <1>1, <1>2, <1>3, <1>4, <1>5, <1>6, RequestStepTyped DEF Next

-----------------------------------------------------------------------------
(***************************************************************************)
(* Numbers of packets that a call has built.                               *)
(***************************************************************************)

LEMMA StartNumbered ==
  ASSUME Inv, Typed, HP!TypeOK, PacketsNumbered, NEW c \in Calls, NEW s \in Streams,
         NEW p \in Paths, R!StartRequest(c, s, p)
  PROVE  PacketsNumbered'
<1> DEFINE pkt == R!RequestPacket(c, s, p)
<1>1. /\ packet' = [packet EXCEPT ![c] = pkt] /\ pkt.rid = pkt.seq + 1 /\ pkt.call = c
      /\ pending_requests' \subseteq pending_requests \cup {R!Entry(pkt)}
  BY DEF R!StartRequest, R!RequestPacket, R!Unregister, Inv, Tables
<1>2. packet'[c] \in R!RequestMessages
  <2>1. session.id \in SessionIds /\ session.key \in Keys
    BY ClientSession DEF R!StartRequest
  <2>2. streams[s].next_seq \in Nat /\ streams[s].next_request_id \in Nat
    BY DEF Inv, Tables, R!StreamStates
  <2>3. pkt \in R!RequestMessages
    BY <2>1, <2>2 DEF R!RequestPacket, R!RequestMessages
  <2> QED
    BY <1>1, <2>3 DEF Inv, Tables
<1> HIDE DEF pkt
<1>3. packet'[c] = pkt /\ \A d \in Calls : d # c => packet'[d] = packet[d]
  BY <1>1 DEF Inv, Tables
<1>4. packet'[c] # NoPacket
  BY <1>2, FastUDPAssumption DEF R!RequestsAssumption, R!RequestMessages
<1>5. \A e \in pending_requests' : e.call = c \/ (e.call \in Calls /\ Sent(e.call))
  BY <1>1 DEF R!Entry, PacketsNumbered, Inv, AnswersGenuine, Numbered
<1> QED
  BY <1>1, <1>3, <1>4, <1>5 DEF PacketsNumbered, Sent

LEMMA NextNumbered ==
  Inv /\ Typed /\ HP!TypeOK /\ PacketsNumbered /\ [Next]_vars => PacketsNumbered'
<1> SUFFICES ASSUME Inv, Typed, HP!TypeOK, PacketsNumbered, [Next]_vars
             PROVE  PacketsNumbered'
  OBVIOUS
<1>1. CASE packet' = packet /\ pending_requests' \subseteq pending_requests
  BY <1>1 DEF PacketsNumbered, Sent
<1>2. CASE \E c \in Calls, s \in Streams, p \in Paths : R!StartRequest(c, s, p)
  BY <1>2, StartNumbered
<1>3. CASE R!CallNext
  BY <1>1, <1>2, <1>3, ZenonT(30) DEF R!CallNext, R!StartTooLarge, R!StartRefused, R!Return,
     R!Retry, R!RetryClosed, R!GiveUp, R!Cancel, R!OnResponse, R!Unregister
<1>4. CASE R!HandlerNext({"ok"}) \/ R!Close
  <2>1. UNCHANGED <<packet, pending_requests>>
    BY <1>4, ZenonT(30) DEF R!HandlerNext, R!SessionExpires, R!DropExpired, R!HandleClose,
       R!ResendCached, R!DiscardAccepted, R!FailSplitting, R!AnswerNotFound, R!SpawnHandler,
       R!FinishRequest, R!FinishUnsendable, R!Close, R!clientVars
  <2> QED
    BY <1>1, <2>1
<1>5. CASE ~ RequestStep
  <2>1. UNCHANGED <<packet, pending_requests>>
    BY <1>5, ZenonT(30) DEF Next, HandshakeStep, AdoptSession, ResumeSession, ProveSession,
       CleanupPass, R!CleanupPass, Restart, vars, requestVars, callVars, R!clientVars
  <2> QED
    BY <1>1, <2>1
<1> QED
  BY <1>3, <1>4, <1>5 DEF RequestStep

-----------------------------------------------------------------------------
(***************************************************************************)
(* The server's windows.                                                   *)
(***************************************************************************)

\* What a window refuses lies within its reach.
LEMMA SeenRange ==
  ASSUME NEW w \in Windows, NEW q \in Nat, Seen(w, q)
  PROVE  q \in 0 .. w.highest
BY DEF Windows, Seen

\* Taking one more number: the window accounts for that number and for those it
\* accounted for before.
LEMMA MarkAccounts ==
  ASSUME NEW w \in Windows, NEW seq \in Nat, Accepts(w, seq),
         NEW q \in Nat, Seen(Mark(w, seq), q), q # seq
  PROVE  \/ Overtaken(Mark(w, seq), q)
         \/ q \in 0 .. w.highest /\ Seen(w, q) /\ ~ Overtaken(w, q)
<1>1. CASE Overtaken(w, q)
  <2>1. /\ Mark(w, seq).highest >= w.highest /\ Mark(w, seq) \in Windows
    BY MarkHighest, MarkType
  <2> QED
    BY <1>1, <2>1, WindowAssumption DEF Overtaken, Windows
<1>2. CASE ~ Overtaken(w, q)
  BY <1>2, MarkOnlySeen, SeenRange DEF Overtaken
<1> QED
  BY <1>1, <1>2

LEMMA NewWindowsSeeNothing ==
  \A s \in Streams, q \in Nat : ~ Seen(R!NewStreamWindows[s], q)
BY SameWindow, NewWindowFacts DEF R!NewStreamWindows

\* The server met the request of that number.
Accounted(sid, s, q) ==
  \E m \in net : /\ m.type = "REQUEST" /\ Met(m)
                 /\ m.sid = sid /\ m.stream = s /\ m.seq = q

LEMMA AccountedKept ==
  ASSUME Inv, net \subseteq net', NEW sid, session_key'[sid] = session_key[sid],
         \A c \in Calls : /\ executions[c] > 0 => executions'[c] > 0
                          /\ answer[c] # "none" => answer'[c] # "none"
  PROVE  \A s, q : Accounted(sid, s, q) => Accounted(sid, s, q)'
<1> SUFFICES ASSUME NEW s, NEW q, NEW m \in net, m.type = "REQUEST", Met(m),
                    m.sid = sid, m.stream = s, m.seq = q
             PROVE  Accounted(sid, s, q)'
  BY DEF Accounted
<1>1. m.call \in Calls
  BY DEF Inv, RequestsGenuine, Numbered
<1>2. Met(m)'
  BY <1>1 DEF Met
<1> QED
  BY <1>2 DEF Accounted

\* Steps in which the server takes no number. A session that leaves the table,
\* or is made for an id that was not in it, has new windows.
LEMMA ServerWindowsKept ==
  ASSUME Inv, ServerWindowsExplained, net \subseteq net',
         \A c \in Calls : /\ executions[c] > 0 => executions'[c] > 0
                          /\ answer[c] # "none" => answer'[c] # "none",
         \A sid \in SessionIds \ sessions' : sid \in sessions =>
           recv_windows'[sid] = R!NewStreamWindows,
         \A sid \in SessionIds :
           \/ recv_windows'[sid] = R!NewStreamWindows
           \/ recv_windows'[sid] = recv_windows[sid],
         \A sid \in sessions : session_key'[sid] = session_key[sid]
  PROVE  ServerWindowsExplained'
<1> SUFFICES ASSUME NEW sid \in SessionIds
             PROVE  /\ sid \notin sessions' => recv_windows'[sid] = R!NewStreamWindows
                    /\ \A s \in Streams :
                         LET w == recv_windows'[sid][s] IN
                         \A q \in 0 .. w.highest : Seen(w, q) =>
                           Overtaken(w, q) \/ Accounted(sid, s, q)'
  BY DEF ServerWindowsExplained, Accounted
<1>1. /\ sid \notin sessions => recv_windows[sid] = R!NewStreamWindows
      /\ \A s \in Streams : LET w == recv_windows[sid][s] IN
           \A q \in 0 .. w.highest : Seen(w, q) => Overtaken(w, q) \/ Accounted(sid, s, q)
  BY DEF ServerWindowsExplained, Accounted
<1>2. sid \notin sessions' => recv_windows'[sid] = R!NewStreamWindows
  BY <1>1
<1>3. ASSUME recv_windows'[sid] = R!NewStreamWindows, NEW s \in Streams,
             NEW q \in 0 .. recv_windows'[sid][s].highest
      PROVE  ~ Seen(recv_windows'[sid][s], q)
  <2>1. q \in Nat
    OBVIOUS
  <2> QED
    BY <1>3, <2>1, NewWindowsSeeNothing
<1>4. ASSUME recv_windows'[sid] # R!NewStreamWindows
      PROVE  /\ recv_windows'[sid] = recv_windows[sid]
             /\ \A s, q : Accounted(sid, s, q) => Accounted(sid, s, q)'
  <2>1. recv_windows'[sid] = recv_windows[sid] /\ sid \in sessions
    BY <1>1, <1>4
  <2> QED
    BY <2>1, AccountedKept
<1> QED
  BY <1>1, <1>2, <1>3, <1>4

\* The server takes a request: now it has met that one.
LEMMA ServerAccepts ==
  ASSUME Inv, Typed, ServerWindowsExplained, NEW m \in net,
         R!DiscardAccepted(m) \/ R!FailSplitting(m) \/ R!AnswerNotFound(m)
           \/ R!SpawnHandler(m)
  PROVE  ServerWindowsExplained'
<1> USE DEF R!transportVars
<1>1. /\ R!AcceptRequest(m) /\ net \subseteq net'
      /\ UNCHANGED <<session_key, sessions>>
  BY DEF R!DiscardAccepted, R!FailSplitting, R!AnswerNotFound, R!SpawnHandler, R!Send
<1>2. /\ m.type = "REQUEST" /\ m.sid \in sessions /\ m.sid \in SessionIds
      /\ m.call \in Calls /\ m.stream \in Streams /\ m.seq \in Nat
  BY <1>1, AcceptRequestFacts
<1>3. executions \in [Calls -> Nat] /\ answer \in [Calls -> R!Statuses \cup {"none"}]
  BY DEF Typed, R!LayerTypes
<1>4. /\ executions' = executions \/ executions' = [executions EXCEPT ![m.call] = @ + 1]
      /\ answer' = answer \/ answer' = [answer EXCEPT ![m.call] = "notfound"]
  BY DEF R!DiscardAccepted, R!FailSplitting, R!AnswerNotFound, R!SpawnHandler
<1>5. \A c \in Calls : /\ executions[c] > 0 => executions'[c] > 0
                       /\ answer[c] # "none" => answer'[c] # "none"
  BY <1>2, <1>3, <1>4
<1>6. Accounted(m.sid, m.stream, m.seq)'
  <2>1. Met(m)'
    BY <1>1, <1>2, <1>3 DEF R!DiscardAccepted, R!FailSplitting, R!AnswerNotFound, R!SpawnHandler,
       R!Decrypts, Met
  <2> QED
    BY <1>1, <1>2, <2>1 DEF Accounted
<1> DEFINE w == recv_windows[m.sid][m.stream]
<1>7. w \in Windows /\ Accepts(w, m.seq)
  BY <1>1, <1>2, SameWindow DEF Inv, Tables, R!AcceptRequest
<1>8. /\ recv_windows'[m.sid][m.stream] = Mark(w, m.seq)
      /\ \A sid \in SessionIds : sid # m.sid => recv_windows'[sid] = recv_windows[sid]
      /\ \A s \in Streams : s # m.stream => recv_windows'[m.sid][s] = recv_windows[m.sid][s]
  BY <1>1, <1>2, SameWindow DEF Inv, Tables, R!AcceptRequest
<1> HIDE DEF w
<1> SUFFICES ASSUME NEW sid \in SessionIds
             PROVE  /\ sid \notin sessions' => recv_windows'[sid] = R!NewStreamWindows
                    /\ \A s \in Streams :
                         \A q \in 0 .. recv_windows'[sid][s].highest :
                           Seen(recv_windows'[sid][s], q) =>
                             Overtaken(recv_windows'[sid][s], q) \/ Accounted(sid, s, q)'
  BY DEF ServerWindowsExplained, Accounted
<1>9. /\ sid \notin sessions => recv_windows[sid] = R!NewStreamWindows
      /\ \A s \in Streams :
           \A q \in 0 .. recv_windows[sid][s].highest :
             Seen(recv_windows[sid][s], q) =>
               Overtaken(recv_windows[sid][s], q) \/ Accounted(sid, s, q)
  BY DEF ServerWindowsExplained, Accounted
<1>10. \A s, q : Accounted(sid, s, q) => Accounted(sid, s, q)'
  BY <1>1, <1>5, AccountedKept
<1>11. ASSUME NEW s \in Streams, NEW q \in 0 .. recv_windows'[sid][s].highest,
              Seen(recv_windows'[sid][s], q)
       PROVE  Overtaken(recv_windows'[sid][s], q) \/ Accounted(sid, s, q)'
  <2>1. CASE sid # m.sid \/ s # m.stream
    <3>1. recv_windows'[sid][s] = recv_windows[sid][s]
      BY <1>8, <2>1
    <3> QED
      BY <1>9, <1>10, <1>11, <3>1
  <2>2. CASE sid = m.sid /\ s = m.stream /\ q # m.seq
    <3>1. q \in Nat /\ Seen(Mark(w, m.seq), q)
      BY <1>8, <1>11, <2>2
    <3>2. \/ Overtaken(Mark(w, m.seq), q)
          \/ q \in 0 .. w.highest /\ Seen(w, q) /\ ~ Overtaken(w, q)
      BY <1>2, <1>7, <2>2, <3>1, MarkAccounts
    <3> QED
      BY <1>8, <1>9, <1>10, <2>2, <3>2 DEF w
  <2>3. CASE sid = m.sid /\ s = m.stream /\ q = m.seq
    BY <1>6, <2>3
  <2> QED
    BY <2>1, <2>2, <2>3
<1>12. sid \notin sessions' => recv_windows'[sid] = R!NewStreamWindows
  BY <1>1, <1>2, <1>8, <1>9
<1> QED
  BY <1>11, <1>12

\* A session is resumed under its own key: its windows keep their meaning.
LEMMA ResumedKey ==
  ASSUME HP!Inv, NEW m \in net, NEW snonce \in H!FreshServerNonces,
         H!HandleResume(m, snonce)
  PROVE  \A sid \in sessions : session_key'[sid] = session_key[sid]
<1>1. m \in HandshakeNet /\ m.type = "HELLO" /\ m.ticket # NoTicket
  BY DEF H!HandleResume, H!Restores, HandshakeNet, HandshakeTypes
<1>2. PICK a \in HP!Acks : a.ticket = m.ticket
  BY <1>1 DEF HP!Inv, HP!Bookkeeping, HP!TicketsGenuine, HP!Issued
<1>3. m.ticket.sid \in sessions => session_key[m.ticket.sid] = m.ticket.key
  BY <1>2 DEF HP!Inv, HP!SidKeepsKey
<1>4. session_key \in [SessionIds -> Keys] /\ sessions \subseteq SessionIds
  BY SharedTypes DEF HP!Inv
<1>5. session_key' = [session_key EXCEPT ![m.ticket.sid] = m.ticket.key]
  BY DEF H!HandleResume, H!Grant
<1> QED
  BY <1>3, <1>4, <1>5

\* A new session has an id that is not in the table.
LEMMA ProvedKey ==
  ASSUME HP!Inv, NEW m \in net, NEW sid \in H!FreshSessionIds, H!HandleProve(m, sid)
  PROVE  \A other \in sessions : session_key'[other] = session_key[other]
<1>1. HP!Acks = H!Acks
  BY DEF HP!Acks, H!Acks, HandshakeNet, HandshakeTypes
<1>2. sid \notin sessions
  BY <1>1 DEF HP!Inv, HP!Bookkeeping, HP!SessionsAnnounced, H!FreshSessionIds
<1>3. session_key \in [SessionIds -> Keys] /\ sessions \subseteq SessionIds
  BY SharedTypes DEF HP!Inv
<1>4. session_key' = [session_key EXCEPT ![sid] = H!DeriveKey(m.cnonce, m.snonce)]
  BY DEF H!HandleProve, H!Grant
<1> QED
  BY <1>2, <1>3, <1>4

LEMMA HandlersKeepServerWindows ==
  ASSUME Inv, Typed, ServerWindowsExplained, R!HandlerNext({"ok"})
  PROVE  ServerWindowsExplained'
<1> USE DEF R!transportVars
<1>1. ASSUME NEW sid \in SessionIds, R!SessionExpires(sid) PROVE ServerWindowsExplained'
  BY <1>1, ServerWindowsKept DEF R!SessionExpires, R!serverVars
<1>2. ASSUME NEW m \in net, R!DropExpired(m) \/ R!HandleClose(m)
      PROVE  ServerWindowsExplained'
  <2>1. /\ R!Forget({m.sid}) /\ UNCHANGED <<net, session_key, executions, answer>>
    BY <1>2 DEF R!DropExpired, R!HandleClose
  <2> QED
    BY <2>1, ServerWindowsKept DEF R!Forget
<1>3. ASSUME NEW m \in net, R!ResendCached(m) PROVE ServerWindowsExplained'
  BY <1>3, ServerWindowsKept DEF R!ResendCached, R!serverVars, R!Send
<1>4. ASSUME NEW m \in net,
             R!DiscardAccepted(m) \/ R!FailSplitting(m) \/ R!AnswerNotFound(m)
           \/ R!SpawnHandler(m)
      PROVE  ServerWindowsExplained'
  BY <1>4, ServerAccepts
<1>5. ASSUME NEW t \in tasks, R!FinishRequest(t, "ok") \/ R!FinishUnsendable(t)
      PROVE  ServerWindowsExplained'
  <2>1. /\ UNCHANGED <<sessions, session_key, recv_windows, executions>>
        /\ net \subseteq net'
        /\ answer' = answer \/ answer' = [answer EXCEPT ![t.req.call] = "ok"]
    BY <1>5 DEF R!FinishRequest, R!FinishUnsendable, R!Send
  <2>2. \A c \in Calls : answer[c] # "none" => answer'[c] # "none"
    BY <2>1 DEF Typed, R!LayerTypes
  <2> QED
    BY <2>1, <2>2, ServerWindowsKept
<1> QED
  BY <1>1, <1>2, <1>3, <1>4, <1>5 DEF R!HandlerNext

LEMMA NextServerWindows ==
  Inv /\ Typed /\ HP!Inv /\ ServerWindowsExplained /\ [Next]_vars => ServerWindowsExplained'
<1> SUFFICES ASSUME Inv, Typed, HP!Inv, ServerWindowsExplained, [Next]_vars
             PROVE  ServerWindowsExplained'
  OBVIOUS
<1>1. CASE R!CallNext
  <2>1. UNCHANGED <<sessions, session_key, serverVars>> /\ net \subseteq net'
    BY <1>1, ZenonT(30) DEF R!CallNext, R!StartRequest, R!StartTooLarge, R!StartRefused,
       R!Return, R!Retry, R!RetryClosed, R!GiveUp, R!Cancel, R!OnResponse, serverVars,
       R!serverVars, R!transportVars, R!Send
  <2> QED
    BY <2>1, ServerWindowsKept DEF serverVars
<1>2. CASE R!Close
  BY <1>2, ServerWindowsKept DEF R!Close, R!serverVars, R!Send
<1>3. CASE R!HandlerNext({"ok"})
  BY <1>3, HandlersKeepServerWindows
<1>4. CASE HandshakeStep
  <2>1. UNCHANGED <<sessions, session_key, serverVars>> /\ net \subseteq net'
    BY <1>4 DEF HandshakeStep, H!Connect, H!ConnectReturns, H!ConnectTimesOut,
       H!OnChallenge, H!HandleLateProve, H!HandleHello, H!PendingExpires,
       H!TicketExpires, H!Send, H!transportVars, requestVars
  <2> QED
    BY <2>1, ServerWindowsKept DEF serverVars
<1>5. ASSUME NEW m \in net, AdoptSession(m) PROVE ServerWindowsExplained'
  BY <1>5, ServerWindowsKept DEF AdoptSession, H!OnAck, serverVars
<1>6. ASSUME NEW m \in net, ResumeSession(m) \/ ProveSession(m)
      PROVE  ServerWindowsExplained'
  <2>1. \A sid \in sessions : session_key'[sid] = session_key[sid]
    BY <1>6, ResumedKey, ProvedKey DEF ResumeSession, ProveSession
  <2>2. UNCHANGED serverVars /\ net \subseteq net' /\ sessions \subseteq sessions'
    BY <1>6 DEF ResumeSession, ProveSession, H!HandleResume, H!HandleProve, H!Grant, H!Send,
       requestVars
  <2> QED
    BY <2>1, <2>2, ServerWindowsKept DEF serverVars
<1>7. ASSUME NEW staleCache, NEW staleInflight, CleanupPass(staleCache, staleInflight)
      PROVE  ServerWindowsExplained'
  BY <1>7, ServerWindowsKept DEF CleanupPass, R!CleanupPass, R!Forget
<1>8. CASE Restart
  BY <1>8, ServerWindowsKept DEF Restart, H!Restart
<1>9. CASE UNCHANGED vars
  BY <1>9, ServerWindowsKept DEF vars, transportVars, requestVars, serverVars
<1> QED
  BY <1>1, <1>2, <1>3, <1>4, <1>5, <1>6, <1>7, <1>8, <1>9 DEF Next, RequestStep

-----------------------------------------------------------------------------
(***************************************************************************)
(* The client's windows.                                                   *)
(***************************************************************************)

\* A response that was read and whose call is no longer registered.
Spent(s, q) ==
  \E r \in net : /\ r.type = "RESPONSE" /\ r.stream = s /\ r.seq = q
                 /\ \A p \in pending_requests : p.call # r.body.call

\* Only a call without a response registers.
LEMMA SpentKept ==
  ASSUME net \subseteq net',
         \A p \in pending_requests' : p \in pending_requests
           \/ \A r \in net : r.type = "RESPONSE" => r.body.call # p.call
  PROVE  \A s, q : Spent(s, q) => Spent(s, q)'
BY DEF Spent

LEMMA ClientWindowsKept ==
  ASSUME ClientWindowsExplained, UNCHANGED client_windows, net \subseteq net',
         \A p \in pending_requests' : p \in pending_requests
           \/ \A r \in net : r.type = "RESPONSE" => r.body.call # p.call
  PROVE  ClientWindowsExplained'
<1>1. \A s, q : Spent(s, q) => Spent(s, q)'
  BY SpentKept
<1> QED
  BY <1>1 DEF ClientWindowsExplained, Spent

LEMMA StartRequestClient ==
  ASSUME Inv, Typed, ClientWindowsExplained, NEW c \in Calls, NEW s \in Streams,
         NEW p \in Paths, R!StartRequest(c, s, p)
  PROVE  ClientWindowsExplained'
<1>1. \A r \in net : r.type = "RESPONSE" => r.body.call # c
  BY DEF R!StartRequest, Inv, AnswersGenuine, AnswersItsCall, Numbered
<1>2. \A e \in pending_requests' : e \in pending_requests \/ e.call = c
  BY DEF R!StartRequest, R!Unregister, R!Entry, R!RequestPacket
<1>3. net \subseteq net' /\ UNCHANGED client_windows
  BY DEF R!StartRequest, R!Send
<1> QED
  BY <1>1, <1>2, <1>3, ClientWindowsKept

\* The client reads a response, and takes its call out of the table: all that is
\* registered under those numbers, and a call is registered under its own.
LEMMA OnResponseClient ==
  ASSUME Inv, Typed, ClientWindowsExplained, NEW m \in net, R!OnResponse(m)
  PROVE  ClientWindowsExplained'
<1>1. /\ m.type = "RESPONSE" /\ m.stream \in Streams /\ m.seq \in Nat
      /\ AnswersItsCall(m) /\ net' = net
      /\ pending_requests' = R!Unregister(m)
  BY TypedNet DEF R!OnResponse, R!ResponseMessages, Inv, AnswersGenuine, R!transportVars
<1>2. \A p \in pending_requests' : p.call # m.body.call
  <2> SUFFICES ASSUME NEW p \in pending_requests, ~ R!SameRequest(p, m), p.call = m.body.call
               PROVE  FALSE
    BY <1>1 DEF R!Unregister
  <2>1. R!SameRequest(packet[p.call], p) /\ R!SameRequest(packet[p.call], m)
    BY <1>1 DEF Inv, AnswersGenuine, AnswersItsCall
  <2> QED
    BY <2>1 DEF R!SameRequest
<1>3. Spent(m.stream, m.seq)'
  BY <1>1, <1>2 DEF Spent
<1>4. \A s, q : Spent(s, q) => Spent(s, q)'
  BY <1>1, SpentKept DEF R!Unregister
<1> DEFINE w == client_windows[m.stream]
<1>5. client_windows \in [Streams -> Windows] /\ w \in Windows /\ Accepts(w, m.seq)
  BY <1>1, SameWindow DEF Typed, R!LayerTypes, R!OnResponse
<1>6. /\ client_windows'[m.stream] = Mark(w, m.seq)
      /\ \A s \in Streams : s # m.stream => client_windows'[s] = client_windows[s]
  BY <1>1, <1>5, SameWindow DEF R!OnResponse
<1> HIDE DEF w
<1> SUFFICES ASSUME NEW s \in Streams, NEW q \in 0 .. client_windows'[s].highest,
                    Seen(client_windows'[s], q)
             PROVE  Overtaken(client_windows'[s], q) \/ Spent(s, q)'
  BY DEF ClientWindowsExplained, Spent
<1>7. \A x \in Streams : \A y \in 0 .. client_windows[x].highest :
        Seen(client_windows[x], y) => Overtaken(client_windows[x], y) \/ Spent(x, y)
  BY DEF ClientWindowsExplained, Spent
<1>8. CASE s # m.stream
  BY <1>4, <1>6, <1>7, <1>8
<1>9. CASE s = m.stream /\ q # m.seq
  <2>1. q \in Nat /\ Seen(Mark(w, m.seq), q)
    BY <1>6, <1>9
  <2>2. \/ Overtaken(Mark(w, m.seq), q)
        \/ q \in 0 .. w.highest /\ Seen(w, q) /\ ~ Overtaken(w, q)
    BY <1>1, <1>5, <1>9, <2>1, MarkAccounts
  <2> QED
    BY <1>4, <1>6, <1>7, <1>9, <2>2 DEF w
<1>10. CASE s = m.stream /\ q = m.seq
  BY <1>3, <1>10
<1> QED
  BY <1>8, <1>9, <1>10

LEMMA NextClientWindows ==
  Inv /\ Typed /\ ClientWindowsExplained /\ [Next]_vars => ClientWindowsExplained'
<1> SUFFICES ASSUME Inv, Typed, ClientWindowsExplained, [Next]_vars
             PROVE  ClientWindowsExplained'
  OBVIOUS
<1>1. ASSUME UNCHANGED client_windows, net \subseteq net',
             pending_requests' \subseteq pending_requests
      PROVE  ClientWindowsExplained'
  BY <1>1, ClientWindowsKept
<1>2. CASE R!CallNext
  <2>1. \/ \E c \in Calls, s \in Streams, p \in Paths : R!StartRequest(c, s, p)
        \/ \E m \in net : R!OnResponse(m)
        \/ /\ UNCHANGED client_windows /\ net \subseteq net'
           /\ pending_requests' \subseteq pending_requests
    BY <1>2, ZenonT(30) DEF R!CallNext, R!StartTooLarge, R!StartRefused, R!Return, R!Retry,
       R!RetryClosed, R!GiveUp, R!Cancel, R!Send, R!Unregister, R!transportVars
  <2> QED
    BY <1>1, <2>1, StartRequestClient, OnResponseClient
<1>3. CASE R!Close
  BY <1>1, <1>3 DEF R!Close, R!clientVars, R!Send
<1>4. CASE R!HandlerNext({"ok"})
  BY <1>1, <1>4, ZenonT(30) DEF R!HandlerNext, R!SessionExpires, R!DropExpired, R!HandleClose,
     R!ResendCached, R!DiscardAccepted, R!FailSplitting, R!AnswerNotFound, R!SpawnHandler,
     R!FinishRequest, R!FinishUnsendable, R!clientVars, R!Send, R!transportVars
<1>5. CASE ~ RequestStep
  <2>1. UNCHANGED <<client_windows, pending_requests>>
    BY <1>5, ZenonT(30) DEF Next, HandshakeStep, AdoptSession, ResumeSession, ProveSession,
       CleanupPass, R!CleanupPass, Restart, vars, requestVars, callVars, R!clientVars
  <2>2. net \subseteq net'
    BY <1>5 DEF Next, HandshakeStep, AdoptSession, ResumeSession, ProveSession,
       CleanupPass, R!CleanupPass, Restart, vars, H!Connect, H!ConnectReturns,
       H!ConnectTimesOut, H!OnChallenge, H!HandleLateProve, H!HandleHello,
       H!PendingExpires, H!TicketExpires, H!Send, H!transportVars, H!OnAck,
       H!HandleResume, H!HandleProve, H!Grant, H!Restart, transportVars
  <2> QED
    BY <1>1, <2>1, <2>2
<1> QED
  BY <1>2, <1>3, <1>4, <1>5 DEF RequestStep

-----------------------------------------------------------------------------
(***************************************************************************)
(* Theorems.                                                               *)
(***************************************************************************)

LEMMA InitWindows == Init => WindowInv
<1> SUFFICES ASSUME Init PROVE WindowInv
  OBVIOUS
<1>1. Typed /\ PacketsNumbered
  BY InitTyped DEF Init, R!LayerInit, PacketsNumbered, Sent
<1>2. /\ client_windows = R!NewStreamWindows
      /\ recv_windows = [sid \in SessionIds |-> R!NewStreamWindows]
  BY DEF Init, R!LayerInit
<1>3. \A s \in Streams : \A q \in 0 .. R!NewStreamWindows[s].highest :
        ~ Seen(R!NewStreamWindows[s], q)
  BY NewWindowsSeeNothing
<1> QED
  BY <1>1, <1>2, <1>3 DEF WindowInv, ServerWindowsExplained, ClientWindowsExplained

\* In every reachable state the numbers, answers and runs belong together, and the
\* windows of both ends account for what they refuse.
THEOREM Bookkept == Spec => [](Bookkeeping /\ HP!Inv)
<1>1. Inv /\ HP!Inv /\ WindowInv /\ [Next]_vars => WindowInv'
  BY NextTyped, NextNumbered, NextServerWindows, NextClientWindows DEF WindowInv, HP!Inv
<1> QED
  BY <1>1, InitWindows, Invariance, PTL DEF Spec, Bookkeeping

LEMMA SameTypes == HP!TypeOK <=> HS!TypeOK
BY DEF HP!TypeOK, HS!TypeOK, HP!CloseMessages, HS!CloseMessages, HP!CloseMessage,
   HS!CloseMessage, HP!HelloMessages, HS!HelloMessages, HP!NonceMessages,
   HS!NonceMessages, HP!AckMessages, HS!AckMessages, HP!Tickets, HS!Tickets,
   HP!Established, HS!Established, HP!PendingHandshakes, HS!PendingHandshakes,
   HP!Sides, HS!Sides

\* Every variable keeps its type, whatever the handshake, the requests and the
\* cleanup do to one another.
THEOREM TypeCorrect == Spec => []TypeOK
<1>1. Bookkeeping /\ HP!Inv => TypeOK
  <2> SUFFICES ASSUME Bookkeeping, HP!Inv PROVE TypeOK
    OBVIOUS
  <2>1. HP!TypeOK /\ Typed /\ lives \in [SessionIds -> Nat]
    BY DEF HP!Inv, Bookkeeping, WindowInv, Inv, Tables
  <2>2. HandshakeNet \subseteq CloseMessages \cup H!HelloMessages \cup H!NonceMessages
                                 \cup H!AckMessages
    BY <2>1 DEF HP!TypeOK, HP!CloseMessages, CloseMessages, HP!CloseMessage, CloseMessage,
       HP!HelloMessages, H!HelloMessages, HP!NonceMessages, H!NonceMessages,
       HP!AckMessages, H!AckMessages, HP!Tickets, H!Tickets
  <2>3. \A m \in net : m \in HandshakeNet \/ m \in LayerMessages
    BY <2>1 DEF Typed, HandshakeNet
  <2> QED
    BY <2>1, <2>2, <2>3, SameTypes DEF TypeOK, LayerMessages, Typed
<1> QED
  BY <1>1, Bookkept, PTL

\* The client refuses the answer to a call that still waits for one only if newer
\* answers passed it by, or another call's answer came under its number: as happens
\* when a new session starts its streams anew.
THEOREM RefusalHasReason == Spec => []RefusalExplained
<1>1. Bookkeeping => RefusalExplained
  <2> SUFFICES ASSUME Bookkeeping, NEW p \in pending_requests,
                      Seen(client_windows[packet[p.call].stream], packet[p.call].seq),
                      ~ Overtaken(client_windows[packet[p.call].stream], packet[p.call].seq)
               PROVE  \E r \in net : /\ r.type = "RESPONSE" /\ r.body.call # p.call
                                     /\ r.stream = packet[p.call].stream
                                     /\ r.seq = packet[p.call].seq
    BY DEF RefusalExplained, Overtaken
  <2> DEFINE m == packet[p.call]
  <2>1. p.call \in Calls /\ Sent(p.call)
    BY DEF Bookkeeping, Inv, AnswersGenuine, Numbered, WindowInv, PacketsNumbered
  <2>2. m.stream \in Streams /\ m.seq \in Nat
    BY <2>1, SentTypes DEF Bookkeeping, WindowInv, R!RequestMessages
  <2>3. client_windows[m.stream] \in Windows
    BY <2>2, SameWindow DEF Bookkeeping, WindowInv, Typed, R!LayerTypes
  <2>4. m.seq \in 0 .. client_windows[m.stream].highest
    BY <2>2, <2>3, SeenRange
  <2> QED
    BY <2>2, <2>4 DEF Bookkeeping, WindowInv, ClientWindowsExplained
<1> QED
  BY <1>1, Bookkept, PTL

\* The server refuses a request that neither a handler nor a 404 has met only if
\* another call carried its numbers, it came without a path, with one that does not
\* split or under another key, or newer requests of the stream passed it by.
THEOREM StarvationHasReason == Spec => []StarvationExplained
<1>1. Bookkeeping => StarvationExplained
  <2> SUFFICES ASSUME Bookkeeping, NEW c \in Calls, Sent(c), packet[c].sid \in sessions,
                      executions[c] = 0, answer[c] = "none",
                      Seen(recv_windows[packet[c].sid][packet[c].stream], packet[c].seq),
                      packet[c].path \notin {"empty", "malformed"},
                      packet[c].key = session_key[packet[c].sid],
                      ~ Overtaken(recv_windows[packet[c].sid][packet[c].stream], packet[c].seq)
               PROVE  Namesakes(c) # {c}
    BY DEF StarvationExplained, Overtaken
  <2> DEFINE m == packet[c]
             w == recv_windows[m.sid][m.stream]
  <2>1. m.sid \in SessionIds /\ m.stream \in Streams /\ m.seq \in Nat /\ m.rid = m.seq + 1
    BY SentTypes DEF Bookkeeping, WindowInv, R!RequestMessages, PacketsNumbered
  <2>2. w \in Windows
    BY <2>1 DEF Bookkeeping, Inv, Tables
  <2>3. m.seq \in 0 .. w.highest
    BY <2>1, <2>2, SeenRange
  <2>4. PICK n \in net : /\ n.type = "REQUEST" /\ Met(n)
                         /\ n.sid = m.sid /\ n.stream = m.stream /\ n.seq = m.seq
    BY <2>1, <2>3 DEF Bookkeeping, WindowInv, ServerWindowsExplained
  <2>5. n.call \in Calls /\ packet[n.call] = n /\ n.rid = m.rid
    BY <2>1, <2>4 DEF Bookkeeping, Inv, RequestsGenuine, Numbered
  <2>6. n.call # c
    BY <2>4, <2>5 DEF Met
  <2>7. n \in R!RequestMessages
    BY <2>4, TypedNet DEF Bookkeeping, WindowInv
  <2>8. Sent(n.call)
    BY <2>5, <2>7, FastUDPAssumption DEF Sent, R!RequestsAssumption, R!RequestMessages
  <2>9. n.call \in Namesakes(c)
    BY <2>4, <2>5, <2>8 DEF Namesakes, R!Slot
  <2> QED
    BY <2>6, <2>9
<1> QED
  BY <1>1, Bookkept, PTL
=============================================================================

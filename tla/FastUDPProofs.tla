----------------------------- MODULE FastUDPProofs -----------------------------
(***************************************************************************)
(* The composed system: no handler starts twice under one life's numbers,  *)
(* answers keep to their numbers through every change of session, and the  *)
(* whole implements Handshake, so that what HandshakeProofs shows of the   *)
(* handshake alone holds while requests run.                               *)
(***************************************************************************)
EXTENDS FastUDPInvariant, ReplayWindowProofs, TLAPS

HP == INSTANCE HandshakeProofs WITH net <- HandshakeNet

-----------------------------------------------------------------------------
(***************************************************************************)
(* The replay window, under the names Requests gives it.                   *)
(***************************************************************************)

LEMMA SameWindow ==
  /\ R!NewWindow = NewWindow /\ R!Windows = Windows
  /\ \A w, q : /\ R!Seen(w, q) <=> Seen(w, q)
               /\ R!Accepts(w, q) <=> Accepts(w, q)
               /\ R!Mark(w, q) = Mark(w, q)
BY DEF R!Windows, R!NewWindow, R!Bits, R!Seen, R!Accepts, R!Mark, R!Slide,
       Windows, NewWindow, Bits, Seen, Accepts, Mark, Slide

LEMMA Accepted ==
  ASSUME NEW w \in Windows, NEW q \in Nat, R!Accepts(w, q)
  PROVE  /\ ~ Seen(w, q) /\ Seen(R!Mark(w, q), q) /\ R!Mark(w, q) \in Windows
         /\ \A old \in Nat : Seen(w, old) => Seen(R!Mark(w, q), old)
<1>1. Accepts(w, q) /\ R!Mark(w, q) = Mark(w, q)
  BY SameWindow
<1>2. ~ Seen(w, q)
  BY <1>1 DEF Accepts
<1> QED
  BY <1>1, <1>2, MarkType, MarkSeen, MarkKeepsSeen

-----------------------------------------------------------------------------
(***************************************************************************)
(* Handshake sees every step as one of its own, or as none.                *)
(***************************************************************************)

LEMMA NetSplit ==
  ASSUME NEW msgs, net' = net \cup msgs, \A m \in msgs : m.type \notin HandshakeTypes
  PROVE  HandshakeNet' = HandshakeNet
BY DEF HandshakeNet

LEMMA NetJoin ==
  ASSUME NEW msg, net' = net \cup {msg}, msg.type \in HandshakeTypes
  PROVE  HandshakeNet' = HandshakeNet \cup {msg}
BY DEF HandshakeNet

LEMMA SameLimit == HS!BelowLimit <=> H!BelowLimit
BY DEF HS!BelowLimit, H!BelowLimit, HS!Cardinality, H!Cardinality

LEMMA SameView ==
  /\ HS!FreshClientNonces = H!FreshClientNonces
  /\ HS!FreshServerNonces = H!FreshServerNonces
  /\ HS!FreshSessionIds = H!FreshSessionIds
  /\ HS!Acks = H!Acks
BY DEF HandshakeNet, HandshakeTypes, HS!FreshClientNonces, HS!FreshServerNonces,
       HS!FreshSessionIds, HS!Acks, H!FreshClientNonces, H!FreshServerNonces,
       H!FreshSessionIds, H!Acks

LEMMA HandshakeStepRefines == ASSUME HandshakeStep PROVE HS!Next
<1> USE DEF H!Send, HS!Send, H!clientVars, HS!clientVars, H!transportVars,
            HS!transportVars
<1>1. ASSUME NEW cnonce \in H!FreshClientNonces, H!Connect(cnonce) PROVE HS!Next
  <2> DEFINE msg == [type |-> "HELLO", cnonce |-> cnonce, ticket |-> resumption_ticket]
  <2>1. HandshakeNet' = HandshakeNet \cup {msg}
    BY <1>1, NetJoin DEF H!Connect, HandshakeTypes
  <2>2. HS!Connect(cnonce)
    BY <1>1, <2>1 DEF H!Connect, HS!Connect
  <2> QED
    BY <2>2, SameView DEF HS!Next, HS!ClientNext
<1>2. ASSUME H!ConnectReturns \/ H!ConnectTimesOut PROVE HS!Next
  BY <1>2 DEF H!ConnectReturns, H!ConnectTimesOut, HS!ConnectReturns,
              HS!ConnectTimesOut, HS!Next, HS!ClientNext, HandshakeNet
<1>3. ASSUME NEW m \in net, H!OnChallenge(m) PROVE HS!Next
  <2> DEFINE msg == [type |-> "PROVE", cnonce |-> m.cnonce, snonce |-> m.snonce]
  <2>1. HandshakeNet' = HandshakeNet \cup {msg}
    BY <1>3, NetJoin DEF H!OnChallenge, HandshakeTypes
  <2>2. m \in HandshakeNet
    BY <1>3 DEF H!OnChallenge, HandshakeNet, HandshakeTypes
  <2>3. HS!OnChallenge(m)
    BY <1>3, <2>1, <2>2 DEF H!OnChallenge, HS!OnChallenge
  <2> QED
    BY <2>2, <2>3 DEF HS!Next, HS!ClientNext
<1>4. ASSUME NEW m \in net, H!HandleLateProve(m) PROVE HS!Next
  <2>1. m \in HandshakeNet
    BY <1>4 DEF H!HandleLateProve, HandshakeNet, HandshakeTypes
  <2>2. HS!HandleLateProve(m)
    BY <1>4, <2>1 DEF H!HandleLateProve, HS!HandleLateProve, HandshakeNet
  <2> QED
    BY <2>1, <2>2 DEF HS!Next, HS!ServerNext
<1>5. ASSUME NEW m \in net, NEW snonce \in H!FreshServerNonces, H!HandleHello(m, snonce)
      PROVE  HS!Next
  <2> DEFINE msg == [type |-> "CHALLENGE", cnonce |-> m.cnonce, snonce |-> snonce]
  <2>1. HandshakeNet' = HandshakeNet \cup {msg}
    <3>1. net' = net \cup {msg}
      BY <1>5 DEF H!HandleHello
    <3> QED
      BY <3>1, NetJoin DEF HandshakeTypes
  <2>2. m \in HandshakeNet
    BY <1>5 DEF H!HandleHello, HandshakeNet, HandshakeTypes
  <2>3. HS!HandleHello(m, snonce)
    BY <1>5, <2>1, <2>2, SameLimit DEF H!HandleHello, HS!HandleHello, H!Restores, HS!Restores
  <2> QED
    BY <2>2, <2>3, SameView DEF HS!Next, HS!ServerNext
<1>6. ASSUME NEW p \in pending, H!PendingExpires(p) PROVE HS!Next
  <2>1. HS!PendingExpires(p)
    BY <1>6 DEF H!PendingExpires, HS!PendingExpires, HandshakeNet
  <2> QED
    BY <2>1 DEF HS!Next, HS!ServerNext
<1>7. ASSUME NEW side \in H!Sides, NEW m \in H!Acks, H!TicketExpires(side, m.ticket)
      PROVE  HS!Next
  <2>1. HS!TicketExpires(side, m.ticket) /\ side \in HS!Sides
    BY <1>7 DEF H!TicketExpires, HS!TicketExpires, HandshakeNet, H!Sides, HS!Sides
  <2> QED
    BY <2>1, SameView DEF HS!Next
<1> QED
  BY <1>1, <1>2, <1>3, <1>4, <1>5, <1>6, <1>7 DEF HandshakeStep

LEMMA SessionStepRefines ==
  ASSUME NEW m \in net, AdoptSession(m) \/ ResumeSession(m) \/ ProveSession(m)
  PROVE  HS!Next
<1> USE DEF H!Send, HS!Send, H!clientVars, HS!clientVars
<1>1. CASE AdoptSession(m)
  <2>1. H!OnAck(m) /\ HandshakeNet' = HandshakeNet
    BY <1>1 DEF AdoptSession, H!OnAck, HandshakeNet
  <2>2. m \in HandshakeNet
    BY <2>1, SameView DEF H!OnAck, HS!Acks
  <2>3. HS!OnAck(m)
    BY <2>1, SameView DEF H!OnAck, HS!OnAck, H!AckSession, HS!AckSession,
                          H!DeriveKey, HS!DeriveKey
  <2> QED
    BY <2>2, <2>3 DEF HS!Next, HS!ClientNext
<1>2. CASE ResumeSession(m)
  <2>1. PICK snonce \in H!FreshServerNonces : H!HandleResume(m, snonce)
    BY <1>2 DEF ResumeSession
  <2> DEFINE msg == H!Ack(m.cnonce, snonce, m.ticket.sid, m.ticket.key)
  <2>2. HandshakeNet' = HandshakeNet \cup {msg}
    <3>1. net' = net \cup {msg}
      BY <2>1 DEF H!HandleResume, H!Grant
    <3> QED
      BY <3>1, NetJoin DEF H!Ack, HandshakeTypes
  <2>3. m \in HandshakeNet
    BY <2>1 DEF H!HandleResume, HandshakeNet, HandshakeTypes
  <2>4. HS!HandleResume(m, snonce)
    BY <2>1, <2>2, <2>3, SameLimit DEF H!HandleResume, HS!HandleResume, H!Grant, HS!Grant,
       H!Ack, HS!Ack, H!Restores, HS!Restores
  <2> QED
    BY <2>3, <2>4, SameView DEF HS!Next, HS!ServerNext
<1>3. CASE ProveSession(m)
  <2>1. PICK sid \in H!FreshSessionIds : H!HandleProve(m, sid)
    BY <1>3 DEF ProveSession
  <2> DEFINE msg == H!Ack(m.cnonce, m.snonce, sid, H!DeriveKey(m.cnonce, m.snonce))
  <2>2. HandshakeNet' = HandshakeNet \cup {msg}
    <3>1. net' = net \cup {msg}
      BY <2>1 DEF H!HandleProve, H!Grant
    <3> QED
      BY <3>1, NetJoin DEF H!Ack, HandshakeTypes
  <2>3. m \in HandshakeNet
    BY <2>1 DEF H!HandleProve, HandshakeNet, HandshakeTypes
  <2>4. HS!HandleProve(m, sid)
    BY <2>1, <2>2, <2>3 DEF H!HandleProve, HS!HandleProve, H!Grant, HS!Grant,
       H!Ack, HS!Ack, H!DeriveKey, HS!DeriveKey
  <2> QED
    BY <2>3, <2>4, SameView DEF HS!Next, HS!ServerNext
<1> QED
  BY <1>1, <1>2, <1>3

LEMMA Stutter ==
  ASSUME UNCHANGED <<transport, session, sessions, session_key, expired,
                     handshakeVars>>,
         HandshakeNet' = HandshakeNet
  PROVE  UNCHANGED HS!vars
BY DEF HS!vars, HS!transportVars, HS!clientVars, handshakeVars, connectVars

\* A call of request() sends nothing but its own REQUEST.
LEMMA CallsSendRequests ==
  ASSUME Inv, R!CallNext
  PROVE  /\ UNCHANGED <<transport, session, sessions, session_key, expired>>
         /\ HandshakeNet' = HandshakeNet
<1> USE DEF R!transportVars
<1>1. ASSUME NEW c \in Calls, NEW s \in Streams, NEW p \in Paths, R!StartRequest(c, s, p)
      PROVE  /\ UNCHANGED <<transport, session, sessions, session_key, expired>>
             /\ HandshakeNet' = HandshakeNet
  <2> DEFINE pkt == R!RequestPacket(c, s, p)
  <2>1. net' = net \/ net' = net \cup {pkt}
    BY <1>1 DEF R!StartRequest, R!Send
  <2>2. HandshakeNet' = HandshakeNet
    BY <2>1, NetSplit DEF R!RequestPacket, HandshakeTypes, HandshakeNet
  <2> QED
    BY <1>1, <2>2 DEF R!StartRequest
<1>2. ASSUME NEW c \in Calls, R!Retry(c)
      PROVE  /\ UNCHANGED <<transport, session, sessions, session_key, expired>>
             /\ HandshakeNet' = HandshakeNet
  <2>1. net' = net \cup {packet[c]} /\ packet[c] \in net
    BY <1>2 DEF R!Retry, R!Send, Inv, RequestsGenuine
  <2> QED
    BY <1>2, <2>1 DEF R!Retry, HandshakeNet
<1>3. ASSUME NEW c \in Calls,
             \/ \E s \in Streams : R!StartTooLarge(c, s) \/ R!StartRefused(c, s)
             \/ R!Return(c) \/ R!RetryClosed(c) \/ R!GiveUp(c) \/ R!Cancel(c)
      PROVE  UNCHANGED <<net, transport, session, sessions, session_key, expired>>
  BY <1>3 DEF R!StartTooLarge, R!StartRefused, R!Return, R!RetryClosed, R!GiveUp,
              R!Cancel
<1>4. ASSUME NEW m \in net, R!OnResponse(m)
      PROVE  UNCHANGED <<net, transport, session, sessions, session_key, expired>>
  BY <1>4 DEF R!OnResponse
<1> QED
  BY <1>1, <1>2, <1>3, <1>4 DEF R!CallNext, HandshakeNet

\* A handler's step ends a session as Handshake would, or leaves sessions alone.
LEMMA HandlersRefine ==
  ASSUME Inv, R!HandlerNext({"ok"}), UNCHANGED handshakeVars
  PROVE  [HS!Next]_HS!vars
<1> USE DEF R!transportVars, handshakeVars, connectVars, HS!clientVars
<1>1. ASSUME NEW sid \in SessionIds, R!SessionExpires(sid) PROVE HS!Next
  <2>1. HS!SessionExpires(sid)
    BY <1>1 DEF R!SessionExpires, HS!SessionExpires, HandshakeNet
  <2> QED
    BY <2>1 DEF HS!Next, HS!ServerNext
<1>2. ASSUME NEW m \in net, R!DropExpired(m) \/ R!HandleClose(m) PROVE HS!Next
  <2>1. m.sid \in sessions /\ m.sid \in SessionIds
    BY <1>2 DEF R!DropExpired, R!HandleClose, R!Received, Inv, Tables
  <2>2. CloseMessage(m.sid) \in HandshakeNet \/ m.sid \in expired
    BY <1>2 DEF R!DropExpired, R!HandleClose, R!Received, Inv, ClosesGenuine,
                HandshakeNet, HandshakeTypes
  <2>3. HS!CloseMessage(m.sid) = CloseMessage(m.sid)
    BY DEF HS!CloseMessage, CloseMessage
  <2>4. HS!DropSession(m.sid)
    BY <1>2, <2>1, <2>2, <2>3 DEF R!DropExpired, R!HandleClose, R!Forget,
       HS!DropSession, HandshakeNet
  <2> QED
    BY <2>1, <2>4 DEF HS!Next, HS!ServerNext
<1>3. ASSUME NEW m \in net,
             R!ResendCached(m) \/ R!DiscardAccepted(m) \/ R!FailSplitting(m)
               \/ R!AnswerNotFound(m) \/ R!SpawnHandler(m)
      PROVE  UNCHANGED HS!vars
  <2>2. HandshakeNet' = HandshakeNet
    <3>1. CASE R!ResendCached(m)
      BY <3>1, NetSplit DEF R!ResendCached, R!Send, R!Cached, Inv, AnswersGenuine, HandshakeTypes
    <3>2. CASE R!DiscardAccepted(m)
      BY <3>2 DEF R!DiscardAccepted, HandshakeNet
    <3>3. CASE R!AnswerNotFound(m)
      <4> DEFINE msgs == {R!FrameAck(m), R!Response(m, "notfound")}
      <4>1. \A r \in msgs : r.type \notin HandshakeTypes
        BY DEF R!FrameAck, R!Response, HandshakeTypes
      <4>2. net' = net \cup msgs
        BY <3>3 DEF R!AnswerNotFound, R!Send
      <4> QED
        <5> HIDE DEF msgs
        <5> QED
          BY <4>1, <4>2, NetSplit
    <3>4. CASE R!SpawnHandler(m) \/ R!FailSplitting(m)
      <4> DEFINE msgs == {R!FrameAck(m)}
      <4>1. \A r \in msgs : r.type \notin HandshakeTypes
        BY DEF R!FrameAck, HandshakeTypes
      <4>2. net' = net \cup msgs
        BY <3>4 DEF R!SpawnHandler, R!FailSplitting, R!Send
      <4> QED
        <5> HIDE DEF msgs
        <5> QED
          BY <4>1, <4>2, NetSplit
    <3> QED
      BY <1>3, <3>1, <3>2, <3>3, <3>4
  <2>3. UNCHANGED <<transport, session, sessions, session_key, expired>>
    BY <1>3 DEF R!ResendCached, R!DiscardAccepted, R!FailSplitting, R!AnswerNotFound,
       R!SpawnHandler
  <2> QED
    BY <2>2, <2>3, Stutter
<1>4. ASSUME NEW t \in tasks, R!FinishRequest(t, "ok") \/ R!FinishUnsendable(t)
      PROVE  UNCHANGED HS!vars
  <2>1. HandshakeNet' = HandshakeNet
    BY <1>4, NetSplit DEF R!FinishRequest, R!FinishUnsendable, R!Send, R!Response,
       HandshakeTypes, HandshakeNet
  <2>2. UNCHANGED <<transport, session, sessions, session_key, expired>>
    BY <1>4 DEF R!FinishRequest, R!FinishUnsendable
  <2> QED
    BY <2>1, <2>2, Stutter
<1> QED
  BY <1>1, <1>2, <1>3, <1>4 DEF R!HandlerNext

LEMMA RequestStepRefines == ASSUME Inv, RequestStep PROVE [HS!Next]_HS!vars
<1>1. CASE R!CallNext
  BY <1>1, CallsSendRequests, Stutter DEF RequestStep
<1>2. CASE R!HandlerNext({"ok"})
  BY <1>2, HandlersRefine DEF RequestStep
<1>3. CASE R!Close
  <2>1. HS!Close
    <3>1. CASE session = NoSession
      BY <1>3, <3>1 DEF R!Close, HS!Close, HandshakeNet, RequestStep, handshakeVars,
         connectVars, HS!clientVars
    <3>2. CASE session # NoSession
      <4>1. R!CloseMessage(session.id) = HS!CloseMessage(session.id)
        BY DEF R!CloseMessage, HS!CloseMessage
      <4>2. net' = net \cup {R!CloseMessage(session.id)}
        BY <1>3, <3>2 DEF R!Close, R!Send
      <4>3. HandshakeNet' = HandshakeNet \cup {R!CloseMessage(session.id)}
        BY <4>2, NetJoin DEF R!CloseMessage, HandshakeTypes
      <4> QED
        BY <1>3, <3>2, <4>1, <4>3 DEF R!Close, HS!Close, HS!Send, RequestStep,
           handshakeVars, connectVars, HS!clientVars
    <3> QED
      BY <3>1, <3>2
  <2> QED
    BY <2>1 DEF HS!Next, HS!ClientNext
<1> QED
  BY <1>1, <1>2, <1>3 DEF RequestStep

LEMMA StepRefines == Inv /\ [Next]_vars => [HS!Next]_HS!vars
<1> SUFFICES ASSUME Inv, [Next]_vars PROVE [HS!Next]_HS!vars
  OBVIOUS
<1>1. CASE RequestStep
  BY <1>1, RequestStepRefines
<1>2. CASE HandshakeStep
  BY <1>2, HandshakeStepRefines
<1>3. ASSUME NEW m \in net, AdoptSession(m) \/ ResumeSession(m) \/ ProveSession(m)
      PROVE  HS!Next
  BY <1>3, SessionStepRefines
<1>4. ASSUME NEW staleCache, NEW staleInflight, CleanupPass(staleCache, staleInflight)
      PROVE  HS!Next
  <2>1. sessions' = sessions \ expired /\ expired' = {}
    BY <1>4 DEF CleanupPass, R!CleanupPass, R!Forget
  <2>2. UNCHANGED <<net, transport, session, session_key>>
    BY <1>4 DEF CleanupPass, R!CleanupPass
  <2>3. HS!CleanupPass
    BY <1>4, <2>1, <2>2 DEF CleanupPass, HS!CleanupPass, HandshakeNet, connectVars,
       HS!clientVars
  <2> QED
    BY <2>3 DEF HS!Next, HS!ServerNext
<1>5. CASE Restart
  <2>1. HS!Restart
    BY <1>5 DEF Restart, H!Restart, HS!Restart, HandshakeNet, H!clientVars, HS!clientVars
  <2> QED
    BY <2>1 DEF HS!Next, HS!ServerNext
<1>6. CASE UNCHANGED vars
  BY <1>6, Stutter DEF vars, transportVars, HandshakeNet
<1> QED
  BY <1>1, <1>2, <1>3, <1>4, <1>5, <1>6 DEF Next

LEMMA InitRefines == Init => HS!Init
BY DEF Init, H!Init, HS!Init, H!Sides, HS!Sides, HandshakeNet

-----------------------------------------------------------------------------
(***************************************************************************)
(* The invariant is kept.                                                  *)
(***************************************************************************)

LEMMA InitInv == Init => Inv
<1> SUFFICES ASSUME Init PROVE Inv
  OBVIOUS
<1> USE DEF Init, H!Init, R!LayerInit
<1>1. Tables
  <2>1. R!NewStream \in R!StreamStates /\ R!NewStreamWindows \in [Streams -> Windows]
    BY SameWindow, NewWindowFacts DEF R!NewStream, R!StreamStates, R!NewStreamWindows
  <2> QED
    BY <2>1 DEF Tables, R!NewStream
<1>2. RequestsGenuine /\ AnswersGenuine /\ FuturesGenuine /\ RunsMarked /\ ClosesGenuine
  BY DEF RequestsGenuine, AnswersGenuine, FuturesGenuine, RunsMarked, ClosesGenuine
<1> QED
  BY <1>1, <1>2 DEF Inv

\* A run stays marked while its session's life lasts, for windows only fill up;
\* when the session's id enters the table again, a new life begins.
LEMMA RunsKept ==
  ASSUME Inv, runs' = runs, lives' \in [SessionIds -> Nat],
         \A sid \in SessionIds : lives[sid] <= lives'[sid],
         \A sid \in sessions' \cap SessionIds : lives'[sid] = lives[sid] =>
           /\ sid \in sessions
           /\ \A s \in Streams, q \in Nat :
                Seen(recv_windows[sid][s], q) => Seen(recv_windows'[sid][s], q)
  PROVE  RunsMarked'
<1> SUFFICES ASSUME NEW x \in runs
             PROVE  /\ x.sid \in SessionIds /\ x.stream \in Streams
                    /\ x.rid - 1 \in Nat /\ x.life \in Nat /\ x.life <= lives'[x.sid]
                    /\ (x.sid \in sessions' /\ x.life = lives'[x.sid]) =>
                         Seen(recv_windows'[x.sid][x.stream], x.rid - 1)
  BY DEF RunsMarked
<1>1. /\ x.sid \in SessionIds /\ x.stream \in Streams
      /\ x.rid - 1 \in Nat /\ x.life \in Nat /\ x.life <= lives[x.sid]
      /\ (x.sid \in sessions /\ x.life = lives[x.sid]) =>
           Seen(recv_windows[x.sid][x.stream], x.rid - 1)
  BY DEF Inv, RunsMarked
<1>2. lives[x.sid] \in Nat /\ lives'[x.sid] \in Nat /\ lives[x.sid] <= lives'[x.sid]
  BY <1>1 DEF Inv, Tables
<1>3. ASSUME x.sid \in sessions', x.life = lives'[x.sid]
      PROVE  Seen(recv_windows'[x.sid][x.stream], x.rid - 1)
  BY <1>1, <1>2, <1>3
<1> QED
  BY <1>1, <1>2, <1>3

\* What the server sends, keeps and starts is about requests in the network.
LEMMA MessagesKept ==
  ASSUME Inv, UNCHANGED <<phase, packet, pending_requests, future>>,
         net \subseteq net',
         \A m \in net' \ net :
           /\ m.type # "REQUEST"
           /\ m.type = "RESPONSE" => AnswersItsCall(m)
           /\ m.type = "CLOSE" => m = CloseMessage(m.sid),
         \A r \in response_cache' \ response_cache :
           r.type = "RESPONSE" /\ AnswersItsCall(r),
         tasks' \subseteq [req : net, attached : BOOLEAN],
         \A t \in tasks' : t.req.type = "REQUEST"
  PROVE  RequestsGenuine' /\ AnswersGenuine' /\ FuturesGenuine' /\ ClosesGenuine'
<1> USE DEF Inv
<1>1. \A c : Numbered(c)' <=> Numbered(c)
  BY DEF Numbered
<1>2. \A r : AnswersItsCall(r)' <=> AnswersItsCall(r)
  BY <1>1 DEF AnswersItsCall, R!SameRequest
<1>3. RequestsGenuine'
  BY <1>1 DEF RequestsGenuine
<1>4. ClosesGenuine'
  BY DEF ClosesGenuine
<1>5. AnswersGenuine'
  <2>1. \A r \in (net \cup response_cache)' : r.type = "RESPONSE" => AnswersItsCall(r)'
    BY <1>2 DEF AnswersGenuine
  <2>2. \A r \in response_cache' : r.type = "RESPONSE"
    BY DEF AnswersGenuine
  <2>3. \A p \in pending_requests' :
          Numbered(p.call)' /\ R!SameRequest(packet'[p.call], p)
    BY <1>1 DEF AnswersGenuine
  <2> QED
    BY <2>1, <2>2, <2>3 DEF AnswersGenuine, Numbered
<1>6. FuturesGenuine'
  BY <1>1 DEF FuturesGenuine, R!SameRequest
<1> QED
  BY <1>3, <1>4, <1>5, <1>6

\* A call goes on to another phase, and may leave the pending table.
LEMMA CallMoves ==
  ASSUME Inv, NEW c \in Calls, NEW next, next # "idle",
         next = "waiting" => phase[c] = "waiting",
         phase' = [phase EXCEPT ![c] = next],
         pending_requests' \subseteq pending_requests,
         UNCHANGED <<net, packet, future, response_cache, tasks>>
  PROVE  RequestsGenuine' /\ AnswersGenuine' /\ FuturesGenuine' /\ ClosesGenuine'
<1> USE DEF Inv
<1>1. \A d \in Calls : /\ phase'[d] = "waiting" => phase[d] = "waiting"
                       /\ phase[d] # "idle" => phase'[d] # "idle"
  BY DEF Tables
<1>2. \A d : Numbered(d) => Numbered(d)'
  BY <1>1 DEF Numbered
<1>3. RequestsGenuine'
  BY <1>1, <1>2 DEF RequestsGenuine
<1>4. ClosesGenuine'
  BY DEF ClosesGenuine
<1>5. AnswersGenuine'
  <2>1. \A r \in (net \cup response_cache)' : r.type = "RESPONSE" => AnswersItsCall(r)'
    BY <1>2 DEF AnswersGenuine, AnswersItsCall, R!SameRequest
  <2>2. /\ \A r \in response_cache' : r.type = "RESPONSE"
        /\ tasks' \subseteq [req : net', attached : BOOLEAN]
        /\ \A t \in tasks' : t.req.type = "REQUEST"
    BY DEF AnswersGenuine
  <2>3. \A p \in pending_requests' :
          Numbered(p.call)' /\ R!SameRequest(packet'[p.call], p)
    BY <1>2 DEF AnswersGenuine
  <2> QED
    BY <2>1, <2>2, <2>3 DEF AnswersGenuine, R!SameRequest
<1>6. FuturesGenuine'
  BY <1>2 DEF FuturesGenuine, R!SameRequest
<1> QED
  BY <1>3, <1>4, <1>5, <1>6

LEMMA RunsUntouched ==
  ASSUME Inv, UNCHANGED <<runs, lives, sessions, recv_windows>>
  PROVE  RunsMarked'
BY RunsKept DEF Inv, Tables

LEMMA NumbersTaken ==
  ASSUME Tables, NEW s \in Streams, R!TakeNumbers(s)
  PROVE  /\ streams' \in [Streams -> R!StreamStates]
         /\ \A x \in Streams : streams'[x].next_request_id = streams'[x].next_seq + 1
BY DEF Tables, R!TakeNumbers, R!StreamStates

LEMMA StartRequestInv ==
  ASSUME Inv, NEW c \in Calls, NEW s \in Streams, NEW p \in Paths,
         R!StartRequest(c, s, p), UNCHANGED <<serverVars, lives, runs>>
  PROVE  Inv'
<1> DEFINE pkt == R!RequestPacket(c, s, p)
<1> USE DEF Inv, serverVars
<1>1. /\ phase[c] = "idle" /\ R!TakeNumbers(s)
      /\ packet' = [packet EXCEPT ![c] = pkt]
      /\ pending_requests' = R!Unregister(pkt) \cup {R!Entry(pkt)}
      /\ \/ phase' = [phase EXCEPT ![c] = "waiting"] /\ net' = net \cup {pkt}
         \/ phase' = [phase EXCEPT ![c] = "closed"] /\ net' = net
      /\ UNCHANGED <<sessions, expired, future>>
  BY DEF R!StartRequest, R!Send
<1>2. /\ pkt.type = "REQUEST" /\ pkt.call = c /\ pkt.stream = s
      /\ pkt.seq = streams[s].next_seq /\ pkt.rid = pkt.seq + 1 /\ pkt.seq \in Nat
  BY DEF R!RequestPacket, Tables, R!StreamStates
<1> HIDE DEF pkt
<1>3. /\ packet'[c] = pkt /\ phase'[c] # "idle"
      /\ \A d \in Calls : d # c => packet'[d] = packet[d] /\ phase'[d] = phase[d]
  BY <1>1 DEF Tables
<1>4. \A d : Numbered(d) => Numbered(d)' /\ packet'[d] = packet[d]
  BY <1>1, <1>3 DEF Numbered
<1>5. Tables'
  BY <1>1, NumbersTaken DEF Tables
<1>6. RequestsGenuine'
  <2>1. \A d \in Calls : phase'[d] = "waiting" =>
          packet'[d] \in net' /\ packet'[d].type = "REQUEST"
    BY <1>1, <1>2, <1>3 DEF RequestsGenuine, Tables
  <2>2. ASSUME NEW m \in net', m.type = "REQUEST"
        PROVE  /\ Numbered(m.call)' /\ packet'[m.call] = m
               /\ m.stream \in Streams /\ m.seq \in Nat /\ m.rid = m.seq + 1
    <3>1. CASE m \in net
      BY <1>4, <2>2, <3>1 DEF RequestsGenuine
    <3>2. CASE m = pkt
      BY <1>2, <1>3, <3>2 DEF Numbered
    <3> QED
      BY <1>1, <3>1, <3>2
  <2> QED
    BY <2>1, <2>2 DEF RequestsGenuine
<1>7. AnswersGenuine'
  <2>1. \A r \in (net \cup response_cache)' : r.type = "RESPONSE" => AnswersItsCall(r)'
    BY <1>1, <1>2, <1>4 DEF AnswersGenuine, AnswersItsCall
  <2>2. /\ \A r \in response_cache' : r.type = "RESPONSE"
        /\ tasks' \subseteq [req : net', attached : BOOLEAN]
        /\ \A t \in tasks' : t.req.type = "REQUEST"
    BY <1>1 DEF AnswersGenuine
  <2>3. \A q \in pending_requests' :
          Numbered(q.call)' /\ R!SameRequest(packet'[q.call], q)
    <3>1. R!Entry(pkt).call = c /\ R!SameRequest(pkt, R!Entry(pkt)) /\ Numbered(c)'
      BY <1>2, <1>3 DEF R!Entry, R!SameRequest, Numbered
    <3>2. \A q \in pending_requests :
            Numbered(q.call)' /\ R!SameRequest(packet'[q.call], q)
      BY <1>4 DEF AnswersGenuine
    <3> QED
      BY <1>1, <1>3, <3>1, <3>2 DEF R!Unregister
  <2> QED
    BY <2>1, <2>2, <2>3 DEF AnswersGenuine, R!SameRequest
<1>8. FuturesGenuine'
  BY <1>1, <1>4 DEF FuturesGenuine, R!SameRequest
<1>9. ClosesGenuine'
  BY <1>1, <1>2 DEF ClosesGenuine
<1>10. RunsMarked'
  BY <1>1, RunsUntouched
<1> QED
  BY <1>5, <1>6, <1>7, <1>8, <1>9, <1>10

LEMMA CallEndsInv ==
  ASSUME Inv, NEW c \in Calls, UNCHANGED <<serverVars, lives, runs>>,
         \/ \E s \in Streams : R!StartTooLarge(c, s) \/ R!StartRefused(c, s)
         \/ R!Return(c) \/ R!Retry(c) \/ R!RetryClosed(c) \/ R!GiveUp(c)
         \/ R!Cancel(c)
  PROVE  Inv'
<1> USE DEF Inv, serverVars, R!transportVars
<1>1. UNCHANGED <<net, packet, future, sessions, expired>>
  <2>1. CASE R!Retry(c)
    BY <2>1 DEF R!Retry, R!Send, RequestsGenuine
  <2> QED
    BY <2>1 DEF R!StartTooLarge, R!StartRefused, R!Return, R!RetryClosed, R!GiveUp,
                R!Cancel
<1>2. \/ streams' = streams
      \/ \E s \in Streams : R!TakeNumbers(s)
  BY DEF R!StartTooLarge, R!StartRefused, R!Return, R!Retry, R!RetryClosed, R!GiveUp,
         R!Cancel
<1>3. pending_requests' \subseteq pending_requests
  BY DEF R!StartTooLarge, R!StartRefused, R!Return, R!Retry, R!RetryClosed, R!GiveUp,
         R!Cancel, R!Unregister
<1>4. PICK next : /\ phase' = [phase EXCEPT ![c] = next] /\ next # "idle"
                  /\ next = "waiting" => phase[c] = "waiting"
  <2>1. CASE R!Retry(c)
    <3>1. phase' = [phase EXCEPT ![c] = phase[c]] \/ phase' = [phase EXCEPT ![c] = R!Outcome(c)]
      BY <2>1 DEF R!Retry, Tables
    <3> QED
      BY <2>1, <3>1 DEF R!Retry, R!Outcome
  <2>2. CASE R!Return(c)
    BY <2>2 DEF R!Return, R!Outcome
  <2> QED
    BY <2>1, <2>2 DEF R!StartTooLarge, R!StartRefused, R!RetryClosed, R!GiveUp, R!Cancel
<1>5. Tables'
  BY <1>1, <1>2, <1>4, NumbersTaken DEF Tables
<1>6. RequestsGenuine' /\ AnswersGenuine' /\ FuturesGenuine' /\ ClosesGenuine'
  BY <1>1, <1>3, <1>4, CallMoves
<1>7. RunsMarked'
  BY <1>1, RunsUntouched
<1> QED
  BY <1>5, <1>6, <1>7

LEMMA OnResponseInv ==
  ASSUME Inv, NEW m \in net, R!OnResponse(m), UNCHANGED <<serverVars, lives, runs>>
  PROVE  Inv'
<1> USE DEF Inv, serverVars, R!transportVars, R!OnResponse
<1>1. UNCHANGED <<net, sessions, expired, streams, phase, packet>>
  OBVIOUS
<1>2. Tables' /\ RequestsGenuine' /\ ClosesGenuine'
  BY <1>1 DEF Tables, RequestsGenuine, ClosesGenuine, Numbered
<1>3. AnswersGenuine'
  <2>1. pending_requests' \subseteq pending_requests
    BY DEF R!Unregister
  <2> QED
    BY <1>1, <2>1 DEF AnswersGenuine, AnswersItsCall, Numbered, R!SameRequest
<1>4. FuturesGenuine'
  <2> SUFFICES ASSUME NEW c \in Calls, future'[c] \notin {NoReply, Undecryptable}
               PROVE  /\ Numbered(c) /\ Numbered(future'[c].call)
                      /\ R!SameRequest(packet[c], packet[future'[c].call])
    BY <1>1 DEF FuturesGenuine, Numbered, R!SameRequest
  <2>1. CASE future'[c] = future[c]
    BY <2>1 DEF FuturesGenuine
  <2>2. CASE future'[c] # future[c]
    <3>1. /\ future'[c] = m.body
          /\ \E p \in pending_requests : R!SameRequest(p, m) /\ p.call = c
      BY <2>2
    <3>2. Numbered(c) /\ R!SameRequest(packet[c], m)
      BY <3>1 DEF AnswersGenuine, R!SameRequest
    <3>3. AnswersItsCall(m)
      BY DEF AnswersGenuine
    <3> QED
      BY <3>1, <3>2, <3>3 DEF AnswersItsCall, R!SameRequest
  <2> QED
    BY <2>1, <2>2
<1>5. RunsMarked'
  BY <1>1, RunsUntouched
<1> QED
  BY <1>2, <1>3, <1>4, <1>5

LEMMA CallInv ==
  ASSUME Inv, R!CallNext, UNCHANGED <<lives, runs>>
  PROVE  Inv'
<1>1. UNCHANGED serverVars
  BY ZenonT(30) DEF R!CallNext, R!StartRequest, R!StartTooLarge, R!StartRefused, R!Return, R!Retry,
         R!RetryClosed, R!GiveUp, R!Cancel, R!OnResponse, serverVars, R!serverVars
<1> QED
  BY <1>1, StartRequestInv, CallEndsInv, OnResponseInv DEF R!CallNext

callState == <<phase, packet, pending_requests, future, streams>>

\* SessionStates leave the table.
LEMMA ForgetInv ==
  ASSUME Inv, NEW gone, R!Forget(gone), response_cache' \subseteq response_cache,
         UNCHANGED <<net, callState, executions, lives, runs>>
  PROVE  Inv'
<1> USE DEF Inv, callState, R!Forget
<1>1. Tables'
  <2>1. R!NewStreamWindows \in [Streams -> Windows]
    BY SameWindow, NewWindowFacts DEF R!NewStreamWindows
  <2> QED
    BY <2>1 DEF Tables
<1>2. RequestsGenuine' /\ AnswersGenuine' /\ FuturesGenuine' /\ ClosesGenuine'
  <2>1. \A t \in tasks : /\ [t EXCEPT !.attached = FALSE] \in [req : net, attached : BOOLEAN]
                         /\ [t EXCEPT !.attached = FALSE].req = t.req
    BY DEF AnswersGenuine
  <2>2. /\ tasks' \subseteq [req : net, attached : BOOLEAN]
        /\ \A t \in tasks' : t.req.type = "REQUEST"
    BY <2>1 DEF AnswersGenuine
  <2> QED
    BY <2>2, MessagesKept
<1>3. RunsMarked'
  <2>1. \A sid \in sessions' \cap SessionIds :
          sid \in sessions /\ recv_windows'[sid] = recv_windows[sid]
    OBVIOUS
  <2> QED
    BY <2>1, RunsKept DEF Tables
<1> QED
  BY <1>1, <1>2, <1>3

\* A request that the server takes has its numbers, and its number was new.
LEMMA AcceptRequestFacts ==
  ASSUME Inv, NEW m \in net, R!AcceptRequest(m)
  PROVE  /\ m.type = "REQUEST" /\ m.sid \in sessions /\ m.sid \in SessionIds
         /\ m.call \in Calls /\ Numbered(m.call) /\ packet[m.call] = m
         /\ m.stream \in Streams /\ m.seq \in Nat /\ m.rid = m.seq + 1
         /\ ~ Seen(recv_windows[m.sid][m.stream], m.seq)
         /\ Seen(recv_windows'[m.sid][m.stream], m.seq)
         /\ recv_windows' \in [SessionIds -> [Streams -> Windows]]
         /\ \A sid \in SessionIds, s \in Streams, q \in Nat :
              Seen(recv_windows[sid][s], q) => Seen(recv_windows'[sid][s], q)
<1>1. /\ m.type = "REQUEST" /\ m.sid \in sessions /\ m.sid \in SessionIds
      /\ m.call \in Calls /\ Numbered(m.call) /\ packet[m.call] = m
      /\ m.stream \in Streams /\ m.seq \in Nat /\ m.rid = m.seq + 1
  BY DEF R!AcceptRequest, R!Received, Inv, Tables, RequestsGenuine, Numbered
<1> DEFINE w == recv_windows[m.sid][m.stream]
<1>2. /\ recv_windows \in [SessionIds -> [Streams -> Windows]] /\ w \in Windows
      /\ R!Accepts(w, m.seq)
      /\ recv_windows' = [recv_windows EXCEPT ![m.sid][m.stream] = R!Mark(w, m.seq)]
  BY <1>1 DEF R!AcceptRequest, Inv, Tables
<1>3. /\ ~ Seen(w, m.seq) /\ Seen(R!Mark(w, m.seq), m.seq)
      /\ R!Mark(w, m.seq) \in Windows
      /\ \A old \in Nat : Seen(w, old) => Seen(R!Mark(w, m.seq), old)
  BY <1>1, <1>2, Accepted
<1>4. /\ recv_windows'[m.sid][m.stream] = R!Mark(w, m.seq)
      /\ \A sid \in SessionIds, s \in Streams :
           \/ recv_windows'[sid][s] = recv_windows[sid][s]
           \/ sid = m.sid /\ s = m.stream
      /\ recv_windows' \in [SessionIds -> [Streams -> Windows]]
  BY <1>1, <1>2, <1>3
<1> HIDE DEF w
<1>5. ASSUME NEW sid \in SessionIds, NEW s \in Streams, NEW q \in Nat,
             Seen(recv_windows[sid][s], q)
      PROVE  Seen(recv_windows'[sid][s], q)
  <2>1. CASE recv_windows'[sid][s] = recv_windows[sid][s]
    BY <1>5, <2>1
  <2>2. CASE sid = m.sid /\ s = m.stream
    BY <1>3, <1>4, <1>5, <2>2 DEF w
  <2> QED
    BY <1>4, <2>1, <2>2
<1> QED
  BY <1>1, <1>3, <1>4, <1>5 DEF w

\* The answer made for a request in the network has its stream and request id.
LEMMA ResponseFacts ==
  ASSUME Inv, NEW m \in net, m.type = "REQUEST", NEW status
  PROVE  R!Response(m, status).type = "RESPONSE" /\ AnswersItsCall(R!Response(m, status))
BY DEF Inv, RequestsGenuine, R!Response, AnswersItsCall, R!SameRequest

\* The call whose handler SpawnHandler starts, and the run it is, which is new.
LEMMA SpawnFacts ==
  ASSUME Inv, NEW m \in net, R!SpawnHandler(m)
  PROVE  /\ executions' # executions /\ executions' \in [Calls -> Nat]
         /\ Run(Started) = [sid |-> m.sid, stream |-> m.stream, rid |-> m.rid,
                            life |-> lives[m.sid]]
         /\ Run(Started) \notin runs
<1>1. R!AcceptRequest(m)
  BY DEF R!SpawnHandler
<1>2. Started = m.call /\ executions' # executions /\ executions' \in [Calls -> Nat]
  <2>1. executions' = [executions EXCEPT ![m.call] = executions[m.call] + 1]
    BY DEF R!SpawnHandler
  <2>2. /\ executions \in [Calls -> Nat] /\ m.call \in Calls
        /\ executions'[m.call] # executions[m.call]
        /\ \A c \in Calls : c # m.call => executions'[c] = executions[c]
    BY <1>1, <2>1, AcceptRequestFacts DEF Inv, Tables
  <2>3. \A c \in Calls : executions'[c] # executions[c] <=> c = m.call
    BY <2>2
  <2>4. Started = CHOOSE c \in Calls : c = m.call
    BY <2>3 DEF Started
  <2> QED
    BY <2>1, <2>2, <2>4
<1>3. Run(Started) = [sid |-> m.sid, stream |-> m.stream, rid |-> m.rid,
                      life |-> lives[m.sid]]
  BY <1>1, <1>2, AcceptRequestFacts DEF Run
<1>4. Run(Started) \notin runs
  <2> DEFINE r == [sid |-> m.sid, stream |-> m.stream, rid |-> m.rid,
                   life |-> lives[m.sid]]
  <2>1. /\ m.sid \in sessions /\ ~ Seen(recv_windows[m.sid][m.stream], m.seq)
        /\ m.rid - 1 = m.seq
    <3>1. m.seq \in Nat /\ m.rid = m.seq + 1
      BY <1>1, AcceptRequestFacts
    <3>2. m.rid - 1 = m.seq
      BY <3>1
    <3> QED
      BY <1>1, <3>2, AcceptRequestFacts
  <2>2. r.sid = m.sid /\ r.stream = m.stream /\ r.rid = m.rid /\ r.life = lives[m.sid]
    OBVIOUS
  <2>3. \A x \in runs : (x.sid \in sessions /\ x.life = lives[x.sid]) =>
          Seen(recv_windows[x.sid][x.stream], x.rid - 1)
    BY DEF Inv, RunsMarked
  <2> HIDE DEF r
  <2>4. r \notin runs
    <3> SUFFICES ASSUME r \in runs PROVE FALSE
      OBVIOUS
    <3>1. Seen(recv_windows[r.sid][r.stream], r.rid - 1)
      BY <2>1, <2>2, <2>3
    <3> QED
      BY <2>1, <2>2, <3>1
  <2> QED
    BY <1>3, <2>4 DEF r
<1> QED
  BY <1>2, <1>3, <1>4

LEMMA AcceptedInv ==
  ASSUME Inv, NEW m \in net,
         R!DiscardAccepted(m) \/ R!FailSplitting(m) \/ R!AnswerNotFound(m)
           \/ R!SpawnHandler(m),
         UNCHANGED lives,
         runs' = IF executions' = executions THEN runs ELSE runs \cup {Run(Started)}
  PROVE  Inv'
<1>1. /\ R!AcceptRequest(m)
      /\ UNCHANGED <<callState, sessions, expired>>
  BY DEF R!DiscardAccepted, R!FailSplitting, R!AnswerNotFound, R!SpawnHandler,
         R!transportVars, R!clientVars, callState
<1>2. Tables'
  <2>1. executions' \in [Calls -> Nat]
    <3>1. CASE R!SpawnHandler(m)
      BY <3>1, SpawnFacts
    <3> QED
      BY <3>1 DEF R!DiscardAccepted, R!FailSplitting, R!AnswerNotFound, Inv, Tables
  <2> QED
    BY <1>1, <2>1, AcceptRequestFacts DEF Inv, Tables, callState
<1>3. RequestsGenuine' /\ AnswersGenuine' /\ FuturesGenuine' /\ ClosesGenuine'
  <2>1. CASE R!DiscardAccepted(m)
    BY <1>1, <2>1, MessagesKept DEF R!DiscardAccepted, R!transportVars, Inv,
       AnswersGenuine, callState
  <2>2. CASE R!AnswerNotFound(m)
    <3> DEFINE r == R!Response(m, "notfound")
    <3>1. /\ net' = net \cup {R!FrameAck(m), r} /\ tasks' = tasks
          /\ response_cache' = R!Cache(r)
      BY <2>2 DEF R!AnswerNotFound, R!Send
    <3>2. R!FrameAck(m).type = "FRAME_ACK"
      BY DEF R!FrameAck
    <3>3. r.type = "RESPONSE" /\ AnswersItsCall(r)
      BY <1>1, AcceptRequestFacts, ResponseFacts
    <3>4. response_cache' \subseteq response_cache \cup {r}
      BY <3>1 DEF R!Cache
    <3> HIDE DEF r
    <3> QED
      BY <1>1, <3>1, <3>2, <3>3, <3>4, MessagesKept DEF Inv, AnswersGenuine, callState
  <2>3. CASE R!SpawnHandler(m)
    <3>1. /\ net' = net \cup {R!FrameAck(m)} /\ response_cache' = response_cache
          /\ tasks' = tasks \cup {[req |-> m, attached |-> TRUE]}
      BY <2>3 DEF R!SpawnHandler, R!Send
    <3>2. R!FrameAck(m).type = "FRAME_ACK"
      BY DEF R!FrameAck
    <3>3. /\ tasks' \subseteq [req : net, attached : BOOLEAN]
          /\ \A t \in tasks' : t.req.type = "REQUEST"
      <4>1. /\ tasks \subseteq [req : net, attached : BOOLEAN]
            /\ \A t \in tasks : t.req.type = "REQUEST"
        BY DEF Inv, AnswersGenuine
      <4> DEFINE task == [req |-> m, attached |-> TRUE]
      <4>2. task \in [req : net, attached : BOOLEAN] /\ task.req.type = "REQUEST"
        BY <1>1, AcceptRequestFacts
      <4>3. tasks' = tasks \cup {task}
        BY <3>1
      <4> HIDE DEF task
      <4> QED
        BY <4>1, <4>2, <4>3
    <3> QED
      BY <1>1, <3>1, <3>2, <3>3, MessagesKept DEF callState
  <2>4. CASE R!FailSplitting(m)
    <3>1. /\ net' = net \cup {R!FrameAck(m)}
          /\ response_cache' = response_cache /\ tasks' = tasks
      BY <2>4 DEF R!FailSplitting, R!Send
    <3>2. R!FrameAck(m).type = "FRAME_ACK"
      BY DEF R!FrameAck
    <3> QED
      BY <1>1, <3>1, <3>2, MessagesKept DEF Inv, AnswersGenuine, callState
  <2> QED
    BY <2>1, <2>2, <2>3, <2>4
<1>4. RunsMarked'
  <2>1. CASE runs' = runs
    BY <1>1, <2>1, AcceptRequestFacts, RunsKept DEF Inv, Tables
  <2>2. CASE runs' # runs
    <3>1. R!SpawnHandler(m)
      BY <2>2 DEF R!DiscardAccepted, R!FailSplitting, R!AnswerNotFound
    <3> DEFINE run == [sid |-> m.sid, stream |-> m.stream, rid |-> m.rid,
                       life |-> lives[m.sid]]
    <3>2. runs' = runs \cup {run}
      BY <2>2, <3>1, SpawnFacts
    <3>3. /\ run.sid \in SessionIds /\ run.stream \in Streams
          /\ run.rid - 1 \in Nat /\ run.life \in Nat /\ run.life <= lives'[run.sid]
          /\ Seen(recv_windows'[run.sid][run.stream], run.rid - 1)
      <4>1. run.rid - 1 = m.seq
        BY <1>1, AcceptRequestFacts
      <4> QED
        BY <1>1, <4>1, AcceptRequestFacts DEF Inv, Tables
    <3>4. \A x \in runs :
            /\ x.sid \in SessionIds /\ x.stream \in Streams
            /\ x.rid - 1 \in Nat /\ x.life \in Nat /\ x.life <= lives'[x.sid]
            /\ (x.sid \in sessions' /\ x.life = lives'[x.sid]) =>
                 Seen(recv_windows'[x.sid][x.stream], x.rid - 1)
      BY <1>1, AcceptRequestFacts DEF Inv, RunsMarked
    <3> HIDE DEF run
    <3> QED
      BY <3>2, <3>3, <3>4 DEF RunsMarked
  <2> QED
    BY <2>1, <2>2
<1> QED
  BY <1>2, <1>3, <1>4 DEF Inv

LEMMA FinishInv ==
  ASSUME Inv, NEW t \in tasks, R!FinishRequest(t, "ok") \/ R!FinishUnsendable(t),
         UNCHANGED <<lives, runs>>
  PROVE  Inv'
<1> DEFINE r == R!Response(t.req, "ok")
<1>1. /\ UNCHANGED <<callState, sessions, expired, executions, recv_windows>>
      /\ tasks' \subseteq tasks
      /\ net' = net \/ net' = net \cup {r}
      /\ response_cache' \subseteq response_cache \cup {r}
  BY DEF R!FinishRequest, R!FinishUnsendable, R!transportVars, R!clientVars, callState,
         R!Send, R!Cache
<1>2. r.type = "RESPONSE" /\ AnswersItsCall(r)
  BY ResponseFacts DEF Inv, AnswersGenuine
<1> HIDE DEF r
<1>3. RequestsGenuine' /\ AnswersGenuine' /\ FuturesGenuine' /\ ClosesGenuine'
  BY <1>1, <1>2, MessagesKept DEF Inv, AnswersGenuine, callState
<1>4. Tables'
  BY <1>1 DEF Inv, Tables, callState
<1>5. RunsMarked'
  BY <1>1, RunsUntouched
<1> QED
  BY <1>3, <1>4, <1>5 DEF Inv

LEMMA HandlersInv ==
  ASSUME Inv, R!HandlerNext({"ok"}), UNCHANGED lives,
         runs' = IF executions' = executions THEN runs ELSE runs \cup {Run(Started)}
  PROVE  Inv'
<1> USE DEF R!transportVars, R!clientVars, callState
<1>1. ASSUME NEW sid \in SessionIds, R!SessionExpires(sid) PROVE Inv'
  <2>1. /\ UNCHANGED <<net, callState, executions, sessions, recv_windows>>
        /\ UNCHANGED <<response_cache, tasks, runs, lives>>
        /\ expired' \subseteq sessions'
    BY <1>1 DEF R!SessionExpires, R!serverVars, Inv, Tables
  <2>2. Tables'
    BY <2>1 DEF Inv, Tables
  <2>3. RequestsGenuine' /\ AnswersGenuine' /\ FuturesGenuine' /\ ClosesGenuine'
    BY <2>1, MessagesKept DEF Inv, AnswersGenuine
  <2> QED
    BY <2>1, <2>2, <2>3, RunsUntouched DEF Inv
<1>2. ASSUME NEW m \in net, R!DropExpired(m) \/ R!HandleClose(m) PROVE Inv'
  BY <1>2, ForgetInv DEF R!DropExpired, R!HandleClose, R!OfOthers
<1>3. ASSUME NEW m \in net, R!ResendCached(m) PROVE Inv'
  <2>1. /\ UNCHANGED <<callState, executions, sessions, expired, recv_windows>>
        /\ UNCHANGED <<response_cache, tasks, runs, lives>>
        /\ \A r \in net' \ net : r \in response_cache
        /\ net \subseteq net'
    BY <1>3 DEF R!ResendCached, R!serverVars, R!Send, R!Cached
  <2>2. Tables'
    BY <2>1 DEF Inv, Tables
  <2>3. \A r \in net' \ net : r.type = "RESPONSE" /\ AnswersItsCall(r)
    BY <2>1 DEF Inv, AnswersGenuine
  <2>4. RequestsGenuine' /\ AnswersGenuine' /\ FuturesGenuine' /\ ClosesGenuine'
    BY <2>1, <2>3, MessagesKept DEF Inv, AnswersGenuine
  <2> QED
    BY <2>1, <2>2, <2>4, RunsUntouched DEF Inv
<1>4. ASSUME NEW m \in net,
             R!DiscardAccepted(m) \/ R!FailSplitting(m) \/ R!AnswerNotFound(m)
               \/ R!SpawnHandler(m)
      PROVE  Inv'
  BY <1>4, AcceptedInv
<1>5. ASSUME NEW t \in tasks, R!FinishRequest(t, "ok") \/ R!FinishUnsendable(t)
      PROVE  Inv'
  BY <1>5, FinishInv DEF R!FinishRequest, R!FinishUnsendable
<1> QED
  BY <1>1, <1>2, <1>3, <1>4, <1>5 DEF R!HandlerNext

LEMMA RequestStepInv == ASSUME Inv, RequestStep PROVE Inv'
<1>1. CASE R!CallNext
  <2>1. executions' = executions
    BY <1>1, ZenonT(30) DEF R!CallNext, R!StartRequest, R!StartTooLarge, R!StartRefused, R!Return,
       R!Retry, R!RetryClosed, R!GiveUp, R!Cancel, R!OnResponse, R!serverVars
  <2> QED
    BY <1>1, <2>1, CallInv DEF RequestStep
<1>2. CASE R!HandlerNext({"ok"})
  BY <1>2, HandlersInv DEF RequestStep
<1>3. CASE R!Close
  <2>1. /\ UNCHANGED <<callState, executions, sessions, expired, recv_windows>>
        /\ UNCHANGED <<response_cache, tasks, runs, lives>>
        /\ net' = net \/ net' = net \cup {R!CloseMessage(session.id)}
    BY <1>3 DEF R!Close, R!clientVars, R!serverVars, R!Send, RequestStep, callState
  <2>2. /\ R!CloseMessage(session.id).type = "CLOSE"
        /\ R!CloseMessage(session.id) = CloseMessage(R!CloseMessage(session.id).sid)
    BY DEF R!CloseMessage, CloseMessage
  <2>3. Tables'
    BY <2>1 DEF Inv, Tables, callState
  <2>4. RequestsGenuine' /\ AnswersGenuine' /\ FuturesGenuine' /\ ClosesGenuine'
    BY <2>1, <2>2, MessagesKept DEF Inv, AnswersGenuine, callState
  <2> QED
    BY <2>1, <2>3, <2>4, RunsUntouched DEF Inv
<1> QED
  BY <1>1, <1>2, <1>3 DEF RequestStep

\* Datagrams of a handshake, and the times of pending handshakes and tickets.
LEMMA HandshakeStepInv == ASSUME Inv, HandshakeStep PROVE Inv'
<1> USE DEF H!transportVars
<1>1. /\ UNCHANGED <<callState, executions, sessions, expired, recv_windows>>
      /\ UNCHANGED <<response_cache, tasks, runs, lives>>
  BY DEF HandshakeStep, H!Connect, H!ConnectReturns, H!ConnectTimesOut, H!OnChallenge,
     H!HandleLateProve, H!HandleHello, H!PendingExpires, H!TicketExpires, requestVars,
     callVars, serverVars, callState
<1>2. /\ net \subseteq net'
      /\ \A m \in net' \ net : m.type \in {"HELLO", "CHALLENGE", "PROVE"}
  BY DEF HandshakeStep, H!Connect, H!ConnectReturns, H!ConnectTimesOut, H!OnChallenge,
     H!HandleLateProve, H!HandleHello, H!PendingExpires, H!TicketExpires, H!Send
<1>3. Tables'
  BY <1>1 DEF Inv, Tables, callState
<1>4. RequestsGenuine' /\ AnswersGenuine' /\ FuturesGenuine' /\ ClosesGenuine'
  BY <1>1, <1>2, MessagesKept DEF Inv, AnswersGenuine, callState
<1> QED
  BY <1>1, <1>3, <1>4, RunsUntouched DEF Inv

\* An id enters the session table, and a life of the session begins or goes on.
LEMMA EntersInv ==
  ASSUME Inv, NEW sid \in SessionIds, Enters(sid),
         sessions' = sessions \cup {sid}, expired' \subseteq expired,
         NEW msg, net' = net \cup {msg}, msg.type = "ACK",
         UNCHANGED <<requestVars, runs>>
  PROVE  Inv'
<1>1. UNCHANGED <<callState, executions, recv_windows, response_cache, tasks>>
  BY DEF requestVars, callVars, serverVars, callState
<1>2. lives' \in [SessionIds -> Nat] /\ \A x \in SessionIds : lives[x] <= lives'[x]
  BY DEF Enters, Inv, Tables
<1>3. sid \notin sessions => lives'[sid] # lives[sid]
  BY DEF Enters, Inv, Tables
<1>4. Tables'
  BY <1>1, <1>2 DEF Inv, Tables, callState
<1>5. RunsMarked'
  BY <1>1, <1>2, <1>3, RunsKept
<1>6. RequestsGenuine' /\ AnswersGenuine' /\ FuturesGenuine' /\ ClosesGenuine'
  BY <1>1, MessagesKept DEF Inv, AnswersGenuine, callState
<1> QED
  BY <1>4, <1>5, <1>6 DEF Inv

LEMMA SessionStepInv ==
  ASSUME Inv, HP!TypeOK, NEW m \in net,
         AdoptSession(m) \/ ResumeSession(m) \/ ProveSession(m)
  PROVE  Inv'
<1>1. CASE AdoptSession(m)
  <2>1. /\ UNCHANGED <<net, sessions, expired, executions, recv_windows>>
        /\ UNCHANGED <<response_cache, tasks, runs, lives>>
        /\ UNCHANGED <<phase, packet, pending_requests, future>>
        /\ streams' = [s \in Streams |-> R!NewStream]
    BY <1>1 DEF AdoptSession, H!OnAck, callVars, serverVars, FreshStreams
  <2>2. Tables'
    BY <2>1 DEF Inv, Tables, R!NewStream, R!StreamStates
  <2>3. RequestsGenuine' /\ AnswersGenuine' /\ FuturesGenuine' /\ ClosesGenuine'
    BY <2>1, MessagesKept DEF Inv, AnswersGenuine
  <2> QED
    BY <2>1, <2>2, <2>3, RunsUntouched DEF Inv
<1>2. CASE ResumeSession(m)
  <2>1. PICK snonce \in H!FreshServerNonces : H!HandleResume(m, snonce)
    BY <1>2 DEF ResumeSession
  <2>2. m.ticket.sid \in SessionIds
    <3>1. m \in HandshakeNet /\ m.type = "HELLO" /\ m.ticket # NoTicket
      BY <2>1 DEF H!HandleResume, H!Restores, HandshakeNet, HandshakeTypes
    <3>2. m \in HP!HelloMessages
      BY <3>1 DEF HP!TypeOK, HP!HelloMessages, HP!NonceMessages, HP!AckMessages,
         HP!CloseMessages, HP!CloseMessage
    <3> QED
      BY <3>1, <3>2 DEF HP!HelloMessages, HP!Tickets
  <2> DEFINE msg == H!Ack(m.cnonce, snonce, m.ticket.sid, m.ticket.key)
  <2>3. /\ sessions' = sessions \cup {m.ticket.sid} /\ expired' \subseteq expired
        /\ net' = net \cup {msg} /\ msg.type = "ACK"
    BY <2>1 DEF H!HandleResume, H!Grant, H!Send, H!Ack
  <2> HIDE DEF msg
  <2> QED
    BY <1>2, <2>2, <2>3, EntersInv DEF ResumeSession
<1>3. CASE ProveSession(m)
  <2>1. PICK sid \in H!FreshSessionIds :
          H!HandleProve(m, sid) /\ Enters(sid) /\ UNCHANGED <<requestVars, runs>>
    BY <1>3 DEF ProveSession
  <2> DEFINE msg == H!Ack(m.cnonce, m.snonce, sid, H!DeriveKey(m.cnonce, m.snonce))
  <2>2. sid \in SessionIds
    BY DEF H!FreshSessionIds
  <2>3. /\ sessions' = sessions \cup {sid} /\ expired' \subseteq expired
        /\ net' = net \cup {msg} /\ msg.type = "ACK"
    BY <2>1 DEF H!HandleProve, H!Grant, H!Send, H!Ack
  <2> HIDE DEF msg
  <2> QED
    BY <2>1, <2>2, <2>3, EntersInv
<1> QED
  BY <1>1, <1>2, <1>3

LEMMA RemovalInv ==
  ASSUME Inv,
         \/ Restart
         \/ \E staleCache, staleInflight : CleanupPass(staleCache, staleInflight)
  PROVE  Inv'
<1>1. CASE Restart
  <2>1. /\ UNCHANGED <<net, callState, executions, lives, runs>>
        /\ sessions' = {} /\ expired' = {} /\ response_cache' = {} /\ tasks' = {}
        /\ recv_windows' = [sid \in SessionIds |-> R!NewStreamWindows]
    BY <1>1 DEF Restart, H!Restart, callVars, callState
  <2>2. R!NewStreamWindows \in [Streams -> Windows]
    BY SameWindow, NewWindowFacts DEF R!NewStreamWindows
  <2>3. Tables'
    BY <2>1, <2>2 DEF Inv, Tables, callState
  <2>4. RequestsGenuine' /\ AnswersGenuine' /\ FuturesGenuine' /\ ClosesGenuine'
    BY <2>1, MessagesKept DEF callState
  <2>5. RunsMarked'
    BY <2>1, RunsKept DEF Inv, Tables
  <2> QED
    BY <2>3, <2>4, <2>5 DEF Inv
<1>2. ASSUME NEW staleCache, NEW staleInflight, CleanupPass(staleCache, staleInflight)
      PROVE  Inv'
  BY <1>2, ForgetInv DEF CleanupPass, R!CleanupPass, R!OfOthers, R!clientVars, callState
<1> QED
  BY <1>1, <1>2

LEMMA NextInv == Inv /\ HP!TypeOK /\ [Next]_vars => Inv'
<1> SUFFICES ASSUME Inv, HP!TypeOK, [Next]_vars PROVE Inv'
  OBVIOUS
<1>1. CASE UNCHANGED vars
  <2>1. /\ UNCHANGED <<net, callState, executions, sessions, expired, recv_windows>>
        /\ UNCHANGED <<response_cache, tasks, runs, lives>>
    BY <1>1 DEF vars, transportVars, requestVars, callVars, serverVars, callState
  <2>2. Tables'
    BY <2>1 DEF Inv, Tables, callState
  <2>3. RequestsGenuine' /\ AnswersGenuine' /\ FuturesGenuine' /\ ClosesGenuine'
    BY <2>1, MessagesKept DEF Inv, AnswersGenuine, callState
  <2> QED
    BY <2>1, <2>2, <2>3, RunsUntouched DEF Inv
<1>2. CASE Next
  BY <1>2, RequestStepInv, HandshakeStepInv, SessionStepInv, RemovalInv DEF Next
<1> QED
  BY <1>1, <1>2

-----------------------------------------------------------------------------
(***************************************************************************)
(* Theorems.                                                               *)
(***************************************************************************)

LEMMA Cards == \A S : HS!Cardinality(S) = HP!Cardinality(S)
BY DEF HS!Cardinality, HP!Cardinality

\* HandshakeProofs speaks of the same specification as ImplementsHandshake.
LEMMA SameHandshake ==
  /\ HS!Init <=> HP!Init
  /\ HS!Next <=> HP!Next
  /\ UNCHANGED HS!vars <=> UNCHANGED HP!vars
<1>1. HS!Init <=> HP!Init
  BY DEF HS!Init, HP!Init, HS!Sides, HP!Sides
<1>2. UNCHANGED HS!vars <=> UNCHANGED HP!vars
  BY DEF HS!vars, HP!vars, HS!transportVars, HP!transportVars, HS!clientVars,
     HP!clientVars
<1>3. HS!ClientNext <=> HP!ClientNext
  BY DEF HS!ClientNext, HP!ClientNext, HS!Connect, HP!Connect, HS!ConnectReturns,
     HP!ConnectReturns, HS!ConnectTimesOut, HP!ConnectTimesOut, HS!Close, HP!Close,
     HS!OnChallenge, HP!OnChallenge, HS!OnAck, HP!OnAck, HS!transportVars,
     HP!transportVars, HS!clientVars, HP!clientVars, HS!Send, HP!Send,
     HS!CloseMessage, HP!CloseMessage, HS!AckSession, HP!AckSession, HS!DeriveKey,
     HP!DeriveKey, HS!Acks, HP!Acks, HS!FreshClientNonces, HP!FreshClientNonces
<1>4. HS!ServerNext <=> HP!ServerNext
  BY Cards, ZenonT(30) DEF HS!ServerNext, HP!ServerNext, HS!HandleHello, HP!HandleHello,
     HS!HandleResume, HP!HandleResume, HS!HandleProve, HP!HandleProve,
     HS!HandleLateProve, HP!HandleLateProve, HS!DropSession, HP!DropSession,
     HS!SessionExpires, HP!SessionExpires, HS!PendingExpires, HP!PendingExpires,
     HS!CleanupPass, HP!CleanupPass, HS!Restart, HP!Restart, HS!BelowLimit,
     HP!BelowLimit, HS!Restores, HP!Restores, HS!Grant, HP!Grant, HS!Ack, HP!Ack,
     HS!transportVars, HP!transportVars, HS!clientVars, HP!clientVars, HS!Send,
     HP!Send, HS!CloseMessage, HP!CloseMessage, HS!DeriveKey, HP!DeriveKey, HS!Acks,
     HP!Acks, HS!FreshServerNonces, HP!FreshServerNonces, HS!FreshSessionIds,
     HP!FreshSessionIds
<1>5. (\E side \in HS!Sides, m \in HS!Acks : HS!TicketExpires(side, m.ticket))
        <=> (\E side \in HP!Sides, m \in HP!Acks : HP!TicketExpires(side, m.ticket))
  BY DEF HS!Sides, HP!Sides, HS!TicketExpires, HP!TicketExpires, HS!Acks, HP!Acks,
     HS!transportVars, HP!transportVars, HS!clientVars, HP!clientVars
<1> QED
  BY <1>1, <1>2, <1>3, <1>4, <1>5 DEF HS!Next, HP!Next

\* What HandshakeProofs assumes of the constants.
LEMMA HandshakeHypotheses ==
  /\ NoSession \notin [id : SessionIds, key : Keys]
  /\ HP!HandshakeAssumption
BY NoSessionAssumption, FastUDPAssumption
   DEF H!HandshakeAssumption, HP!HandshakeAssumption, H!Tickets, HP!Tickets

\* Both inductive invariants, that of the whole and that of the handshake it
\* implements, hold in every reachable state.
THEOREM Invariance == Spec => [](Inv /\ HP!Inv)
<1>1. NoSession \notin [id : SessionIds, key : Keys]
  BY HandshakeHypotheses
<1>2. HP!HandshakeAssumption
  BY HandshakeHypotheses
<1>3. Init => Inv /\ HP!Inv
  <2>1. HP!Init => HP!Inv
    BY <1>1, <1>2, HP!InitInv
  <2> QED
    BY <2>1, InitInv, InitRefines, SameHandshake
<1>4. Inv /\ HP!Inv /\ [Next]_vars => Inv' /\ HP!Inv'
  <2>1. HP!Inv /\ [HP!Next]_HP!vars => HP!Inv'
    BY <1>1, <1>2, HP!NextInv
  <2>2. HP!Inv => HP!TypeOK
    BY DEF HP!Inv
  <2> SUFFICES ASSUME Inv, HP!Inv, [Next]_vars PROVE Inv' /\ HP!Inv'
    OBVIOUS
  <2>3. [HS!Next]_HS!vars
    BY StepRefines
  <2>4. [HP!Next]_HP!vars
    BY <2>3, SameHandshake
  <2> QED
    BY <2>1, <2>2, <2>4, NextInv
<1> QED
  BY <1>3, <1>4, PTL DEF Spec

\* Whatever requests are made, sessions come and go as Handshake says.
THEOREM Implements == Spec => ImplementsHandshake
<1>1. Inv /\ [Next]_vars => [HS!Next]_HS!vars
  BY StepRefines
<1> QED
  BY <1>1, InitRefines, Invariance, PTL DEF Spec, ImplementsHandshake, HS!Spec

\* The promises of the handshake, in the system that also answers requests: a
\* session id names one key, a PROVE makes one session, and the two ends hold one
\* key unless the client took an expired ticket.
THEOREM HandshakePromises ==
  Spec => [](HP!SidKeepsKey /\ HP!OneSessionPerProof /\ HP!AgreementUnlessStale)
<1>1. HP!Inv => HP!SidKeepsKey /\ HP!OneSessionPerProof /\ HP!AgreementUnlessStale
  BY DEF HP!Inv, HP!Bookkeeping, HP!SessionGenuine, HP!SidKeepsKey,
         HP!AgreementUnlessStale
<1> QED
  BY <1>1, Invariance, PTL

\* A call is given answers to requests of its own stream and request id alone.
THEOREM AnswersKeepNumbers == Spec => []AnswerByNumbers
<1>1. Inv => AnswerByNumbers
  BY FastUDPAssumption DEF R!RequestsAssumption, Inv, FuturesGenuine, AnswerByNumbers,
     R!Responses, R!Statuses
<1> QED
  BY <1>1, Invariance, PTL

\* No handler starts twice under the numbers of one life of a session, for any
\* number of calls, sessions, retries, resumptions and restarts.
THEOREM OneRun == Spec => OneRunPerLife
<1>1. Inv /\ [Next]_vars => [executions' # executions => Run(Started) \notin runs]_vars
  <2> SUFFICES ASSUME Inv, Next, executions' # executions PROVE Run(Started) \notin runs
    BY DEF vars, requestVars, serverVars
  <2>1. \E m \in net : R!SpawnHandler(m)
    <3>1. RequestStep
      BY DEF Next, HandshakeStep, AdoptSession, ResumeSession, ProveSession, CleanupPass,
         Restart, R!CleanupPass, requestVars, serverVars
    <3>2. R!HandlerNext({"ok"})
      BY <3>1, ZenonT(30) DEF RequestStep, R!CallNext, R!StartRequest, R!StartTooLarge,
         R!StartRefused, R!Return, R!Retry, R!RetryClosed, R!GiveUp, R!Cancel,
         R!OnResponse, R!Close, R!serverVars
    <3> QED
      BY <3>2 DEF R!HandlerNext, R!SessionExpires, R!DropExpired, R!HandleClose,
         R!ResendCached, R!DiscardAccepted, R!FailSplitting, R!AnswerNotFound,
         R!FinishRequest, R!FinishUnsendable, R!serverVars
  <2> QED
    BY <2>1, SpawnFacts
<1> QED
  BY <1>1, Invariance, PTL DEF Spec, OneRunPerLife
=============================================================================

---------------------------- MODULE RequestsProofs ----------------------------
(***************************************************************************)
(* Requests keeps its inductive invariant, for every set of calls, streams *)
(* and sessions, every window width and every number of retries.           *)
(***************************************************************************)
EXTENDS RequestsInvariant, ReplayWindowProofs, FiniteSetTheorems

\* What a datagram in the network is, by its type.
LEMMA NetTypes ==
  ASSUME TypeOK, NEW m \in net
  PROVE  /\ m.type = "REQUEST" => m \in RequestMessages
         /\ m.type = "RESPONSE" => m \in ResponseMessages
         /\ m.type = "FRAME_ACK" => m \in FrameAckMessages
         /\ m.type = "CLOSE" => m \in CloseMessages
BY DEF TypeOK, LayerTypes, RequestMessages, ResponseMessages, FrameAckMessages,
       CloseMessages, CloseMessage

\* The client has a session, and what a call sent is a REQUEST.
LEMMA Basics ==
  ASSUME TypeOK
  PROVE  /\ session # NoSession
         /\ session.id \in SessionIds /\ session.key \in Keys
         /\ \A c \in Calls : Sent(c) => packet[c] \in RequestMessages
BY NoSessionAssumption DEF TypeOK, LayerTypes, Established, Sent

LEMMA InitInv == Init => Inv
<1> SUFFICES ASSUME Init PROVE Inv
  OBVIOUS
<1> USE DEF Init, LayerInit, EstablishedInit
<1>1. session \in Established /\ session # NoSession
  BY NoSessionAssumption DEF Established
<1>2. NewStream \in StreamStates /\ NewStreamWindows \in [Streams -> Windows]
  BY NewWindowFacts DEF NewStream, StreamStates, NewStreamWindows
<1>3. TypeOK
  BY <1>1, <1>2, RequestsAssumption DEF TypeOK, LayerTypes, Established
<1>4. \A c \in Calls : ~ Sent(c)
  BY DEF Sent
<1>5. OneSession /\ CallProgress /\ RequestsGenuine /\ ResponsesGenuine
  BY <1>1, <1>4 DEF OneSession, Established, CallProgress, RequestsGenuine, ResponsesGenuine
<1>6. Numbering
  BY <1>4 DEF Numbering, NewStream
<1>7. TasksGenuine /\ AnswersEarned /\ HandledIsSeen /\ PendingGenuine /\ NoStalePending
  BY DEF TasksGenuine, AnswersEarned, HandledIsSeen, PendingGenuine, NoStalePending
<1>8. AnswerMatchesCall
  BY RequestsAssumption DEF AnswerMatchesCall, Responses, Statuses
<1> QED
  BY <1>3, <1>5, <1>6, <1>7, <1>8 DEF Inv

\* Steps that change the phase of calls, and at most count an attempt.
LEMMA ReturnInv == ASSUME Inv, NEW c \in Calls, Return(c) PROVE Inv'
<1> USE DEF Inv, Return, transportVars, serverVars
<1>1. TypeOK'
  BY DEF TypeOK, LayerTypes, Outcome, Failures
<1>2. NoStalePending'
  BY DEF NoStalePending, TypeOK, LayerTypes
<1>3. CallProgress'
  BY DEF CallProgress, TypeOK, LayerTypes, Sent, Outcome
<1>4. (OneSession /\ Numbering /\ RequestsGenuine /\ ResponsesGenuine /\ TasksGenuine
       /\ AnswersEarned /\ HandledIsSeen /\ PendingGenuine /\ AnswerMatchesCall)'
  BY DEF OneSession, Numbering, RequestsGenuine, ResponsesGenuine, TasksGenuine,
         AnswersEarned, HandledIsSeen, PendingGenuine, AnswerMatchesCall, Sent
<1> QED
  BY <1>1, <1>2, <1>3, <1>4

LEMMA RetryInv == ASSUME Inv, NEW c \in Calls, Retry(c) PROVE Inv'
<1> USE DEF Inv, Retry, Send, serverVars
<1>1. Sent(c) /\ packet[c] \in RequestMessages
  BY Basics DEF CallProgress
<1>2. TypeOK'
  <2>1. attempt' \in [Calls -> Nat] /\ \A d \in Calls : attempt'[d] <= Retries[d]
    <3>1. attempt \in [Calls -> Nat] /\ \A d \in Calls : attempt[d] <= Retries[d]
      BY DEF TypeOK, LayerTypes
    <3>2. Retries[c] \in Nat /\ attempt[c] < Retries[c]
      BY RequestsAssumption
    <3>3. attempt' = [attempt EXCEPT ![c] = @ + 1]
      OBVIOUS
    <3> HIDE DEF Inv, Retry
    <3> QED
      BY <3>1, <3>2, <3>3
  <2>2. net' \subseteq CloseMessages \cup RequestMessages \cup ResponseMessages
                        \cup FrameAckMessages
    BY <1>1 DEF TypeOK, LayerTypes
  <2>3. phase' \in [Calls -> {"idle", "waiting", "answered"} \cup Failures]
    BY DEF TypeOK, LayerTypes, Outcome, Failures
  <2> QED
    BY <2>1, <2>2, <2>3 DEF TypeOK, LayerTypes
<1>3. NoStalePending'
  BY DEF NoStalePending, TypeOK, LayerTypes, Outcome
<1>4. CallProgress'
  BY DEF CallProgress, TypeOK, LayerTypes, Sent, Outcome
<1>5. packet[c].call = c /\ packet[c].type = "REQUEST"
  BY <1>1 DEF Numbering, RequestMessages
<1>6. RequestsGenuine' /\ ResponsesGenuine' /\ TasksGenuine'
  BY <1>5 DEF RequestsGenuine, ResponsesGenuine, TasksGenuine, Sent
<1>7. (OneSession /\ Numbering /\ AnswersEarned /\ HandledIsSeen
       /\ PendingGenuine /\ AnswerMatchesCall)'
  BY DEF OneSession, Numbering, AnswersEarned, HandledIsSeen, PendingGenuine,
         AnswerMatchesCall, Sent
<1> QED
  BY <1>2, <1>3, <1>4, <1>6, <1>7

LEMMA RetryClosedInv == ASSUME Inv, NEW c \in Calls, RetryClosed(c) PROVE Inv'
<1> USE DEF Inv, RetryClosed, transportVars, serverVars
<1>1. TypeOK'
  BY DEF TypeOK, LayerTypes, Failures
<1>2. NoStalePending' /\ CallProgress'
  BY DEF NoStalePending, CallProgress, TypeOK, LayerTypes, Sent
<1>3. (OneSession /\ Numbering /\ RequestsGenuine /\ ResponsesGenuine /\ TasksGenuine
       /\ AnswersEarned /\ HandledIsSeen /\ PendingGenuine /\ AnswerMatchesCall)'
  BY DEF OneSession, Numbering, RequestsGenuine, ResponsesGenuine, TasksGenuine,
         AnswersEarned, HandledIsSeen, PendingGenuine, AnswerMatchesCall, Sent
<1> QED
  BY <1>1, <1>2, <1>3

LEMMA CancelInv == ASSUME Inv, NEW c \in Calls, Cancel(c) PROVE Inv'
<1> USE DEF Inv, Cancel, transportVars, serverVars
<1>1. TypeOK'
  BY DEF TypeOK, LayerTypes, Failures
<1>2. NoStalePending' /\ CallProgress'
  BY DEF NoStalePending, CallProgress, TypeOK, LayerTypes, Sent
<1>3. (OneSession /\ Numbering /\ RequestsGenuine /\ ResponsesGenuine /\ TasksGenuine
       /\ AnswersEarned /\ HandledIsSeen /\ PendingGenuine /\ AnswerMatchesCall)'
  BY DEF OneSession, Numbering, RequestsGenuine, ResponsesGenuine, TasksGenuine,
         AnswersEarned, HandledIsSeen, PendingGenuine, AnswerMatchesCall, Sent
<1> QED
  BY <1>1, <1>2, <1>3

LEMMA GiveUpInv == ASSUME Inv, NEW c \in Calls, GiveUp(c) PROVE Inv'
<1> USE DEF Inv, GiveUp, Unregister, transportVars, serverVars
<1>1. TypeOK'
  BY DEF TypeOK, LayerTypes, Failures
<1>2. NoStalePending'
  \* The entries of c have the key of its packet, which is what is taken out.
  <2>1. \A p \in pending_requests' : p.call # c
    BY DEF PendingGenuine, SameRequest
  <2> QED
    BY <2>1 DEF NoStalePending, TypeOK, LayerTypes
<1>3. CallProgress' /\ PendingGenuine'
  BY DEF CallProgress, PendingGenuine, TypeOK, LayerTypes, Sent
<1>4. (OneSession /\ Numbering /\ RequestsGenuine /\ ResponsesGenuine /\ TasksGenuine
       /\ AnswersEarned /\ HandledIsSeen /\ AnswerMatchesCall)'
  BY DEF OneSession, Numbering, RequestsGenuine, ResponsesGenuine, TasksGenuine,
         AnswersEarned, HandledIsSeen, AnswerMatchesCall, Sent
<1> QED
  BY <1>1, <1>2, <1>3, <1>4

\* The start of a call.
LEMMA StartRequestInv ==
  ASSUME Inv, NEW c \in Calls, NEW s \in Streams, NEW p \in Paths, StartRequest(c, s, p)
  PROVE  Inv'
<1> DEFINE pkt == RequestPacket(c, s, p)
<1> USE DEF Inv
<1>1. /\ ~ Sent(c) /\ packet' = [packet EXCEPT ![c] = pkt]
      /\ TakeNumbers(s) /\ phase' \in {[phase EXCEPT ![c] = "waiting"],
                                      [phase EXCEPT ![c] = "closed"]}
      /\ net' \in {net, net \cup {pkt}}
      /\ pending_requests' = Unregister(pkt) \cup {Entry(pkt)}
      /\ acked' = [acked EXCEPT ![c] = "clear"]
      /\ UNCHANGED <<transport, session, sessions, session_key, expired, attempt,
                     future, client_windows, acks_read, serverVars>>
  BY DEF StartRequest, CallProgress, Send
<1>2. streams \in [Streams -> StreamStates] /\ packet \in [Calls -> RequestMessages \cup {NoPacket}]
  BY DEF TypeOK, LayerTypes
<1>3. /\ pkt \in RequestMessages
      /\ pkt.type = "REQUEST" /\ pkt.call = c /\ pkt.stream = s
      /\ pkt.sid = session.id /\ pkt.key = session.key
      /\ pkt.seq = streams[s].next_seq /\ pkt.rid = pkt.seq + 1
  BY <1>2, Basics DEF RequestPacket, RequestMessages, StreamStates, Numbering
<1>4. pkt # NoPacket
  BY <1>3, RequestsAssumption DEF RequestMessages
<1>5. /\ streams'[s].next_seq = streams[s].next_seq + 1
      /\ streams'[s].next_request_id = streams[s].next_request_id + 1
      /\ \A x \in Streams : x # s => streams'[x] = streams[x]
      /\ streams' \in [Streams -> StreamStates]
  BY <1>1, <1>2 DEF TakeNumbers, StreamStates
<1>6. packet'[c] = pkt /\ \A d \in Calls : d # c => packet'[d] = packet[d]
  BY <1>1, <1>2
<1>7. ~ Sent(c) /\ Sent(c)' /\ \A d \in Calls : d # c => (Sent(d)' <=> Sent(d))
  BY <1>1, <1>4, <1>6 DEF Sent
<1>8. \A d \in Calls : Sent(d) => ~ SameRequest(packet[d], pkt)
  BY <1>2, <1>3, Basics DEF Numbering, SameRequest, RequestMessages, StreamStates
<1>9. TypeOK'
  BY <1>1, <1>2, <1>3, <1>5, SMTT(30) DEF TypeOK, LayerTypes, Entry, RequestMessages, Unregister, serverVars, Failures
<1>10. OneSession'
  BY <1>1 DEF OneSession
<1>11. Numbering'
  <2>1. \A x \in Streams : streams'[x].next_request_id = streams'[x].next_seq + 1
    BY <1>2, <1>5 DEF Numbering, StreamStates
  <2>2. ASSUME NEW d \in Calls, Sent(d)'
        PROVE  /\ packet'[d].call = d
               /\ packet'[d].sid = session'.id /\ packet'[d].key = session'.key
               /\ packet'[d].rid = packet'[d].seq + 1
               /\ packet'[d].seq < streams'[packet'[d].stream].next_seq
    <3>1. CASE d = c
      BY <1>1, <1>2, <1>3, <1>5, <1>6, <3>1 DEF StreamStates
    <3>2. CASE d # c
      <4>1. Sent(d) /\ packet'[d] = packet[d] /\ packet[d] \in RequestMessages
        BY <1>6, <1>7, <2>2, <3>2, Basics
      <4> QED
        BY <1>1, <1>2, <1>5, <4>1 DEF Numbering, RequestMessages, StreamStates
    <3> QED
      BY <3>1, <3>2
  <2>3. \A d, e \in Calls :
          Sent(d)' /\ Sent(e)' /\ SameRequest(packet'[d], packet'[e]) => d = e
    BY <1>6, <1>7, <1>8 DEF Numbering, SameRequest
  <2> QED
    BY <2>1, <2>2, <2>3 DEF Numbering
<1>12. CallProgress'
  <2>1. phase'[c] # "idle" /\ \A d \in Calls : d # c => phase'[d] = phase[d]
    <3> phase \in [Calls -> {"idle", "waiting", "answered"} \cup Failures]
      BY DEF TypeOK, LayerTypes
    <3>1. CASE phase' = [phase EXCEPT ![c] = "waiting"]
      BY <3>1
    <3>2. CASE phase' = [phase EXCEPT ![c] = "closed"]
      BY <3>2
    <3> QED
      BY <1>1, <3>1, <3>2
  <2> QED
    BY <1>1, <1>7, <2>1 DEF CallProgress
<1>13. \A m \in net : m.type = "REQUEST" => m.call # c
  BY <1>7, NetTypes, RequestsAssumption DEF RequestsGenuine, RequestMessages, Sent
<1>14. RequestsGenuine'
  BY <1>1, <1>3, <1>6, <1>13, NetTypes DEF RequestsGenuine, RequestMessages
<1>15. ResponsesGenuine'
  BY <1>1, <1>3, <1>6, <1>7, NetTypes
  DEF ResponsesGenuine, ResponseMessages, Responses, serverVars
<1>16. TasksGenuine' /\ AnswersEarned'
  BY <1>1 DEF TasksGenuine, AnswersEarned, serverVars
<1>17. HandledIsSeen'
  BY <1>1, <1>6, <1>7 DEF HandledIsSeen, serverVars
<1>18. PendingGenuine'
  BY <1>1, <1>3, <1>6, <1>7 DEF PendingGenuine, Unregister, Entry, SameRequest, TypeOK, LayerTypes
<1>19. future[c] = NoReply
  BY <1>1 DEF CallProgress
<1>20. NoStalePending'
  BY <1>1, <1>3, <1>19 DEF NoStalePending, Unregister, Entry, TypeOK, LayerTypes
<1>21. AnswerMatchesCall'
  BY <1>1 DEF AnswerMatchesCall, serverVars
<1> QED
  BY <1>9, <1>10, <1>11, <1>12, <1>14, <1>15, <1>16, <1>17, <1>18, <1>20, <1>21

LEMMA StartTooLargeInv ==
  ASSUME Inv, NEW c \in Calls, NEW s \in Streams, StartTooLarge(c, s) PROVE Inv'
<1> USE DEF Inv, transportVars, serverVars
<1>1. /\ TakeNumbers(s) /\ phase[c] = "idle"
      /\ phase' = [phase EXCEPT ![c] = "toolarge"]
      /\ UNCHANGED <<transportVars, packet, attempt, future, pending_requests,
                     acked, client_windows, acks_read, serverVars>>
  BY DEF StartTooLarge
<1>2. /\ streams' \in [Streams -> StreamStates]
      /\ \A x \in Streams : streams'[x].next_request_id = streams'[x].next_seq + 1
                            /\ streams'[x].next_seq >= streams[x].next_seq
  <2>1. streams \in [Streams -> StreamStates]
    BY DEF TypeOK, LayerTypes
  <2> QED
    BY <1>1, <2>1 DEF TakeNumbers, StreamStates, Numbering
<1>3. TypeOK'
  BY <1>1, <1>2 DEF TypeOK, LayerTypes, Failures
<1>4. Numbering'
  <2>1. ASSUME NEW d \in Calls, Sent(d)
        PROVE  packet[d].seq < streams'[packet[d].stream].next_seq
    <3>1. /\ packet[d].seq \in Nat /\ packet[d].stream \in Streams
          /\ packet[d].seq < streams[packet[d].stream].next_seq
      BY <2>1, Basics DEF Numbering, RequestMessages
    <3>2. \A x \in Streams : streams[x].next_seq \in Nat /\ streams'[x].next_seq \in Nat
      BY <1>2 DEF TypeOK, LayerTypes, StreamStates
    <3> QED
      BY <1>2, <3>1, <3>2
  <2> QED
    BY <1>1, <1>2, <2>1 DEF Numbering, Sent
<1>5. NoStalePending' /\ CallProgress'
  BY <1>1 DEF NoStalePending, CallProgress, TypeOK, LayerTypes, Sent
<1>6. (OneSession /\ RequestsGenuine /\ ResponsesGenuine /\ TasksGenuine
       /\ AnswersEarned /\ HandledIsSeen /\ PendingGenuine /\ AnswerMatchesCall)'
  BY <1>1 DEF OneSession, RequestsGenuine, ResponsesGenuine, TasksGenuine,
         AnswersEarned, HandledIsSeen, PendingGenuine, AnswerMatchesCall, Sent
<1> QED
  BY <1>3, <1>4, <1>5, <1>6

LEMMA StartRefusedInv ==
  ASSUME Inv, NEW c \in Calls, NEW s \in Streams, StartRefused(c, s) PROVE Inv'
<1> USE DEF Inv, StartRefused, transportVars, serverVars
<1>1. TypeOK'
  BY DEF TypeOK, LayerTypes, Failures
<1>2. NoStalePending' /\ CallProgress'
  BY DEF NoStalePending, CallProgress, TypeOK, LayerTypes, Sent
<1>3. (OneSession /\ Numbering /\ RequestsGenuine /\ ResponsesGenuine /\ TasksGenuine
       /\ AnswersEarned /\ HandledIsSeen /\ PendingGenuine /\ AnswerMatchesCall)'
  BY DEF OneSession, Numbering, RequestsGenuine, ResponsesGenuine, TasksGenuine,
         AnswersEarned, HandledIsSeen, PendingGenuine, AnswerMatchesCall, Sent
<1> QED
  BY <1>1, <1>2, <1>3

\* The response that resolves a future is for the call registered under its
\* numbers, because the packets of two calls never share them.
LEMMA OnResponseInv == ASSUME Inv, NEW m \in net, OnResponse(m) PROVE Inv'
<1> USE DEF Inv, transportVars, serverVars
<1>1. /\ m \in ResponseMessages /\ Accepts(client_windows[m.stream], m.seq)
      /\ client_windows' = [client_windows EXCEPT ![m.stream] = Mark(@, m.seq)]
      /\ pending_requests' = Unregister(m)
      /\ UNCHANGED <<transportVars, streams, phase, packet, attempt, acked,
                     acks_read, serverVars>>
  BY NetTypes DEF OnResponse
<1>2. /\ m.body \in Responses /\ m.stream \in Streams /\ m.seq \in Nat
      /\ Sent(m.body.call) /\ m.key = session.key
      /\ SameRequest(m, packet[m.body.call])
      /\ m.body = [call |-> m.body.call, status |-> answer[m.body.call]]
  BY <1>1 DEF OnResponse, ResponseMessages, ResponsesGenuine, Responses, Slot, SameRequest
<1>3. \A p \in pending_requests : SameRequest(p, m) => p.call = m.body.call
  <2> SUFFICES ASSUME NEW p \in pending_requests, SameRequest(p, m)
               PROVE  p.call = m.body.call
    OBVIOUS
  <2>1. p.call \in Calls /\ Sent(p.call) /\ SameRequest(p, packet[p.call])
    BY DEF PendingGenuine, TypeOK, LayerTypes
  <2>2. m.body.call \in Calls
    BY <1>2 DEF Responses
  <2> QED
    BY <1>2, <2>1, <2>2 DEF Numbering, SameRequest
<1>4. \A c \in Calls :
        \/ future'[c] = future[c]
        \/ /\ c = m.body.call /\ future'[c] = m.body
           /\ \E p \in pending_requests : SameRequest(p, m) /\ p.call = c
  BY <1>2, <1>3 DEF OnResponse
<1>5. TypeOK'
  <2>1. client_windows' \in [Streams -> Windows]
    BY <1>1, <1>2, MarkType DEF TypeOK, LayerTypes
  <2>2. future' \in [Calls -> Responses \cup {NoReply, Undecryptable}]
    BY <1>2, <1>4 DEF OnResponse, TypeOK, LayerTypes
  <2> QED
    BY <1>1, <2>1, <2>2 DEF TypeOK, LayerTypes, Unregister
<1>6. AnswerMatchesCall'
  BY <1>1, <1>2, <1>4 DEF AnswerMatchesCall
<1>7. NoStalePending'
  <2> SUFFICES ASSUME NEW p \in pending_requests'
               PROVE  future'[p.call] = NoReply
    BY <1>1 DEF NoStalePending, Unregister
  <2>1. p \in pending_requests /\ ~ SameRequest(p, m) /\ p.call \in Calls
    BY <1>1 DEF Unregister, TypeOK, LayerTypes
  <2>2. p.call # m.body.call
    BY <1>2, <2>1 DEF PendingGenuine, SameRequest
  <2> QED
    BY <1>4, <2>1, <2>2 DEF NoStalePending
<1>8. CallProgress'
  <2>1. \A c \in Calls : Sent(c)' <=> Sent(c)
    BY <1>1 DEF Sent
  <2>2. \A c \in Calls : future'[c] # NoReply => Sent(c)
    BY <1>2, <1>4 DEF CallProgress
  <2> QED
    BY <1>1, <2>1, <2>2 DEF CallProgress
<1>9. PendingGenuine'
  BY <1>1 DEF PendingGenuine, Unregister, Sent
<1>10. (OneSession /\ Numbering /\ RequestsGenuine /\ ResponsesGenuine /\ TasksGenuine
        /\ AnswersEarned /\ HandledIsSeen)'
  BY <1>1 DEF OneSession, Numbering, RequestsGenuine, ResponsesGenuine, TasksGenuine,
         AnswersEarned, HandledIsSeen, Sent
<1> QED
  BY <1>5, <1>6, <1>7, <1>8, <1>9, <1>10

LEMMA OnFrameAckInv == ASSUME Inv, NEW m \in net, OnFrameAck(m) PROVE Inv'
<1> USE DEF Inv, OnFrameAck, transportVars, serverVars
<1>1. TypeOK'
  <2>1. acked' \in [Calls -> {"absent", "clear", "set"}]
    BY DEF TypeOK, LayerTypes
  <2>2. m \in FrameAckMessages
    BY NetTypes
  <2> QED
    BY <2>1, <2>2 DEF TypeOK, LayerTypes
<1>2. (OneSession /\ Numbering /\ CallProgress /\ RequestsGenuine /\ ResponsesGenuine
       /\ TasksGenuine /\ AnswersEarned /\ HandledIsSeen /\ PendingGenuine
       /\ NoStalePending /\ AnswerMatchesCall)'
  BY DEF OneSession, Numbering, CallProgress, RequestsGenuine, ResponsesGenuine,
         TasksGenuine, AnswersEarned, HandledIsSeen, PendingGenuine, NoStalePending,
         AnswerMatchesCall, Sent
<1> QED
  BY <1>1, <1>2

LEMMA CloseInv == ASSUME Inv, Close PROVE Inv'
<1> USE DEF Inv, Close, Send, clientVars, serverVars
<1>1. CloseMessage(session.id) \in CloseMessages /\ CloseMessage(session.id).type = "CLOSE"
  BY Basics DEF CloseMessages, CloseMessage
<1>2. TypeOK'
  BY <1>1 DEF TypeOK, LayerTypes
<1>3. RequestsGenuine' /\ ResponsesGenuine' /\ TasksGenuine'
  BY <1>1 DEF RequestsGenuine, ResponsesGenuine, TasksGenuine, Sent
<1>4. (OneSession /\ Numbering /\ CallProgress /\ AnswersEarned /\ HandledIsSeen
       /\ PendingGenuine /\ NoStalePending /\ AnswerMatchesCall)'
  BY DEF OneSession, Numbering, CallProgress, AnswersEarned, HandledIsSeen,
         PendingGenuine, NoStalePending, AnswerMatchesCall, Sent
<1> QED
  BY <1>2, <1>3, <1>4

\* Sessions that leave the table take their windows along: no request of
\* theirs can be accepted any more, so nothing has to be remembered of them.
LEMMA ForgetInv ==
  ASSUME Inv, NEW gone \in SUBSET SessionIds, Forget(gone),
         response_cache' \subseteq response_cache,
         inflight_requests' \subseteq inflight_requests,
         UNCHANGED <<net, transport, session, session_key, clientVars, executions, answer>>
  PROVE  Inv'
<1> USE DEF Inv, clientVars
<1>1. /\ sessions' = sessions \ gone /\ expired' = expired \ gone
      /\ recv_windows' \in [SessionIds -> [Streams -> Windows]]
      /\ \A sid \in SessionIds : sid \notin gone => recv_windows'[sid] = recv_windows[sid]
  BY NewWindowFacts DEF Forget, TypeOK, LayerTypes, NewStreamWindows
<1>2. \A t \in tasks' : \E u \in tasks :
        /\ t.req = u.req /\ t.attached \in BOOLEAN
        /\ t = IF u.req.sid \in gone THEN [u EXCEPT !.attached = FALSE] ELSE u
        /\ t \in [req : RequestMessages, attached : BOOLEAN]
  <2>1. tasks \subseteq [req : RequestMessages, attached : BOOLEAN]
    BY DEF TypeOK, LayerTypes
  <2>2. ASSUME NEW u \in tasks,
               NEW t, t = IF u.req.sid \in gone THEN [u EXCEPT !.attached = FALSE] ELSE u
        PROVE  /\ t.req = u.req /\ t.attached \in BOOLEAN
               /\ t \in [req : RequestMessages, attached : BOOLEAN]
    <3>1. u \in [req : RequestMessages, attached : BOOLEAN]
      BY <2>1
    <3>2. CASE u.req.sid \in gone
      <4>1. t = [req |-> u.req, attached |-> FALSE]
        BY <2>2, <3>1, <3>2
      <4> QED
        BY <3>1, <4>1
    <3> QED
      BY <2>2, <3>1, <3>2
  <2>3. tasks' = {IF u.req.sid \in gone THEN [u EXCEPT !.attached = FALSE] ELSE u : u \in tasks}
    BY Zenon DEF Forget
  <2>4. \A t \in tasks' : \E u \in tasks :
          t = IF u.req.sid \in gone THEN [u EXCEPT !.attached = FALSE] ELSE u
    BY <2>3, Zenon
  <2> HIDE DEF Inv
  <2> QED
    BY <2>2, <2>4, Zenon
<1>3. TypeOK'
  BY <1>1, <1>2 DEF TypeOK, LayerTypes
<1>4. TasksGenuine'
  <2>1. \A t, u \in tasks' : t.req.call = u.req.call => t = u
    BY <1>2 DEF TasksGenuine
  <2> QED
    BY <1>2, <2>1 DEF TasksGenuine
<1>5. HandledIsSeen'
  BY <1>1, Basics DEF HandledIsSeen, Sent
<1>6. (OneSession /\ Numbering /\ CallProgress /\ RequestsGenuine /\ ResponsesGenuine
       /\ AnswersEarned /\ PendingGenuine /\ NoStalePending /\ AnswerMatchesCall)'
  BY <1>1 DEF OneSession, Numbering, CallProgress, RequestsGenuine, ResponsesGenuine,
              AnswersEarned, PendingGenuine, NoStalePending, AnswerMatchesCall, Sent
<1> QED
  BY <1>3, <1>4, <1>5, <1>6

LEMMA DropExpiredInv == ASSUME Inv, NEW m \in net, DropExpired(m) PROVE Inv'
<1>1. {m.sid} \in SUBSET SessionIds
  BY DEF DropExpired, Inv, TypeOK, LayerTypes
<1> QED
  BY <1>1, ForgetInv DEF DropExpired, OfOthers

LEMMA HandleCloseInv == ASSUME Inv, NEW m \in net, HandleClose(m) PROVE Inv'
<1>1. {m.sid} \in SUBSET SessionIds
  BY DEF HandleClose, Received, Inv, TypeOK, LayerTypes
<1> QED
  BY <1>1, ForgetInv DEF HandleClose, OfOthers

LEMMA CleanupPassInv ==
  ASSUME Inv, NEW staleCache \in SUBSET response_cache,
         NEW staleInflight \in SUBSET inflight_requests,
         CleanupPass(staleCache, staleInflight)
  PROVE  Inv'
<1>1. expired \in SUBSET SessionIds
  BY DEF Inv, TypeOK, LayerTypes
<1> QED
  BY <1>1, ForgetInv DEF CleanupPass, OfOthers

LEMMA SessionExpiresInv ==
  ASSUME Inv, NEW sid \in SessionIds, SessionExpires(sid) PROVE Inv'
<1> USE DEF Inv, SessionExpires, clientVars, serverVars
<1>1. TypeOK'
  BY DEF TypeOK, LayerTypes
<1>2. (OneSession /\ Numbering /\ CallProgress /\ RequestsGenuine /\ ResponsesGenuine
       /\ TasksGenuine /\ AnswersEarned /\ HandledIsSeen /\ PendingGenuine
       /\ NoStalePending /\ AnswerMatchesCall)'
  BY DEF OneSession, Numbering, CallProgress, RequestsGenuine, ResponsesGenuine,
         TasksGenuine, AnswersEarned, HandledIsSeen, PendingGenuine, NoStalePending,
         AnswerMatchesCall, Sent
<1> QED
  BY <1>1, <1>2

\* A cached packet is still in the network: sending it again adds nothing.
LEMMA ResendCachedInv == ASSUME Inv, NEW m \in net, ResendCached(m) PROVE Inv'
<1> USE DEF Inv, clientVars, serverVars
<1>1. net' = net /\ UNCHANGED <<transport, session, sessions, session_key, expired,
                                clientVars, serverVars>>
  BY DEF ResendCached, Send, Cached, ResponsesGenuine
<1>2. TypeOK'
  BY <1>1 DEF TypeOK, LayerTypes
<1>3. (OneSession /\ Numbering /\ CallProgress /\ RequestsGenuine /\ ResponsesGenuine
       /\ TasksGenuine /\ AnswersEarned /\ HandledIsSeen /\ PendingGenuine
       /\ NoStalePending /\ AnswerMatchesCall)'
  BY <1>1 DEF OneSession, Numbering, CallProgress, RequestsGenuine, ResponsesGenuine,
              TasksGenuine, AnswersEarned, HandledIsSeen, PendingGenuine, NoStalePending,
              AnswerMatchesCall, Sent
<1> QED
  BY <1>2, <1>3

\* A request the window accepts is the packet of a call that was neither
\* executed nor answered. Afterwards the window refuses it, and still refuses
\* every request it refused before.
LEMMA AcceptRequestFacts ==
  ASSUME Inv, NEW m \in net, AcceptRequest(m)
  PROVE  /\ m \in RequestMessages /\ Sent(m.call) /\ packet[m.call] = m
         /\ m.sid = session.id /\ m.key = session.key /\ Decrypts(m)
         /\ executions[m.call] = 0 /\ answer[m.call] = "none"
         /\ recv_windows' \in [SessionIds -> [Streams -> Windows]]
         /\ Seen(recv_windows'[session.id][m.stream], m.seq)
         /\ \A s \in Streams, seq \in Nat :
              Seen(recv_windows[session.id][s], seq)
                => Seen(recv_windows'[session.id][s], seq)
<1> USE DEF Inv
<1> DEFINE w == recv_windows[m.sid][m.stream]
<1>1. /\ m \in RequestMessages /\ m.sid \in sessions
      /\ Accepts(w, m.seq)
      /\ recv_windows' = [recv_windows EXCEPT ![m.sid][m.stream] = Mark(w, m.seq)]
  BY NetTypes DEF AcceptRequest, Received
<1>2. packet[m.call] = m /\ m.call \in Calls /\ m.stream \in Streams /\ m.seq \in Nat
      /\ m.sid \in SessionIds
  BY <1>1 DEF RequestsGenuine, AcceptRequest, Received, RequestMessages
<1>3. Sent(m.call)
  BY <1>1, <1>2, RequestsAssumption DEF Sent, RequestMessages
<1>4. m.sid = session.id /\ m.key = session.key /\ Decrypts(m)
  BY <1>2, <1>3 DEF Numbering, OneSession, Decrypts
<1>5. executions[m.call] = 0 /\ answer[m.call] = "none"
  <2>1. ~ (executions[m.call] > 0 \/ answer[m.call] # "none")
    BY <1>1, <1>2, <1>4 DEF HandledIsSeen, Accepts
  <2>2. executions[m.call] \in Nat
    BY <1>2 DEF TypeOK, LayerTypes
  <2> QED
    BY <2>1, <2>2
<1>6. recv_windows \in [SessionIds -> [Streams -> Windows]] /\ w \in Windows
  BY <1>2 DEF TypeOK, LayerTypes
<1>7. Mark(w, m.seq) \in Windows
  BY <1>1, <1>2, <1>6, MarkType
<1>8. /\ recv_windows' \in [SessionIds -> [Streams -> Windows]]
      /\ recv_windows'[session.id][m.stream] = Mark(w, m.seq)
      /\ \A s \in Streams : s # m.stream =>
           recv_windows'[session.id][s] = recv_windows[session.id][s]
  BY <1>1, <1>2, <1>4, <1>6, <1>7
<1>9. Seen(recv_windows'[session.id][m.stream], m.seq)
  BY <1>1, <1>2, <1>6, <1>8, MarkSeen
<1>10. \A s \in Streams, seq \in Nat :
         Seen(recv_windows[session.id][s], seq) => Seen(recv_windows'[session.id][s], seq)
  BY <1>1, <1>2, <1>4, <1>6, <1>8, MarkKeepsSeen
<1> QED
  BY <1>1, <1>2, <1>3, <1>4, <1>5, <1>8, <1>9, <1>10

LEMMA DiscardAcceptedInv == ASSUME Inv, NEW m \in net, DiscardAccepted(m) PROVE Inv'
<1> USE DEF Inv, transportVars, clientVars
<1>1. /\ AcceptRequest(m)
      /\ UNCHANGED <<transportVars, clientVars, response_cache, inflight_requests,
                     tasks, executions, answer>>
  BY DEF DiscardAccepted
<1>2. TypeOK'
  BY <1>1, AcceptRequestFacts DEF TypeOK, LayerTypes
<1>3. HandledIsSeen'
  BY <1>1, AcceptRequestFacts, Basics DEF HandledIsSeen, Sent, RequestMessages
<1>4. (OneSession /\ Numbering /\ CallProgress /\ RequestsGenuine /\ ResponsesGenuine
       /\ TasksGenuine /\ AnswersEarned /\ PendingGenuine
       /\ NoStalePending /\ AnswerMatchesCall)'
  BY <1>1 DEF OneSession, Numbering, CallProgress, RequestsGenuine, ResponsesGenuine,
              TasksGenuine, AnswersEarned, PendingGenuine, NoStalePending,
              AnswerMatchesCall, Sent
<1> QED
  BY <1>2, <1>3, <1>4

LEMMA FailSplittingInv == ASSUME Inv, NEW m \in net, FailSplitting(m) PROVE Inv'
<1> USE DEF Inv, clientVars
<1>1. /\ AcceptRequest(m)
      /\ net' = net \cup {FrameAck(m)}
      /\ UNCHANGED <<transport, session, sessions, session_key, expired, clientVars,
                     response_cache, inflight_requests, tasks, executions, answer>>
  BY DEF FailSplitting, Send
<1>2. m \in RequestMessages
  BY <1>1, AcceptRequestFacts
<1>3. FrameAck(m) \in FrameAckMessages /\ FrameAck(m).type = "FRAME_ACK"
  BY <1>2 DEF FrameAck, FrameAckMessages, RequestMessages
<1>4. TypeOK'
  BY <1>1, <1>3, AcceptRequestFacts DEF TypeOK, LayerTypes
<1>5. HandledIsSeen'
  BY <1>1, AcceptRequestFacts, Basics DEF HandledIsSeen, Sent, RequestMessages
<1>6. (RequestsGenuine /\ ResponsesGenuine /\ TasksGenuine)'
  BY <1>1, <1>3 DEF RequestsGenuine, ResponsesGenuine, TasksGenuine, Sent
<1>7. (OneSession /\ Numbering /\ CallProgress /\ AnswersEarned /\ PendingGenuine
       /\ NoStalePending /\ AnswerMatchesCall)'
  BY <1>1 DEF OneSession, Numbering, CallProgress, AnswersEarned, PendingGenuine,
              NoStalePending, AnswerMatchesCall, Sent
<1> QED
  BY <1>4, <1>5, <1>6, <1>7

\* What the server sends for the packet of a call.
LEMMA ServerMessages ==
  ASSUME Inv, NEW m \in RequestMessages, Sent(m.call), packet[m.call] = m,
         NEW status \in Statuses
  PROVE  /\ FrameAck(m) \in FrameAckMessages /\ FrameAck(m).type = "FRAME_ACK"
         /\ Response(m, status) \in ResponseMessages
         /\ Response(m, status).type = "RESPONSE"
         /\ Response(m, status).body = [call |-> m.call, status |-> status]
         /\ Slot(Response(m, status)) = Slot(m)
         /\ Response(m, status).seq = m.seq
         /\ Response(m, status).key = session.key
<1>1. m.sid = session.id /\ session_key[m.sid] = session.key /\ m.call \in Calls
  BY DEF Inv, Numbering, OneSession, RequestMessages
<1>2. session.key \in Keys
  BY Basics DEF Inv
<1> QED
  BY <1>1, <1>2 DEF FrameAck, Response, FrameAckMessages, ResponseMessages,
                    RequestMessages, Responses, Slot

\* While a call has no answer, nothing in the network or at the client is one.
LEMMA NoAnswerYet ==
  ASSUME Inv, NEW c \in Calls, answer[c] = "none"
  PROVE  /\ \A r \in net : r.type = "RESPONSE" => r.body.call # c
         /\ future[c] \notin Responses
<1>1. \A r \in net : r.type = "RESPONSE" => r.body.call # c
  BY NetTypes DEF Inv, ResponsesGenuine, ResponseMessages, Responses, Statuses
<1>2. future[c] \notin Responses
  <2> SUFFICES ASSUME future[c] \in Responses PROVE FALSE
    OBVIOUS
  <2>1. future[c] = [call |-> c, status |-> "none"]
    BY DEF Inv, AnswerMatchesCall
  <2>2. future[c].status \in Statuses /\ "none" \notin Statuses
    BY DEF Responses, Statuses
  <2> QED
    BY <2>1, <2>2
<1> QED
  BY <1>1, <1>2

LEMMA AnswerNotFoundInv == ASSUME Inv, NEW m \in net, AnswerNotFound(m) PROVE Inv'
<1> DEFINE r == Response(m, "notfound")
<1> USE DEF Inv, clientVars
<1>1. /\ AcceptRequest(m)
      /\ net' = net \cup {FrameAck(m), r}
      /\ response_cache' = Cache(r)
      /\ inflight_requests' = inflight_requests \ {Slot(m)}
      /\ answer' = [answer EXCEPT ![m.call] = "notfound"]
      /\ UNCHANGED <<transport, session, sessions, session_key, expired, clientVars,
                     tasks, executions>>
  BY DEF AnswerNotFound, Send
<1>2. /\ m \in RequestMessages /\ Sent(m.call) /\ packet[m.call] = m /\ m.call \in Calls
      /\ executions[m.call] = 0 /\ answer[m.call] = "none"
  BY <1>1, AcceptRequestFacts DEF RequestMessages
<1>3. "notfound" \in Statuses
  BY DEF Statuses
<1> HIDE DEF r
<1>4. /\ FrameAck(m) \in FrameAckMessages /\ FrameAck(m).type = "FRAME_ACK"
      /\ r \in ResponseMessages /\ r.type = "RESPONSE"
      /\ r.body = [call |-> m.call, status |-> "notfound"]
      /\ Slot(r) = Slot(m) /\ r.seq = m.seq /\ r.key = session.key
  BY <1>2, <1>3, ServerMessages DEF r
<1>5. TypeOK'
  BY <1>1, <1>2, <1>3, <1>4, AcceptRequestFacts DEF TypeOK, LayerTypes, Cache
<1>6. RequestsGenuine'
  BY <1>1, <1>4 DEF RequestsGenuine
<1>7. ResponsesGenuine'
  <2>1. answer'[m.call] = "notfound" /\ \A c \in Calls : c # m.call => answer'[c] = answer[c]
    BY <1>1, <1>2 DEF TypeOK, LayerTypes
  <2>2. \A x \in net : x.type = "RESPONSE" => x.body.call # m.call /\ x.body.call \in Calls
    BY <1>2, NoAnswerYet, NetTypes DEF ResponseMessages, Responses
  <2> QED
    BY <1>1, <1>2, <1>4, <2>1, <2>2 DEF ResponsesGenuine, Cache, Sent
<1>8. TasksGenuine'
  <2>1. \A t \in tasks : t.req.call # m.call
    BY <1>2 DEF TasksGenuine
  <2> QED
    BY <1>1, <2>1 DEF TasksGenuine, TypeOK, LayerTypes, RequestMessages
<1>9. AnswersEarned'
  BY <1>1, <1>2 DEF AnswersEarned, TypeOK, LayerTypes
<1>10. HandledIsSeen'
  <2>1. \A c \in Calls : c # m.call => answer'[c] = answer[c]
    BY <1>1 DEF TypeOK, LayerTypes
  <2>2. \A c \in Calls : Sent(c)' <=> Sent(c)
    BY <1>1 DEF Sent
  <2>3. ASSUME NEW c \in Calls, executions'[c] > 0 \/ answer'[c] # "none"
        PROVE  Sent(c) /\ (session.id \in sessions =>
                 Seen(recv_windows'[session.id][packet[c].stream], packet[c].seq))
    <3>1. CASE c = m.call
      BY <1>1, <1>2, <3>1, AcceptRequestFacts
    <3>2. CASE c # m.call
      BY <1>1, <2>1, <2>3, <3>2, AcceptRequestFacts, Basics DEF HandledIsSeen, RequestMessages
    <3> QED
      BY <3>1, <3>2
  <2> QED
    BY <1>1, <2>2, <2>3 DEF HandledIsSeen
<1>11. AnswerMatchesCall'
  BY <1>1, <1>2, NoAnswerYet DEF AnswerMatchesCall, TypeOK, LayerTypes
<1>12. (OneSession /\ Numbering /\ CallProgress /\ PendingGenuine /\ NoStalePending)'
  BY <1>1 DEF OneSession, Numbering, CallProgress, PendingGenuine, NoStalePending, Sent
<1> QED
  BY <1>5, <1>6, <1>7, <1>8, <1>9, <1>10, <1>11, <1>12

LEMMA SpawnHandlerInv == ASSUME Inv, NEW m \in net, SpawnHandler(m) PROVE Inv'
<1> USE DEF Inv, clientVars
<1>1. /\ AcceptRequest(m)
      /\ net' = net \cup {FrameAck(m)}
      /\ tasks' = tasks \cup {[req |-> m, attached |-> TRUE]}
      /\ inflight_requests' = inflight_requests \cup {Slot(m)}
      /\ executions' = [executions EXCEPT ![m.call] = @ + 1]
      /\ UNCHANGED <<transport, session, sessions, session_key, expired, clientVars,
                     response_cache, answer>>
  BY DEF SpawnHandler, Send
<1>2. /\ m \in RequestMessages /\ Sent(m.call) /\ packet[m.call] = m /\ m.call \in Calls
      /\ executions[m.call] = 0 /\ answer[m.call] = "none"
  BY <1>1, AcceptRequestFacts DEF RequestMessages
<1>3. FrameAck(m) \in FrameAckMessages /\ FrameAck(m).type = "FRAME_ACK"
  BY <1>2 DEF FrameAck, FrameAckMessages, RequestMessages
<1>4. executions'[m.call] = 1 /\ \A c \in Calls : c # m.call => executions'[c] = executions[c]
  BY <1>1, <1>2 DEF TypeOK, LayerTypes
<1>5. TypeOK'
  <2>1. executions' \in [Calls -> Nat]
    BY <1>1, <1>2 DEF TypeOK, LayerTypes
  <2>2. Slot(m) \in Slots
    BY <1>2 DEF Slot, Slots, RequestMessages
  <2>3. [req |-> m, attached |-> TRUE] \in [req : RequestMessages, attached : BOOLEAN]
    BY <1>2
  <2>4. recv_windows' \in [SessionIds -> [Streams -> Windows]]
    BY <1>1, AcceptRequestFacts
  <2> QED
    BY <1>1, <1>3, <2>1, <2>2, <2>3, <2>4 DEF TypeOK, LayerTypes
<1>6. RequestsGenuine' /\ ResponsesGenuine'
  BY <1>1, <1>3 DEF RequestsGenuine, ResponsesGenuine, Sent
<1>7. TasksGenuine'
  <2> DEFINE new == [req |-> m, attached |-> TRUE]
  <2>1. \A t \in tasks : t.req.call # m.call /\ t.req.call \in Calls
    BY <1>2 DEF TasksGenuine, TypeOK, LayerTypes, RequestMessages
  <2>2. new.req = m /\ tasks' = tasks \cup {new}
    BY <1>1
  <2> HIDE DEF new
  <2>3. \A t \in tasks' : t.req \in net' /\ executions'[t.req.call] = 1
                         /\ answer'[t.req.call] = "none"
    BY <1>1, <1>2, <1>4, <2>1, <2>2 DEF TasksGenuine
  <2>4. \A t, u \in tasks' : t.req.call = u.req.call => t = u
    BY <2>1, <2>2 DEF TasksGenuine
  <2> QED
    BY <2>3, <2>4 DEF TasksGenuine
<1>8. AnswersEarned'
  BY <1>1, <1>2, <1>4 DEF AnswersEarned
<1>9. HandledIsSeen'
  <2>1. \A c \in Calls : Sent(c)' <=> Sent(c)
    BY <1>1 DEF Sent
  <2>2. ASSUME NEW c \in Calls, executions'[c] > 0 \/ answer'[c] # "none"
        PROVE  Sent(c) /\ (session.id \in sessions =>
                 Seen(recv_windows'[session.id][packet[c].stream], packet[c].seq))
    <3>1. CASE c = m.call
      BY <1>1, <1>2, <3>1, AcceptRequestFacts
    <3>2. CASE c # m.call
      BY <1>1, <1>4, <2>2, <3>2, AcceptRequestFacts, Basics DEF HandledIsSeen, RequestMessages
    <3> QED
      BY <3>1, <3>2
  <2> QED
    BY <1>1, <2>1, <2>2 DEF HandledIsSeen
<1>10. (OneSession /\ Numbering /\ CallProgress /\ PendingGenuine /\ NoStalePending
        /\ AnswerMatchesCall)'
  BY <1>1 DEF OneSession, Numbering, CallProgress, PendingGenuine, NoStalePending,
              AnswerMatchesCall, Sent
<1> QED
  BY <1>5, <1>6, <1>7, <1>8, <1>9, <1>10

LEMMA FinishRequestInv ==
  ASSUME Inv, NEW t \in tasks, NEW status \in {"ok", "error"}, FinishRequest(t, status)
  PROVE  Inv'
<1> DEFINE m == t.req
           r == Response(m, status)
           c == m.call
<1> USE DEF Inv, clientVars
<1>1. /\ tasks' = tasks \ {t}
      /\ net' = net \cup {r}
      /\ answer' = [answer EXCEPT ![c] = status]
      /\ response_cache' \in {response_cache, Cache(r)}
      /\ inflight_requests' \subseteq inflight_requests
      /\ UNCHANGED <<transport, session, sessions, session_key, expired, clientVars,
                     recv_windows, executions>>
  BY DEF FinishRequest, Send
<1>2. m \in RequestMessages /\ m \in net /\ executions[c] = 1 /\ answer[c] = "none"
  BY DEF TypeOK, LayerTypes, TasksGenuine
<1>3. packet[c] = m /\ c \in Calls /\ Sent(c)
  BY <1>2, RequestsAssumption DEF RequestsGenuine, RequestMessages, Sent
<1>4. status \in Statuses
  BY DEF Statuses
<1> HIDE DEF m, r, c
<1>5. /\ r \in ResponseMessages /\ r.type = "RESPONSE"
      /\ r.body = [call |-> c, status |-> status]
      /\ Slot(r) = Slot(m) /\ r.seq = m.seq /\ r.key = session.key
  BY <1>2, <1>3, <1>4, ServerMessages DEF r, c
<1>6. answer'[c] = status /\ \A d \in Calls : d # c => answer'[d] = answer[d]
  BY <1>1, <1>3 DEF TypeOK, LayerTypes
<1>7. TypeOK'
  <2>1. response_cache' \subseteq ResponseMessages
    BY <1>1, <1>5 DEF TypeOK, LayerTypes, Cache
  <2>2. answer' \in [Calls -> Statuses \cup {"none"}]
    BY <1>1, <1>3, <1>4 DEF TypeOK, LayerTypes
  <2> QED
    BY <1>1, <1>5, <2>1, <2>2 DEF TypeOK, LayerTypes
<1>8. RequestsGenuine'
  BY <1>1, <1>5 DEF RequestsGenuine
<1>9. ResponsesGenuine'
  <2>1. \A x \in net : x.type = "RESPONSE" => x.body.call # c /\ x.body.call \in Calls
    BY <1>2, <1>3, NoAnswerYet, NetTypes DEF ResponseMessages, Responses
  <2>2. r.body.call = c /\ r.body.status = status
    BY <1>5
  <2>3. \A x \in net' : x.type = "RESPONSE" =>
          /\ Sent(x.body.call) /\ Slot(x) = Slot(packet[x.body.call])
          /\ x.seq = packet[x.body.call].seq /\ x.key = session.key
          /\ x.body.status = answer'[x.body.call]
    BY <1>1, <1>3, <1>5, <1>6, <2>1, <2>2 DEF ResponsesGenuine
  <2>4. response_cache' \subseteq net'
    BY <1>1 DEF ResponsesGenuine, Cache
  <2> QED
    BY <1>1, <2>3, <2>4 DEF ResponsesGenuine, Sent
<1>10. TasksGenuine'
  <2>1. \A u \in tasks' : u \in tasks /\ u.req.call # c /\ u.req.call \in Calls
    BY <1>1 DEF TasksGenuine, TypeOK, LayerTypes, RequestMessages, c, m
  <2> QED
    BY <1>1, <1>6, <2>1 DEF TasksGenuine
<1>11. AnswersEarned'
  BY <1>1, <1>2, <1>6 DEF AnswersEarned
<1>12. HandledIsSeen'
  <2>1. \A d \in Calls : executions'[d] > 0 \/ answer'[d] # "none"
          => executions[d] > 0 \/ answer[d] # "none"
    BY <1>1, <1>2, <1>6
  <2> QED
    BY <1>1, <2>1 DEF HandledIsSeen, Sent
<1>13. AnswerMatchesCall'
  BY <1>1, <1>2, <1>3, <1>6, NoAnswerYet DEF AnswerMatchesCall
<1>14. (OneSession /\ Numbering /\ CallProgress /\ PendingGenuine /\ NoStalePending)'
  BY <1>1 DEF OneSession, Numbering, CallProgress, PendingGenuine, NoStalePending, Sent
<1> QED
  BY <1>7, <1>8, <1>9, <1>10, <1>11, <1>12, <1>13, <1>14

LEMMA FinishUnsendableInv == ASSUME Inv, NEW t \in tasks, FinishUnsendable(t) PROVE Inv'
<1> USE DEF Inv, FinishUnsendable, transportVars, clientVars
<1>1. TypeOK'
  BY DEF TypeOK, LayerTypes
<1>2. (OneSession /\ Numbering /\ CallProgress /\ RequestsGenuine /\ ResponsesGenuine
       /\ TasksGenuine /\ AnswersEarned /\ HandledIsSeen /\ PendingGenuine
       /\ NoStalePending /\ AnswerMatchesCall)'
  BY DEF OneSession, Numbering, CallProgress, RequestsGenuine, ResponsesGenuine,
         TasksGenuine, AnswersEarned, HandledIsSeen, PendingGenuine, NoStalePending,
         AnswerMatchesCall, Sent
<1> QED
  BY <1>1, <1>2

LEMMA StutterInv == ASSUME Inv, UNCHANGED vars PROVE Inv'
<1> USE DEF Inv, vars, transportVars, clientVars, serverVars
<1>1. TypeOK'
  BY DEF TypeOK, LayerTypes
<1>2. (OneSession /\ Numbering /\ CallProgress /\ RequestsGenuine /\ ResponsesGenuine
       /\ TasksGenuine /\ AnswersEarned /\ HandledIsSeen /\ PendingGenuine
       /\ NoStalePending /\ AnswerMatchesCall)'
  BY DEF OneSession, Numbering, CallProgress, RequestsGenuine, ResponsesGenuine,
         TasksGenuine, AnswersEarned, HandledIsSeen, PendingGenuine, NoStalePending,
         AnswerMatchesCall, Sent
<1> QED
  BY <1>1, <1>2

LEMMA NextInv == Inv /\ [Next]_vars => Inv'
<1> SUFFICES ASSUME Inv, [Next]_vars PROVE Inv'
  OBVIOUS
<1>1. CASE UNCHANGED vars
  BY <1>1, StutterInv
<1>2. CASE ClientNext
  BY <1>2, StartRequestInv, StartTooLargeInv, StartRefusedInv, ReturnInv, RetryInv,
     RetryClosedInv, GiveUpInv, CancelInv, OnResponseInv, OnFrameAckInv, CloseInv
  DEF ClientNext, CallNext
<1>3. CASE ServerNext
  BY <1>3, SessionExpiresInv, DropExpiredInv, HandleCloseInv, ResendCachedInv,
     DiscardAcceptedInv, FailSplittingInv, AnswerNotFoundInv, SpawnHandlerInv, FinishRequestInv,
     FinishUnsendableInv, CleanupPassInv
  DEF ServerNext, HandlerNext
<1> QED
  BY <1>1, <1>2, <1>3 DEF Next

\* Inv holds in every reachable state.
THEOREM Invariance == Spec => []Inv
BY InitInv, NextInv, PTL DEF Spec

\* Every variable keeps its type.
THEOREM TypeCorrect == Spec => []TypeOK
<1>1. Inv => TypeOK
  BY DEF Inv
<1> QED
  BY <1>1, Invariance, PTL

\* The handler of a call runs at most once while retries and duplicates of its
\* request arrive in any order and cache entries expire.
THEOREM ExecutedAtMostOnce == Spec => []AtMostOnceExecution
<1>1. Inv => AtMostOnceExecution
  BY DEF Inv, AnswersEarned, AtMostOnceExecution
<1> QED
  BY <1>1, Invariance, PTL

\* A call is given the answer that was made for it, never that of another.
THEOREM AnswersMatchCalls == Spec => []AnswerMatchesCall
<1>1. Inv => AnswerMatchesCall
  BY DEF Inv
<1> QED
  BY <1>1, Invariance, PTL

\* One request id of a session has one answer: two RESPONSE datagrams with the
\* same numbers are the same datagram.
THEOREM OneAnswer == Spec => []OneAnswerPerRequest
<1>1. ASSUME Inv PROVE OneAnswerPerRequest
  <2> SUFFICES ASSUME NEW m \in net, NEW n \in net, m.type = "RESPONSE",
                      n.type = "RESPONSE", Slot(m) = Slot(n)
               PROVE  m = n
    BY DEF OneAnswerPerRequest
  <2>1. m \in ResponseMessages /\ n \in ResponseMessages
    BY <1>1, NetTypes DEF Inv
  <2>2. /\ m.body.call \in Calls /\ n.body.call \in Calls
        /\ Sent(m.body.call) /\ Sent(n.body.call)
        /\ Slot(m) = Slot(packet[m.body.call]) /\ Slot(n) = Slot(packet[n.body.call])
        /\ m.body.status = answer[m.body.call] /\ n.body.status = answer[n.body.call]
        /\ m.seq = packet[m.body.call].seq /\ n.seq = packet[n.body.call].seq
        /\ m.key = session.key /\ n.key = session.key
    BY <1>1, <2>1 DEF Inv, ResponsesGenuine, ResponseMessages, Responses
  <2>3. m.body.call = n.body.call
    BY <1>1, <2>2 DEF Inv, Numbering, SameRequest, Slot
  <2>4. m.body = n.body
    BY <2>1, <2>2, <2>3 DEF ResponseMessages, Responses
  <2> QED
    BY <2>1, <2>2, <2>3, <2>4 DEF ResponseMessages, Slot
<1> QED
  BY <1>1, Invariance, PTL

\* No future that is done, and none of a call that timed out, stays registered.
THEOREM PendingNeverStale == Spec => []NoStalePending
<1>1. Inv => NoStalePending
  BY DEF Inv
<1> QED
  BY <1>1, Invariance, PTL

-----------------------------------------------------------------------------
(***************************************************************************)
(* Retries. A request the window refuses although nobody handled it has    *)
(* been overtaken, or came without a path or with one that does not split. *)
(***************************************************************************)

\* Steps that leave the windows of the sessions in the table, and the packets,
\* as they are.
LEMMA QuietForRetries ==
  ASSUME Inv, WindowBelow, RetryStillUseful,
         sessions' \subseteq sessions, session' = session, packet' = packet,
         \A sid \in sessions' : recv_windows'[sid] = recv_windows[sid],
         \A s \in Streams : streams'[s].next_seq \in Nat
                              /\ streams'[s].next_seq >= streams[s].next_seq,
         \A c \in Calls : /\ executions[c] > 0 => executions'[c] > 0
                          /\ answer[c] # "none" => answer'[c] # "none"
  PROVE  WindowBelow' /\ RetryStillUseful'
<1>1. WindowBelow'
  <2> SUFFICES ASSUME session.id \in sessions', NEW s \in Streams
               PROVE  recv_windows'[session.id][s].highest < streams'[s].next_seq
    BY DEF WindowBelow
  <2>1. recv_windows[session.id][s].highest < streams[s].next_seq
    BY DEF WindowBelow
  <2>2. /\ recv_windows[session.id][s].highest \in Nat \cup {-1}
        /\ streams[s].next_seq \in Nat
    BY Basics DEF Inv, TypeOK, LayerTypes, Windows, StreamStates
  <2> QED
    BY <2>1, <2>2
<1>2. RetryStillUseful'
  BY DEF RetryStillUseful
<1> QED
  BY <1>1, <1>2

\* A new request is beyond its stream's window.
LEMMA StartRequestForRetries ==
  ASSUME Inv, WindowBelow, RetryStillUseful,
         NEW c \in Calls, NEW s \in Streams, NEW p \in Paths, StartRequest(c, s, p)
  PROVE  WindowBelow' /\ RetryStillUseful'
<1> DEFINE pkt == RequestPacket(c, s, p)
<1>1. /\ packet' = [packet EXCEPT ![c] = pkt]
      /\ streams' = [streams EXCEPT ![s].open = TRUE,
                                    ![s].next_request_id = @ + 1,
                                    ![s].next_seq = @ + 1]
      /\ UNCHANGED <<session, sessions, recv_windows, executions, answer>>
  BY DEF StartRequest, TakeNumbers, serverVars
<1>2. pkt.stream = s /\ pkt.seq = streams[s].next_seq /\ pkt.sid = session.id
  BY DEF RequestPacket
<1> HIDE DEF pkt
<1>3. /\ streams \in [Streams -> StreamStates] /\ packet \in [Calls -> RequestMessages \cup {NoPacket}]
      /\ \A x \in Streams : streams[x].next_seq \in Nat
      /\ \A x \in Streams : streams'[x].next_seq \in {streams[x].next_seq, streams[x].next_seq + 1}
  BY <1>1 DEF Inv, TypeOK, LayerTypes, StreamStates
<1>4. \A x \in Streams : recv_windows[session.id][x].highest \in Nat \cup {-1}
  BY Basics DEF Inv, TypeOK, LayerTypes, Windows
<1>5. WindowBelow'
  BY <1>1, <1>3, <1>4 DEF WindowBelow
<1>6. RetryStillUseful'
  <2> SUFFICES ASSUME NEW d \in Calls, packet'[d] # NoPacket, packet'[d].sid \in sessions,
                      Seen(recv_windows[packet'[d].sid][packet'[d].stream], packet'[d].seq)
               PROVE  \/ executions[d] > 0 \/ answer[d] # "none"
                      \/ packet'[d].path \in {"empty", "malformed"}
                      \/ recv_windows[packet'[d].sid][packet'[d].stream].highest
                           - packet'[d].seq >= REPLAY_WINDOW
    BY <1>1 DEF RetryStillUseful
  <2>1. CASE d = c
    <3>1. recv_windows[session.id][s].highest < streams[s].next_seq
      BY <1>1, <1>2, <1>3, <2>1 DEF WindowBelow
    <3>2. ~ Seen(recv_windows[session.id][s], streams[s].next_seq)
      BY <1>3, <1>4, <3>1 DEF Seen
    <3> QED
      BY <1>1, <1>2, <1>3, <2>1, <3>2
  <2>2. CASE d # c
    BY <1>1, <1>3, <2>2 DEF RetryStillUseful
  <2> QED
    BY <2>1, <2>2
<1> QED
  BY <1>5, <1>6

\* A request the window takes is handled, or has no path that splits.
LEMMA AcceptForRetries ==
  ASSUME Inv, WindowBelow, RetryStillUseful, NEW m \in net, AcceptRequest(m),
         UNCHANGED <<session, sessions, packet, streams>>,
         \A c \in Calls : /\ executions[c] > 0 => executions'[c] > 0
                          /\ answer[c] # "none" => answer'[c] # "none",
         executions'[m.call] > 0 \/ answer'[m.call] # "none"
           \/ m.path \in {"empty", "malformed"}
  PROVE  WindowBelow' /\ RetryStillUseful'
<1> DEFINE w == recv_windows[session.id][m.stream]
<1>1. /\ m \in RequestMessages /\ Sent(m.call) /\ packet[m.call] = m
      /\ m.sid = session.id
  BY AcceptRequestFacts
<1>2. m.call \in Calls /\ m.stream \in Streams /\ m.seq \in Nat /\ m.sid \in SessionIds
  BY <1>1 DEF RequestMessages
<1>3. /\ Accepts(w, m.seq) /\ w \in Windows
      /\ recv_windows \in [SessionIds -> [Streams -> Windows]]
      /\ recv_windows' = [recv_windows EXCEPT ![session.id][m.stream] = Mark(w, m.seq)]
  BY <1>1, <1>2 DEF AcceptRequest, Inv, TypeOK, LayerTypes
<1>4. /\ recv_windows'[session.id][m.stream] = Mark(w, m.seq)
      /\ \A s \in Streams : s # m.stream =>
           recv_windows'[session.id][s] = recv_windows[session.id][s]
  BY <1>1, <1>2, <1>3
<1>5. /\ Mark(w, m.seq).highest >= w.highest
      /\ Mark(w, m.seq).highest \in {w.highest, m.seq}
      /\ w.highest \in Nat \cup {-1}
  BY <1>2, <1>3, MarkHighest DEF Windows
<1>6. m.seq < streams[m.stream].next_seq /\ m.rid = m.seq + 1
  BY <1>1, <1>2 DEF Inv, Numbering
<1> HIDE DEF w
<1>7. WindowBelow'
  <2> SUFFICES ASSUME session.id \in sessions, NEW s \in Streams
               PROVE  recv_windows'[session.id][s].highest < streams[s].next_seq
    BY DEF WindowBelow
  <2>1. recv_windows[session.id][s].highest < streams[s].next_seq
    BY DEF WindowBelow
  <2> QED
    BY <1>4, <1>5, <1>6, <2>1 DEF w
<1>8. RetryStillUseful'
  <2> SUFFICES ASSUME NEW c \in Calls, packet[c] # NoPacket, packet[c].sid \in sessions,
                      Seen(recv_windows'[packet[c].sid][packet[c].stream], packet[c].seq)
               PROVE  \/ executions'[c] > 0 \/ answer'[c] # "none"
                      \/ packet[c].path \in {"empty", "malformed"}
                      \/ recv_windows'[packet[c].sid][packet[c].stream].highest
                           - packet[c].seq >= REPLAY_WINDOW
    BY DEF RetryStillUseful
  <2>1. /\ packet[c] \in RequestMessages /\ packet[c].sid = session.id
        /\ packet[c].stream \in Streams /\ packet[c].seq \in Nat
        /\ packet[c].rid = packet[c].seq + 1
    BY Basics DEF Inv, Numbering, Sent, RequestMessages
  <2>2. CASE packet[c].stream # m.stream
    BY <1>4, <2>1, <2>2 DEF RetryStillUseful
  <2>3. CASE packet[c].stream = m.stream /\ packet[c].seq = m.seq
    <3>1. c = m.call
      BY <1>1, <1>2, <1>6, <2>1, <2>3 DEF Inv, Numbering, SameRequest, Sent
    <3> QED
      BY <1>1, <3>1
  <2>4. CASE packet[c].stream = m.stream /\ packet[c].seq # m.seq
    <3>1. Seen(Mark(w, m.seq), packet[c].seq)
      BY <1>4, <2>1, <2>4
    <3>2. \/ Seen(w, packet[c].seq)
          \/ Mark(w, m.seq).highest - packet[c].seq >= REPLAY_WINDOW
      BY <1>2, <1>3, <2>1, <2>4, <3>1, MarkOnlySeen
    <3>3. CASE Mark(w, m.seq).highest - packet[c].seq >= REPLAY_WINDOW
      BY <1>4, <2>1, <2>4, <3>3
    <3>4. CASE Seen(w, packet[c].seq)
      <4>1. \/ executions[c] > 0 \/ answer[c] # "none"
            \/ packet[c].path \in {"empty", "malformed"}
            \/ w.highest - packet[c].seq >= REPLAY_WINDOW
        BY <2>1, <2>4, <3>4 DEF RetryStillUseful, w
      <4>2. w.highest - packet[c].seq >= REPLAY_WINDOW
              => Mark(w, m.seq).highest - packet[c].seq >= REPLAY_WINDOW
        BY <1>2, <1>5, <2>1, WindowAssumption
      <4> QED
        BY <1>4, <2>1, <2>4, <4>1, <4>2
    <3> QED
      BY <3>2, <3>3, <3>4
  <2> QED
    BY <2>2, <2>3, <2>4
<1> QED
  BY <1>7, <1>8

LEMMA ClientForRetries ==
  ASSUME Inv, WindowBelow, RetryStillUseful, ClientNext
  PROVE  WindowBelow' /\ RetryStillUseful'
<1>1. CASE \E c \in Calls, s \in Streams, p \in Paths : StartRequest(c, s, p)
  BY <1>1, StartRequestForRetries
<1>2. ASSUME NEW c \in Calls, NEW s \in Streams, StartTooLarge(c, s)
      PROVE  WindowBelow' /\ RetryStillUseful'
  <2>1. \A x \in Streams : streams'[x].next_seq \in Nat
                             /\ streams'[x].next_seq >= streams[x].next_seq
    BY <1>2 DEF StartTooLarge, TakeNumbers, Inv, TypeOK, LayerTypes, StreamStates
  <2> QED
    BY <1>2, <2>1, QuietForRetries DEF StartTooLarge, transportVars, serverVars
<1>3. CASE \/ \E c \in Calls, s \in Streams : StartRefused(c, s)
           \/ \E c \in Calls : Return(c) \/ Retry(c) \/ RetryClosed(c)
                                 \/ GiveUp(c) \/ Cancel(c)
           \/ \E m \in net : OnResponse(m) \/ OnFrameAck(m)
           \/ Close
  <2>1. UNCHANGED <<sessions, session, packet, streams, recv_windows, executions, answer>>
    BY <1>3 DEF StartRefused, Return, Retry, RetryClosed, GiveUp, Cancel, OnResponse,
                OnFrameAck, Close, transportVars, clientVars, serverVars
  <2>2. \A x \in Streams : streams[x].next_seq \in Nat
    BY DEF Inv, TypeOK, LayerTypes, StreamStates
  <2> QED
    BY <2>1, <2>2, QuietForRetries
<1> QED
  BY <1>1, <1>2, <1>3 DEF ClientNext, CallNext

LEMMA ServerForRetries ==
  ASSUME Inv, WindowBelow, RetryStillUseful, ServerNext
  PROVE  WindowBelow' /\ RetryStillUseful'
<1>1. \A x \in Streams : streams[x].next_seq \in Nat
  BY DEF Inv, TypeOK, LayerTypes, StreamStates
<1>2. ASSUME NEW gone, Forget(gone),
             UNCHANGED <<session, packet, streams, executions, answer>>
      PROVE  WindowBelow' /\ RetryStillUseful'
  <2>1. sessions' \subseteq sessions
        /\ \A sid \in sessions' : recv_windows'[sid] = recv_windows[sid]
    BY <1>2 DEF Forget, Inv, TypeOK, LayerTypes
  <2> QED
    BY <1>1, <1>2, <2>1, QuietForRetries
<1>3. CASE \/ \E m \in net : DropExpired(m) \/ HandleClose(m)
           \/ \E staleCache \in SUBSET response_cache,
                 staleInflight \in SUBSET inflight_requests :
                CleanupPass(staleCache, staleInflight)
  BY <1>2, <1>3 DEF DropExpired, HandleClose, CleanupPass, clientVars
<1>4. CASE \/ \E sid \in SessionIds : SessionExpires(sid)
           \/ \E m \in net : ResendCached(m)
           \/ \E t \in tasks : FinishUnsendable(t)
  <2>1. UNCHANGED <<sessions, session, packet, streams, recv_windows, executions, answer>>
    BY <1>4 DEF SessionExpires, ResendCached, FinishUnsendable, transportVars,
                clientVars, serverVars
  <2> QED
    BY <1>1, <2>1, QuietForRetries
<1>5. ASSUME NEW t \in tasks, NEW status \in {"ok", "error"}, FinishRequest(t, status)
      PROVE  WindowBelow' /\ RetryStillUseful'
  <2>1. UNCHANGED <<sessions, session, packet, streams, recv_windows, executions>>
        /\ answer' = [answer EXCEPT ![t.req.call] = status]
    BY <1>5 DEF FinishRequest, clientVars
  <2>2. \A c \in Calls : answer[c] # "none" => answer'[c] # "none"
    BY <2>1 DEF Inv, TypeOK, LayerTypes
  <2> QED
    BY <1>1, <2>1, <2>2, QuietForRetries
<1>6. ASSUME NEW m \in net, DiscardAccepted(m) \/ FailSplitting(m)
      PROVE  WindowBelow' /\ RetryStillUseful'
  <2>1. AcceptRequest(m)
        /\ UNCHANGED <<session, sessions, packet, streams, executions, answer>>
    BY <1>6 DEF DiscardAccepted, FailSplitting, transportVars, clientVars
  <2>2. m.path \in {"empty", "malformed"}
    BY <1>6, <2>1, AcceptRequestFacts DEF DiscardAccepted, FailSplitting
  <2> QED
    BY <2>1, <2>2, AcceptForRetries
<1>7. ASSUME NEW m \in net, AnswerNotFound(m) PROVE WindowBelow' /\ RetryStillUseful'
  <2>1. AcceptRequest(m)
        /\ UNCHANGED <<session, sessions, packet, streams, executions>>
        /\ answer' = [answer EXCEPT ![m.call] = "notfound"]
    BY <1>7 DEF AnswerNotFound, clientVars
  <2>2. m.call \in Calls
    BY <2>1, AcceptRequestFacts DEF RequestMessages
  <2>3. /\ answer'[m.call] # "none"
        /\ \A c \in Calls : answer[c] # "none" => answer'[c] # "none"
    BY <2>1, <2>2 DEF Inv, TypeOK, LayerTypes
  <2> QED
    BY <2>1, <2>3, AcceptForRetries
<1>8. ASSUME NEW m \in net, SpawnHandler(m) PROVE WindowBelow' /\ RetryStillUseful'
  <2>1. AcceptRequest(m)
        /\ UNCHANGED <<session, sessions, packet, streams, answer>>
        /\ executions' = [executions EXCEPT ![m.call] = @ + 1]
    BY <1>8 DEF SpawnHandler, clientVars
  <2>2. m.call \in Calls
    BY <2>1, AcceptRequestFacts DEF RequestMessages
  <2>3. /\ executions'[m.call] > 0
        /\ \A c \in Calls : executions[c] > 0 => executions'[c] > 0
    BY <2>1, <2>2 DEF Inv, TypeOK, LayerTypes
  <2> QED
    BY <2>1, <2>3, AcceptForRetries
<1> QED
  BY <1>3, <1>4, <1>5, <1>6, <1>7, <1>8 DEF ServerNext, HandlerNext

-----------------------------------------------------------------------------

\* Only a request on a stream that may be used opens one.
LEMMA StreamsBoundedStep ==
  ASSUME Inv, StreamsBounded, [Next]_vars
  PROVE  StreamsBounded'
<1>1. ASSUME NEW s \in Streams, CanUse(s), TakeNumbers(s)
      PROVE  StreamsBounded'
  <2>1. OpenStreams' = OpenStreams \cup {s}
    BY <1>1 DEF TakeNumbers, OpenStreams, Inv, TypeOK, LayerTypes, StreamStates
  <2>2. /\ IsFiniteSet(OpenStreams \cup {s})
        /\ Cardinality(OpenStreams \cup {s})
             = IF s \in OpenStreams THEN Cardinality(OpenStreams)
               ELSE Cardinality(OpenStreams) + 1
    BY FS_AddElement DEF StreamsBounded
  <2>3. Cardinality(OpenStreams) \in Nat
    BY FS_CardinalityType DEF StreamsBounded
  <2>4. Cardinality(OpenStreams \cup {s}) <= MaxStreams
    BY <1>1, <2>2, <2>3, RequestsAssumption DEF CanUse, StreamsBounded
  <2> QED
    BY <2>1, <2>2, <2>4 DEF StreamsBounded
<1>2. CASE UNCHANGED streams
  BY <1>2 DEF StreamsBounded, OpenStreams
<1>3. CASE Next
  <2>1. CASE \/ \E c \in Calls, s \in Streams, p \in Paths : StartRequest(c, s, p)
             \/ \E c \in Calls, s \in Streams : StartTooLarge(c, s)
    BY <1>1, <2>1 DEF StartRequest, StartTooLarge
  <2>2. CASE \/ \E c \in Calls, s \in Streams : StartRefused(c, s)
             \/ \E c \in Calls : Return(c) \/ Retry(c) \/ RetryClosed(c)
                                   \/ GiveUp(c) \/ Cancel(c)
             \/ \E m \in net : OnResponse(m) \/ OnFrameAck(m)
             \/ Close
    BY <1>2, <2>2 DEF StartRefused, Return, Retry, RetryClosed, GiveUp, Cancel,
       OnResponse, OnFrameAck, Close, clientVars
  <2>3. CASE ServerNext
    BY <1>2, <2>3 DEF ServerNext, HandlerNext, SessionExpires, DropExpired, HandleClose,
       ResendCached, DiscardAccepted, FailSplitting, AnswerNotFound, SpawnHandler,
       FinishRequest, FinishUnsendable, CleanupPass, clientVars
  <2> QED
    BY <1>3, <2>1, <2>2, <2>3 DEF Next, ClientNext, CallNext
<1> QED
  BY <1>2, <1>3 DEF vars, clientVars

RInv == Inv /\ WindowBelow /\ RetryStillUseful /\ StreamsBounded

LEMMA RInvariance == Spec => []RInv
<1>1. Init => RInv
  <2> SUFFICES ASSUME Init PROVE WindowBelow /\ RetryStillUseful /\ StreamsBounded
    BY InitInv DEF RInv
  <2>1. OpenStreams = {}
    BY DEF Init, LayerInit, NewStream, OpenStreams
  <2>2. StreamsBounded
    BY <2>1, FS_EmptySet, RequestsAssumption DEF StreamsBounded
  <2> QED
    BY <2>2 DEF Init, LayerInit, EstablishedInit, WindowBelow, RetryStillUseful,
                NewStreamWindows, NewWindow, NewStream
<1>2. RInv /\ [Next]_vars => RInv'
  <2> SUFFICES ASSUME RInv, [Next]_vars PROVE WindowBelow' /\ RetryStillUseful'
    BY NextInv, StreamsBoundedStep DEF RInv
  <2>1. CASE UNCHANGED vars
    BY <2>1 DEF vars, transportVars, clientVars, serverVars, WindowBelow, RetryStillUseful, RInv
  <2> QED
    BY <2>1, ClientForRetries, ServerForRetries DEF Next, RInv
<1> QED
  BY <1>1, <1>2, PTL DEF Spec

\* A retry can still succeed where the first try did not: the window refuses
\* only what was handled, what came without a path or with one that does not
\* split, and what was overtaken by REPLAY_WINDOW newer numbers of its stream.
THEOREM RetriesStayUseful == Spec => []RetryStillUseful
<1>1. RInv => RetryStillUseful
  BY DEF RInv
<1> QED
  BY <1>1, RInvariance, PTL

\* What the proofs rest on holds too: no two calls share numbers, no more than
\* MaxStreams streams are open, packets and responses are those of their calls,
\* and windows remember what was handled.
THEOREM Bookkept == Spec => []Bookkeeping
<1>1. RInv => Bookkeeping
  BY DEF RInv, Inv, Bookkeeping
<1> QED
  BY <1>1, RInvariance, PTL

-----------------------------------------------------------------------------
(***************************************************************************)
(* Requests implements AtMostOnceRPC: forgetting numbers, datagrams,       *)
(* windows and caches, every step is a step of the abstract specification  *)
(* or changes nothing it speaks of.                                        *)
(***************************************************************************)

\* The reply of the abstract specification.
Reply == [c \in Calls |-> IF phase[c] = "answered" THEN future[c] ELSE NoReply]

LEMMA InitRefines == Init => RPC!Init
BY DEF Init, LayerInit, RPC!Init

\* A call that has not returned an answer fails, or is issued.
LEMMA PhaseStep ==
  ASSUME Inv, NEW c \in Calls, NEW p \in Failures \cup {"waiting"},
         phase[c] \in {"idle", "waiting"}, p = "waiting" => phase[c] = "idle",
         phase' = [phase EXCEPT ![c] = p],
         UNCHANGED <<future, executions, answer>>
  PROVE  RPC!Next
<1>1. phase \in [Calls -> {"idle", "waiting", "answered"} \cup Failures]
  BY DEF Inv, TypeOK, LayerTypes
<1>2. p # "answered"
  BY DEF Failures
<1>3. Reply' = Reply
  BY <1>1, <1>2 DEF Reply
<1>4. CASE p = "waiting"
  BY <1>3, <1>4 DEF Reply, RPC!Next, RPC!Issue
<1>5. CASE p \in Failures
  <2>1. RPC!Fail(c, p)
    BY <1>3, <1>5 DEF Reply, RPC!Fail
  <2> QED
    BY <1>5, <2>1 DEF RPC!Next
<1> QED
  BY <1>4, <1>5

\* wait_for returns in Return or Retry.
LEMMA OutcomeStep ==
  ASSUME Inv, NEW c \in Calls, phase[c] = "waiting", future[c] # NoReply,
         phase' = [phase EXCEPT ![c] = Outcome(c)],
         UNCHANGED <<future, executions, answer>>
  PROVE  RPC!Next
<1>1. CASE future[c] = Undecryptable
  <2>1. phase' = [phase EXCEPT ![c] = "security"] /\ "security" \in Failures
    BY <1>1 DEF Outcome, Failures
  <2>2. "security" # "waiting"
    OBVIOUS
  <2> QED
    BY <2>1, <2>2, PhaseStep
<1>2. CASE future[c] # Undecryptable
  <2>1. phase \in [Calls -> {"idle", "waiting", "answered"} \cup Failures]
        /\ future[c] \in Responses
    BY <1>2 DEF Inv, TypeOK, LayerTypes
  <2>2. future[c] = [call |-> c, status |-> answer[c]]
    BY <2>1 DEF Inv, AnswerMatchesCall
  <2>3. answer[c] # "none"
    BY <2>1, NoAnswerYet
  <2>4. phase' = [phase EXCEPT ![c] = "answered"]
    BY <1>2 DEF Outcome
  <2>5. Reply' = [Reply EXCEPT ![c] = [call |-> c, status |-> answer[c]]]
    BY <2>1, <2>2, <2>4 DEF Reply
  <2>6. RPC!Complete(c)
    BY <2>3, <2>4, <2>5 DEF Reply, RPC!Complete
  <2> QED
    BY <2>6 DEF RPC!Next
<1> QED
  BY <1>1, <1>2

\* What the abstract specification does not see.
LEMMA HiddenStep ==
  ASSUME UNCHANGED <<phase, future, executions, answer>>
  PROVE  UNCHANGED RPC!rpcVars
BY DEF RPC!rpcVars

LEMMA ClientRefines == ASSUME Inv, ClientNext PROVE [RPC!Next]_RPC!rpcVars
<1> USE DEF serverVars
<1>1. ASSUME NEW c \in Calls, NEW s \in Streams, NEW p \in Paths, StartRequest(c, s, p)
      PROVE  RPC!Next
  BY <1>1, PhaseStep DEF StartRequest, Failures
<1>2. ASSUME NEW c \in Calls, NEW s \in Streams, StartTooLarge(c, s)
      PROVE  RPC!Next
  BY <1>2, PhaseStep DEF StartTooLarge, Failures
<1>3. ASSUME NEW c \in Calls, NEW s \in Streams, StartRefused(c, s)
      PROVE  RPC!Next
  BY <1>3, PhaseStep DEF StartRefused, Failures
<1>4. ASSUME NEW c \in Calls, Return(c)
      PROVE  RPC!Next
  BY <1>4, OutcomeStep DEF Return
<1>5. ASSUME NEW c \in Calls, Retry(c)
      PROVE  RPC!Next \/ UNCHANGED RPC!rpcVars
  <2>1. CASE future[c] = NoReply
    BY <1>5, <2>1, HiddenStep DEF Retry
  <2>2. CASE future[c] # NoReply
    BY <1>5, <2>2, OutcomeStep DEF Retry
  <2> QED
    BY <2>1, <2>2
<1>6. ASSUME NEW c \in Calls, RetryClosed(c) \/ GiveUp(c) \/ Cancel(c)
      PROVE  RPC!Next
  BY <1>6, PhaseStep DEF RetryClosed, GiveUp, Cancel, Failures
<1>7. ASSUME NEW m \in net, OnResponse(m)
      PROVE  UNCHANGED RPC!rpcVars
  \* A call that was answered has no future registered any more.
  <2>1. \A c \in Calls : phase[c] = "answered" => future'[c] = future[c]
    BY <1>7 DEF OnResponse, Inv, NoStalePending
  <2>2. UNCHANGED <<phase, executions, answer>>
    BY <1>7 DEF OnResponse
  <2>3. Reply' = Reply
    BY <2>1, <2>2 DEF Reply
  <2> QED
    BY <2>2, <2>3 DEF Reply, RPC!rpcVars
<1>8. ASSUME NEW m \in net, OnFrameAck(m)
      PROVE  UNCHANGED RPC!rpcVars
  BY <1>8, HiddenStep DEF OnFrameAck
<1>9. CASE Close
  BY <1>9, HiddenStep DEF Close, clientVars
<1> QED
  BY <1>1, <1>2, <1>3, <1>4, <1>5, <1>6, <1>7, <1>8, <1>9 DEF ClientNext, CallNext

LEMMA ServerRefines == ASSUME Inv, ServerNext PROVE [RPC!Next]_RPC!rpcVars
<1> USE DEF clientVars
<1>1. ASSUME NEW m \in net, SpawnHandler(m)
      PROVE  RPC!Next
  <2>1. m.call \in Calls /\ Sent(m.call)
        /\ executions[m.call] = 0 /\ answer[m.call] = "none"
    BY <1>1, AcceptRequestFacts DEF SpawnHandler, RequestMessages
  <2>2. executions' = [executions EXCEPT ![m.call] = 1] /\ UNCHANGED <<phase, future, answer>>
    BY <1>1, <2>1 DEF SpawnHandler
  <2>3. RPC!Execute(m.call)
    BY <2>1, <2>2 DEF RPC!Execute, Inv, CallProgress
  <2> QED
    BY <2>1, <2>3 DEF RPC!Next
<1>2. ASSUME NEW m \in net, AnswerNotFound(m)
      PROVE  RPC!Next
  <2>1. m.call \in Calls /\ Sent(m.call)
        /\ executions[m.call] = 0 /\ answer[m.call] = "none"
    BY <1>2, AcceptRequestFacts DEF AnswerNotFound, RequestMessages
  <2>2. answer' = [answer EXCEPT ![m.call] = "notfound"] /\ UNCHANGED <<phase, future, executions>>
    BY <1>2 DEF AnswerNotFound
  <2>3. RPC!Settle(m.call, "notfound")
    BY <2>1, <2>2 DEF RPC!Settle, Inv, CallProgress
  <2> QED
    BY <2>1, <2>3 DEF RPC!Next, Statuses
<1>3. ASSUME NEW t \in tasks, NEW status \in {"ok", "error"}, FinishRequest(t, status)
      PROVE  RPC!Next
  <2> DEFINE c == t.req.call
  <2>1. t.req \in RequestMessages /\ t.req \in net
        /\ executions[c] = 1 /\ answer[c] = "none"
    BY DEF Inv, TypeOK, LayerTypes, TasksGenuine
  <2>2. c \in Calls /\ Sent(c)
    BY <2>1, RequestsAssumption DEF Inv, RequestsGenuine, RequestMessages, Sent
  <2>3. answer' = [answer EXCEPT ![c] = status] /\ UNCHANGED <<phase, future, executions>>
    BY <1>3 DEF FinishRequest
  <2>4. RPC!Settle(c, status)
    BY <2>1, <2>2, <2>3 DEF RPC!Settle, Inv, CallProgress
  <2> QED
    BY <2>2, <2>4 DEF RPC!Next, Statuses
<1>4. ASSUME NEW sid \in SessionIds, SessionExpires(sid)
      PROVE  UNCHANGED RPC!rpcVars
  BY <1>4, HiddenStep DEF SessionExpires, serverVars
<1>5. ASSUME NEW m \in net,
             DropExpired(m) \/ HandleClose(m) \/ ResendCached(m) \/ DiscardAccepted(m)
               \/ FailSplitting(m)
      PROVE  UNCHANGED RPC!rpcVars
  BY <1>5, HiddenStep DEF DropExpired, HandleClose, ResendCached, DiscardAccepted,
     FailSplitting, serverVars
<1>6. ASSUME NEW t \in tasks, FinishUnsendable(t)
      PROVE  UNCHANGED RPC!rpcVars
  BY <1>6, HiddenStep DEF FinishUnsendable
<1>7. ASSUME NEW staleCache, NEW staleInflight, CleanupPass(staleCache, staleInflight)
      PROVE  UNCHANGED RPC!rpcVars
  BY <1>7, HiddenStep DEF CleanupPass
<1> QED
  BY <1>1, <1>2, <1>3, <1>4, <1>5, <1>6, <1>7 DEF ServerNext, HandlerNext

\* request() is an at-most-once remote call over a network that loses, repeats
\* and reorders datagrams, as long as client and server keep one session.
THEOREM Refinement == Spec => ImplementsRPC
<1>1. Inv /\ [Next]_vars => [RPC!Next]_RPC!rpcVars
  <2> SUFFICES ASSUME Inv, [Next]_vars PROVE [RPC!Next]_RPC!rpcVars
    OBVIOUS
  <2>1. CASE UNCHANGED vars
    BY <2>1, HiddenStep DEF vars, clientVars, serverVars
  <2> QED
    BY <2>1, ClientRefines, ServerRefines DEF Next
<1> QED
  BY <1>1, InitRefines, Invariance, PTL DEF Spec, RPC!Spec, ImplementsRPC
=============================================================================

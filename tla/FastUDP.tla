-------------------------------- MODULE FastUDP --------------------------------
(***************************************************************************)
(* Client and server whole: sessions come and go by Handshake while calls  *)
(* of request() run by Requests, over one network, one session table and   *)
(* one self.session.                                                       *)
(*                                                                         *)
(* The two layers meet in four places. An ACK replaces the TransportSession*)
(* and with it the streams that number requests, while the client's pending*)
(* table and windows live on. A session that enters the server's table does*)
(* so without windows and cache, one that is resumed keeps both. A session *)
(* that leaves the table takes them away. One cleanup pass serves both.    *)
(***************************************************************************)
EXTENDS Transport, FiniteSets, ReplayWindow

CONSTANTS
  Calls, Streams, Paths, MaxStreams, Retries, NoPacket, NoReply,
  Undecryptable, ClientNonces, ServerNonces, MaxClients, NoNonce, NoTicket,
  MaxFaults          \* bound on timeouts, cancellations, closes, failures
                     \* of a handler and restarts

VARIABLES
  streams, phase, packet, attempt, future, pending_requests, acked,
  client_windows, recv_windows, response_cache, inflight_requests, tasks,
  executions, answer, acks_read,                        \* Requests
  connecting, pending_handshake, resumption_ticket, pending, stale_tickets,
  adopted,                                              \* Handshake
  lives,             \* history: times a session id entered self.sessions
  runs,              \* history: the handlers started
  faults             \* faults so far

R == INSTANCE Requests
H == INSTANCE Handshake

ASSUME FastUDPAssumption ==
  /\ R!RequestsAssumption /\ H!HandshakeAssumption
  /\ MaxFaults \in Nat

callVars == <<phase, packet, attempt, future, pending_requests, acked,
              client_windows, acks_read>>
serverVars == <<recv_windows, response_cache, inflight_requests, tasks,
                executions, answer>>
requestVars == <<streams, callVars, serverVars>>
connectVars == <<connecting, pending_handshake, resumption_ticket, adopted>>
handshakeVars == <<connectVars, pending, stale_tickets>>
vars == <<transportVars, requestVars, handshakeVars, lives, runs, faults>>

-----------------------------------------------------------------------------

Init ==
  /\ H!Init /\ R!LayerInit
  /\ lives = [sid \in SessionIds |-> 0]
  /\ runs = {} /\ faults = 0

\* The call whose handler the step starts.
Started == CHOOSE c \in Calls : executions'[c] # executions[c]

\* What tells one run of a handler from the others: the numbers of the request,
\* and which time of its session it was.
Run(c) ==
  [sid |-> packet[c].sid, stream |-> packet[c].stream, rid |-> packet[c].rid,
   life |-> lives[packet[c].sid]]

\* A step of request(), of a handler or of close(), whatever else goes on.
\* FRAME_ACKs are not read: they set events that nothing waits for.
RequestStep ==
  /\ R!CallNext \/ R!Close \/ R!HandlerNext({"ok"})
  /\ runs' = IF executions' = executions THEN runs ELSE runs \cup {Run(Started)}
  /\ UNCHANGED <<handshakeVars, lives>>

\* connect(), and the steps of a handshake that touch no session.
HandshakeStep ==
  /\ \/ \E cnonce \in H!FreshClientNonces : H!Connect(cnonce)
     \/ H!ConnectReturns \/ H!ConnectTimesOut
     \/ \E m \in net : H!OnChallenge(m) \/ H!HandleLateProve(m)
     \/ \E snonce \in H!FreshServerNonces, m \in net : H!HandleHello(m, snonce)
     \/ \E p \in pending : H!PendingExpires(p)
     \/ \E side \in H!Sides, m \in H!Acks : H!TicketExpires(side, m.ticket)
  /\ UNCHANGED <<requestVars, lives, runs>>

FreshStreams == [s \in Streams |-> R!NewStream]

\* _on_ack makes a TransportSession, whose streams start anew. The client's
\* pending_requests and recv_windows stay as they are.
AdoptSession(m) ==
  /\ H!OnAck(m)
  /\ streams' = FreshStreams
  /\ UNCHANGED <<callVars, serverVars, lives, runs>>

\* self.sessions[session_id] = SessionState(...), or the object that is there.
Enters(sid) ==
  lives' = IF sid \in sessions THEN lives ELSE [lives EXCEPT ![sid] = @ + 1]

\* Mutant: a resumed session forgets what it has seen.
ResumeSessionCleared(m) ==
  /\ \E snonce \in H!FreshServerNonces : H!HandleResume(m, snonce)
  /\ Enters(m.ticket.sid)
  /\ recv_windows' = [recv_windows EXCEPT ![m.ticket.sid] = R!NewStreamWindows]
  /\ response_cache' = R!OfOthers(response_cache, {m.ticket.sid})
  /\ UNCHANGED <<streams, callVars, inflight_requests, tasks, executions, answer,
                 runs>>

\* A live session is resumed with its windows, cache and handlers.
ResumeSession(m) ==
  /\ m.type = "HELLO"
  /\ \E snonce \in H!FreshServerNonces : H!HandleResume(m, snonce)
  /\ Enters(m.ticket.sid)
  /\ UNCHANGED <<requestVars, runs>>

\* Mutant: the session id may be one that was given out before.
ProveSessionReusing(m) ==
  \E sid \in SessionIds :
    /\ H!HandleProve(m, sid)
    /\ Enters(sid)
    /\ UNCHANGED <<requestVars, runs>>

\* A session of its own: no windows, no cache, no handlers.
ProveSession(m) ==
  m.type = "PROVE" /\ \E sid \in H!FreshSessionIds :
    /\ H!HandleProve(m, sid)
    /\ Enters(sid)
    /\ UNCHANGED <<requestVars, runs>>

\* One turn of _cleanup_loop, over both tables.
CleanupPass(staleCache, staleInflight) ==
  /\ R!CleanupPass(staleCache, staleInflight)
  /\ pending' = {p \in pending : ~ p.expired}
  /\ UNCHANGED <<connectVars, stale_tickets, lives, runs>>

\* A new server process: sessions, what they hold, and running handlers go.
Restart ==
  /\ H!Restart
  /\ recv_windows' = [sid \in SessionIds |-> R!NewStreamWindows]
  /\ response_cache' = {} /\ inflight_requests' = {} /\ tasks' = {}
  /\ UNCHANGED <<streams, callVars, executions, answer, lives, runs>>

\* A deadline goes by, the caller gives up, the endpoint is closed, or a handler
\* ends without an answer.
Fault ==
  \/ expired' \ expired # {} \/ stale_tickets' # stale_tickets
  \/ \E p \in pending' : p.expired /\ p \notin pending
  \/ transport /\ ~ transport'
  \/ Cardinality(tasks') < Cardinality(tasks) /\ net' = net
  \/ connecting = "waiting" /\ connecting' = "failed"
  \/ \E c \in Calls : phase[c] = "waiting" /\ phase'[c] \in {"timeout", "cancelled"}

Next ==
  /\ \/ /\ \/ RequestStep \/ HandshakeStep \/ CleanupPass({}, {})
           \/ \E m \in net : AdoptSession(m) \/ ResumeSession(m) \/ ProveSession(m)
        /\ faults' = IF Fault THEN faults + 1 ELSE faults
     \/ /\ \/ Restart
           \/ \E staleCache \in SUBSET response_cache,
                staleInflight \in SUBSET inflight_requests :
               CleanupPass(staleCache, staleInflight)
        /\ faults' = faults + 1
  /\ faults' <= MaxFaults

Spec == Init /\ [][Next]_vars

-----------------------------------------------------------------------------
(***************************************************************************)
(* Properties.                                                             *)
(***************************************************************************)

\* What Handshake sees of the network.
HandshakeTypes == {"HELLO", "CHALLENGE", "PROVE", "ACK", "CLOSE"}
HandshakeNet == {m \in net : m.type \in HandshakeTypes}
HS == INSTANCE Handshake WITH net <- HandshakeNet

Sent(c) == packet[c] # NoPacket

\* The calls whose requests carry the session id, stream and request id of c's.
Namesakes(c) == {d \in Calls : Sent(d) /\ R!Slot(packet[d]) = R!Slot(packet[c])}

TypeOK ==
  /\ net \subseteq CloseMessages \cup H!HelloMessages \cup H!NonceMessages
       \cup H!AckMessages \cup R!RequestMessages \cup R!ResponseMessages
       \cup R!FrameAckMessages
  /\ HS!TypeOK /\ R!LayerTypes
  /\ lives \in [SessionIds -> Nat]

\* Whatever is retried, resumed or renumbered, no handler starts under a session
\* id, stream and request id that had a handler since the session last entered
\* the table.
OneRunPerLife == [][executions' # executions => Run(Started) \notin runs]_vars

\* The answer a call gets was made for a request of the same stream and id: the
\* pending table never crosses numbers, even when sessions are replaced.
AnswerByNumbers ==
  \A c \in Calls :
    future[c] \in R!Responses => R!SameRequest(packet[c], packet[future[c].call])

\* If the client's window already refuses the answer to a call that is still
\* registered, another call's answer had the number, or newer ones passed it.
RefusalExplained ==
  \A p \in pending_requests :
    LET m == packet[p.call] IN
    Seen(client_windows[m.stream], m.seq) =>
      \/ client_windows[m.stream].highest - m.seq >= REPLAY_WINDOW
      \/ \E r \in net : /\ r.type = "RESPONSE" /\ r.body.call # p.call
                        /\ r.stream = m.stream /\ r.seq = m.seq

\* If the server's window refuses a call's request that no handler and no 404
\* has met, then another call carried the same numbers in the same session, it
\* came without a path or with one that split_path raises on, the client had the
\* key wrong, or newer requests passed it.
StarvationExplained ==
  \A c \in Calls :
    LET m == packet[c] IN
    (/\ Sent(c) /\ m.sid \in sessions /\ executions[c] = 0 /\ answer[c] = "none"
     /\ Seen(recv_windows[m.sid][m.stream], m.seq)) =>
      \/ Namesakes(c) # {c}
      \/ m.path \in {"empty", "malformed"} \/ m.key # session_key[m.sid]
      \/ recv_windows[m.sid][m.stream].highest - m.seq >= REPLAY_WINDOW

\* Handshakes and sessions behave as if no request were ever made.
ImplementsHandshake == HS!Spec

\* README, "duplicate protection" under reliability: a call gets the answer the
\* server made for it and none made for another.
AnswerMatchesCall ==
  \A c \in Calls :
    future[c] \in R!Responses => future[c] = [call |-> c, status |-> answer[c]]
=============================================================================

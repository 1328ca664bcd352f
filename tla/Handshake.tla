------------------------------ MODULE Handshake ------------------------------
(***************************************************************************)
(* Session establishment: FastUDPClient.connect and its callbacks, and     *)
(* FastUDPServer._handle_hello and _handle_prove with the tables they fill.*)
(*                                                                         *)
(*   HELLO -> CHALLENGE -> PROVE -> ACK     a new session                  *)
(*   HELLO(ticket) -> ACK                   a session from a ticket        *)
(*                                                                         *)
(* One client, which may connect again and again, and one server, which may*)
(* restart; both hold the pre-shared key, so every message carries a valid *)
(* MAC and says no more than its nonces, ticket and session id. Nonces and *)
(* session ids are random in the code, and taken as unused here.           *)
(***************************************************************************)
EXTENDS Transport, FiniteSets

CONSTANTS
  ClientNonces, ServerNonces,
  MaxClients,        \* max_clients of the server
  NoNonce,           \* pending_handshake is empty
  NoTicket           \* an empty resumption ticket

\* derive_session_key, HKDF over both nonces: injective, so the pair itself.
DeriveKey(cnonce, snonce) == <<cnonce, snonce>>

\* A sealed ticket. The nonce of the ACK that carries it tells two apart.
Tickets == [sid : SessionIds, key : Keys, snonce : ServerNonces]

ASSUME HandshakeAssumption ==
  /\ ClientNonces # {} /\ ServerNonces # {}
  /\ Keys = ClientNonces \X ServerNonces
  /\ MaxClients \in Nat
  /\ NoNonce \notin ClientNonces
  /\ NoTicket \notin Tickets

\* Client and server compare expires_at each with a clock of its own.
Sides == {"client", "server"}

VARIABLES
  connecting,        \* client: where the latest connect() is, or how it ended
  pending_handshake, \* client: the nonce of the latest HELLO
  resumption_ticket, \* client: the ticket of the latest ACK
  pending,           \* server: PendingHandshake objects
  stale_tickets,     \* tickets past their expires_at, by the clock of each side
  adopted            \* history: the nonce under which `session` was adopted

clientVars == <<connecting, pending_handshake, resumption_ticket, adopted>>
vars == <<transportVars, clientVars, pending, stale_tickets>>

-----------------------------------------------------------------------------

HelloMessages ==
  [type : {"HELLO"}, cnonce : ClientNonces, ticket : Tickets \cup {NoTicket}]

NonceMessages ==
  [type : {"CHALLENGE", "PROVE"}, cnonce : ClientNonces, snonce : ServerNonces]

AckMessages ==
  [type : {"ACK"}, cnonce : ClientNonces, snonce : ServerNonces, ticket : Tickets]

Acks == {m \in net : m.type = "ACK"}

PendingHandshakes ==
  [cnonce : ClientNonces, snonce : ServerNonces, expired : BOOLEAN]

TypeOK ==
  /\ net \subseteq CloseMessages \cup HelloMessages \cup NonceMessages \cup AckMessages
  /\ transport \in BOOLEAN
  /\ session \in Established \cup {NoSession}
  /\ sessions \subseteq SessionIds
  /\ session_key \in [SessionIds -> Keys]
  /\ expired \subseteq sessions
  /\ connecting \in {"idle", "waiting", "connected", "failed"}
  /\ pending_handshake \in ClientNonces \cup {NoNonce}
  /\ resumption_ticket \in Tickets \cup {NoTicket}
  /\ pending \subseteq PendingHandshakes
  /\ stale_tickets \in [Sides -> SUBSET Tickets]
  /\ adopted \in ClientNonces \cup {NoNonce}

Init ==
  /\ net = {} /\ transport = FALSE /\ session = NoSession
  /\ sessions = {} /\ expired = {}
  /\ session_key = [sid \in SessionIds |-> CHOOSE key \in Keys : TRUE]
  /\ connecting = "idle" /\ pending_handshake = NoNonce
  /\ resumption_ticket = NoTicket /\ adopted = NoNonce
  /\ pending = {} /\ stale_tickets = [side \in Sides |-> {}]

\* Random values that were not drawn before.
FreshClientNonces ==
  {n \in ClientNonces : \A m \in net : m.type = "HELLO" => m.cnonce # n}

FreshServerNonces ==
  {n \in ServerNonces : \A m \in net : m.type \in {"CHALLENGE", "ACK"} => m.snonce # n}

FreshSessionIds == {sid \in SessionIds : \A m \in Acks : m.ticket.sid # sid}

-----------------------------------------------------------------------------
(***************************************************************************)
(* The client.                                                             *)
(***************************************************************************)

\* connect() up to its wait: a new endpoint, and one HELLO. The session of an
\* earlier connection stays in place.
Connect(cnonce) ==
  /\ connecting # "waiting"
  /\ transport' = TRUE
  /\ pending_handshake' = cnonce
  /\ Send({[type |-> "HELLO", cnonce |-> cnonce, ticket |-> resumption_ticket]})
  /\ connecting' = "waiting"
  /\ UNCHANGED <<session, sessions, session_key, expired, resumption_ticket,
                 adopted, pending, stale_tickets>>

\* _wait_session_ready has seen a session, and connect() returns it.
ConnectReturns ==
  /\ connecting = "waiting" /\ session # NoSession
  /\ connecting' = "connected"
  /\ UNCHANGED <<transportVars, pending_handshake, resumption_ticket, adopted,
                 pending, stale_tickets>>

\* HandshakeError. The endpoint and the nonce stay.
ConnectTimesOut ==
  /\ connecting = "waiting"
  /\ connecting' = "failed"
  /\ UNCHANGED <<transportVars, pending_handshake, resumption_ticket, adopted,
                 pending, stale_tickets>>

\* Mutant: one PROVE for a nonce, whatever the server asks again.
OnChallengeOnce(m) ==
  /\ m \in net /\ m.type = "CHALLENGE" /\ transport
  /\ m.cnonce = pending_handshake
  /\ \A n \in net : n.type = "PROVE" => n.cnonce # m.cnonce
  /\ Send({[type |-> "PROVE", cnonce |-> m.cnonce, snonce |-> m.snonce]})
  /\ UNCHANGED <<transport, session, sessions, session_key, expired, clientVars,
                 pending, stale_tickets>>

OnChallenge(m) ==
  /\ m \in net /\ m.type = "CHALLENGE" /\ transport
  /\ m.cnonce = pending_handshake
  /\ Send({[type |-> "PROVE", cnonce |-> m.cnonce, snonce |-> m.snonce]})
  /\ UNCHANGED <<transport, session, sessions, session_key, expired, clientVars,
                 pending, stale_tickets>>

\* Mutant: the key is derived from the nonces whatever the ticket says.
AckSessionDerived(m) ==
  [id |-> m.ticket.sid, key |-> DeriveKey(m.cnonce, m.snonce)]

\* The session in the ticket; if that has expired, the one the nonces give.
AckSession(m) ==
  IF m.ticket \notin stale_tickets["client"]
  THEN [id |-> m.ticket.sid, key |-> m.ticket.key]
  ELSE [id |-> m.ticket.sid, key |-> DeriveKey(m.cnonce, m.snonce)]

\* An ACK to the latest HELLO is taken at any time, and as often as it comes.
OnAck(m) ==
  /\ m \in Acks /\ transport
  /\ m.cnonce = pending_handshake
  /\ resumption_ticket' = m.ticket
  /\ session' = AckSession(m)
  /\ adopted' = m.cnonce
  /\ UNCHANGED <<net, transport, sessions, session_key, expired, connecting,
                 pending_handshake, pending, stale_tickets>>

\* close(): the session is marked closed, and stays self.session.
Close ==
  /\ transport
  /\ IF session = NoSession THEN UNCHANGED net
     ELSE Send({CloseMessage(session.id)})
  /\ transport' = FALSE
  /\ UNCHANGED <<session, sessions, session_key, expired, clientVars, pending,
                 stale_tickets>>

-----------------------------------------------------------------------------
(***************************************************************************)
(* The server.                                                             *)
(***************************************************************************)

BelowLimit == Cardinality(sessions) < MaxClients

\* The ticket of a HELLO opens and has not expired.
Restores(m) == m.ticket # NoTicket /\ m.ticket \notin stale_tickets["server"]

\* A HELLO without a good ticket: a PendingHandshake under its nonce, which
\* takes the place of the one an earlier copy of the HELLO left.
HandleHello(m, snonce) ==
  /\ m \in net /\ m.type = "HELLO"
  /\ BelowLimit /\ ~ Restores(m)
  /\ pending' = {p \in pending : p.cnonce # m.cnonce}
                  \cup {[cnonce |-> m.cnonce, snonce |-> snonce, expired |-> FALSE]}
  /\ Send({[type |-> "CHALLENGE", cnonce |-> m.cnonce, snonce |-> snonce]})
  /\ UNCHANGED <<transport, session, sessions, session_key, expired, clientVars,
                 stale_tickets>>

Ack(cnonce, snonce, sid, key) ==
  [type |-> "ACK", cnonce |-> cnonce, snonce |-> snonce,
   ticket |-> [sid |-> sid, key |-> key, snonce |-> snonce]]

\* A SessionState is stored, new or refreshed, and announced.
Grant(cnonce, snonce, sid, key) ==
  /\ sessions' = sessions \cup {sid}
  /\ session_key' = [session_key EXCEPT ![sid] = key]
  /\ expired' = expired \ {sid}
  /\ Send({Ack(cnonce, snonce, sid, key)})

\* Mutant: a resumed session gets a key of its own.
HandleResumeRekeyed(m, snonce) ==
  /\ m \in net /\ m.type = "HELLO"
  /\ BelowLimit /\ Restores(m)
  /\ Grant(m.cnonce, snonce, m.ticket.sid, DeriveKey(m.cnonce, snonce))
  /\ UNCHANGED <<transport, session, clientVars, pending, stale_tickets>>

\* A HELLO with a good ticket: its session is refreshed, or made anew.
HandleResume(m, snonce) ==
  /\ m \in net /\ m.type = "HELLO"
  /\ BelowLimit /\ Restores(m)
  /\ Grant(m.cnonce, snonce, m.ticket.sid, m.ticket.key)
  /\ UNCHANGED <<transport, session, clientVars, pending, stale_tickets>>

\* Mutant: the PendingHandshake stays after it was used.
HandleProveKept(m, sid) ==
  /\ m \in net /\ m.type = "PROVE"
  /\ \E p \in pending : p.cnonce = m.cnonce /\ p.snonce = m.snonce /\ ~ p.expired
  /\ Grant(m.cnonce, m.snonce, sid, DeriveKey(m.cnonce, m.snonce))
  /\ UNCHANGED <<transport, session, clientVars, pending, stale_tickets>>

\* A PROVE that matches its PendingHandshake. The session limit is not looked
\* at again.
HandleProve(m, sid) ==
  /\ m \in net /\ m.type = "PROVE"
  /\ \E p \in pending : p.cnonce = m.cnonce /\ p.snonce = m.snonce /\ ~ p.expired
  /\ Grant(m.cnonce, m.snonce, sid, DeriveKey(m.cnonce, m.snonce))
  /\ pending' = {p \in pending : p.cnonce # m.cnonce}
  /\ UNCHANGED <<transport, session, clientVars, stale_tickets>>

\* A PROVE for a PendingHandshake past its deadline removes that.
HandleLateProve(m) ==
  /\ m \in net /\ m.type = "PROVE"
  /\ \E p \in pending : p.cnonce = m.cnonce /\ p.expired
  /\ pending' = {p \in pending : p.cnonce # m.cnonce}
  /\ UNCHANGED <<transportVars, clientVars, stale_tickets>>

\* Mutant: the deadline of a dropped session stays behind.
DropSessionHalf(sid) ==
  /\ sid \in sessions
  /\ CloseMessage(sid) \in net \/ sid \in expired
  /\ sessions' = sessions \ {sid}
  /\ UNCHANGED <<net, transport, session, session_key, expired, clientVars, pending,
                 stale_tickets>>

\* A CLOSE, or any datagram of an established session that has expired.
DropSession(sid) ==
  /\ sid \in sessions
  /\ CloseMessage(sid) \in net \/ sid \in expired
  /\ sessions' = sessions \ {sid}
  /\ expired' = expired \ {sid}
  /\ UNCHANGED <<net, transport, session, session_key, clientVars, pending, stale_tickets>>

PendingExpires(p) ==
  /\ p \in pending /\ ~ p.expired
  /\ pending' = (pending \ {p}) \cup {[p EXCEPT !.expired = TRUE]}
  /\ UNCHANGED <<transportVars, clientVars, stale_tickets>>

SessionExpires(sid) ==
  /\ sid \in sessions \ expired
  /\ expired' = expired \cup {sid}
  /\ UNCHANGED <<net, transport, session, sessions, session_key, clientVars,
                 pending, stale_tickets>>

TicketExpires(side, ticket) ==
  /\ ticket \notin stale_tickets[side]
  /\ stale_tickets' = [stale_tickets EXCEPT ![side] = @ \cup {ticket}]
  /\ UNCHANGED <<transportVars, clientVars, pending>>

\* Mutant: the pass looks at sessions alone.
CleanupPassSessions ==
  /\ sessions' = sessions \ expired
  /\ expired' = {}
  /\ UNCHANGED <<net, transport, session, session_key, clientVars, pending,
                 stale_tickets>>

\* One turn of _cleanup_loop.
CleanupPass ==
  /\ pending' = {p \in pending : ~ p.expired}
  /\ sessions' = sessions \ expired
  /\ expired' = {}
  /\ UNCHANGED <<net, transport, session, session_key, clientVars, stale_tickets>>

\* A new server process with the same pre-shared key.
Restart ==
  /\ sessions # {} \/ pending # {}
  /\ sessions' = {} /\ expired' = {} /\ pending' = {}
  /\ UNCHANGED <<net, transport, session, session_key, clientVars, stale_tickets>>

-----------------------------------------------------------------------------

ClientNext ==
  \/ \E cnonce \in FreshClientNonces : Connect(cnonce)
  \/ ConnectReturns \/ ConnectTimesOut \/ Close
  \/ \E m \in net : OnChallenge(m) \/ OnAck(m)

ServerNext ==
  \/ \E snonce \in FreshServerNonces, m \in net :
       HandleHello(m, snonce) \/ HandleResume(m, snonce)
  \/ \E sid \in FreshSessionIds, m \in net : HandleProve(m, sid)
  \/ \E m \in net : HandleLateProve(m)
  \/ \E sid \in SessionIds : DropSession(sid) \/ SessionExpires(sid)
  \/ \E p \in pending : PendingExpires(p)
  \/ CleanupPass \/ Restart

Next ==
  \/ ClientNext \/ ServerNext
  \/ \E side \in Sides, m \in Acks : TicketExpires(side, m.ticket)

Spec == Init /\ [][Next]_vars

\* Time passes and the cleanup loop runs. No datagram need ever arrive.
Fairness ==
  /\ WF_vars(CleanupPass)
  /\ WF_vars(\E p \in pending : PendingExpires(p))
  /\ \A sid \in SessionIds : WF_vars(SessionExpires(sid))

LiveSpec == Spec /\ Fairness

-----------------------------------------------------------------------------
(***************************************************************************)
(* Properties.                                                             *)
(***************************************************************************)

\* A session id means one key, in every ticket the server issued and in its
\* table, across resumptions, expiries and restarts.
SidKeepsKey ==
  \A m \in Acks :
    /\ \A n \in Acks : m.ticket.sid = n.ticket.sid => m.ticket.key = n.ticket.key
    /\ m.ticket.sid \in sessions => session_key[m.ticket.sid] = m.ticket.key

\* The client holds the key the server has for its session, unless it adopted
\* the session from an ACK whose ticket had expired, by the client's clock, when
\* the ACK was read.
AgreementUnlessStale ==
  (session # NoSession /\ session.id \in sessions) =>
    \/ session.key = session_key[session.id]
    \/ \E m \in Acks :
         /\ m.ticket.sid = session.id /\ m.ticket \in stale_tickets["client"]
         /\ session.key = DeriveKey(m.cnonce, m.snonce)

\* A PROVE makes one session, however often it arrives: two sessions that come
\* from full handshakes differ in their nonces.
OneSessionPerProof ==
  \A m, n \in Acks :
    (/\ m.ticket.key = DeriveKey(m.cnonce, m.snonce)
     /\ n.ticket.key = m.ticket.key)
      => m.ticket.sid = n.ticket.sid

\* A HELLO that comes twice replaces the PendingHandshake and leaves the PROVE to
\* the first CHALLENGE without a match. The handshake is not lost by that: as
\* long as the client still goes by the nonce, the PROVE the table now asks for
\* can be accepted, or the CHALLENGE for it is there and would be answered.
HandshakeGoesOn ==
  \A p \in pending :
    (~ p.expired /\ p.cnonce = pending_handshake /\ transport) =>
      \E m \in net :
        /\ m.type \in {"CHALLENGE", "PROVE"} /\ m.snonce = p.snonce
        /\ ENABLED OnChallenge(m) \/ \E sid \in FreshSessionIds : ENABLED HandleProve(m, sid)

\* Handshakes that stopped half way, and sessions nobody closed, leave the
\* server's tables in the end.
TablesDrain ==
  /\ \A n \in ClientNonces :
       (\E p \in pending : p.cnonce = n) ~> ~ (\E p \in pending : p.cnonce = n)
  /\ \A sid \in SessionIds : (sid \in sessions) ~> (sid \notin sessions)

\* README, "Both sides derive a session key": a client whose session is in the
\* server's table has the key of that table.
KeyAgreement ==
  (session # NoSession /\ session.id \in sessions) =>
    session.key = session_key[session.id]

\* connect() raises "handshake failed" unless there is a session: what it
\* returns was established by its own handshake.
ConnectedByHandshake == connecting = "connected" => adopted = pending_handshake
=============================================================================

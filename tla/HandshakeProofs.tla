---------------------------- MODULE HandshakeProofs ----------------------------
(***************************************************************************)
(* Handshake keeps its inductive invariant, for every set of nonces and    *)
(* session ids and every session limit.                                    *)
(***************************************************************************)
EXTENDS HandshakeInvariant, TLAPS

\* What a datagram in the network is, by its type.
LEMMA NetTypes ==
  ASSUME TypeOK, NEW m \in net
  PROVE  /\ m.type = "HELLO" => m \in HelloMessages
         /\ m.type \in {"CHALLENGE", "PROVE"} => m \in NonceMessages
         /\ m.type = "ACK" => m \in AckMessages
BY DEF TypeOK, HelloMessages, NonceMessages, AckMessages, CloseMessages, CloseMessage

\* Derived keys are told apart by their nonces.
LEMMA Derivation ==
  ASSUME NEW c \in ClientNonces, NEW s \in ServerNonces
  PROVE  /\ DeriveKey(c, s) \in Keys
         /\ \A d, t : DeriveKey(c, s) = DeriveKey(d, t) => c = d /\ s = t
BY HandshakeAssumption DEF DeriveKey

LEMMA InitInv == Init => Inv
<1> SUFFICES ASSUME Init PROVE Inv
  OBVIOUS
<1> USE DEF Init
<1>1. Acks = {}
  BY DEF Acks
<1>2. TypeOK
  <2>1. PICK cnonce \in ClientNonces, snonce \in ServerNonces : TRUE
    BY HandshakeAssumption
  <2>2. <<cnonce, snonce>> \in Keys
    BY <2>1, HandshakeAssumption
  <2>3. (CHOOSE key \in Keys : TRUE) \in Keys
    BY <2>2
  <2> QED
    BY <2>3 DEF TypeOK
<1>3. Bookkeeping /\ SidKeepsKey /\ OneSessionPerProof
  BY <1>1 DEF Bookkeeping, TicketsGenuine, SessionsAnnounced, KeysChallenged,
              PendingUnused, SessionGenuine, SidKeepsKey, OneSessionPerProof
<1> QED
  BY <1>2, <1>3 DEF Inv

\* Steps that announce no session: no ACK is sent, no session enters the
\* table, no handshake becomes pending.
LEMMA QuietStep ==
  ASSUME Inv,
         net \subseteq net',
         \A m \in net' : m \in net \/ m.type \notin {"HELLO", "ACK"}
                           \/ (m.type = "HELLO" /\ m.ticket = resumption_ticket),
         sessions' \subseteq sessions,
         session_key' = session_key,
         stale_tickets["client"] \subseteq stale_tickets'["client"],
         \A p \in pending' : \E q \in pending : p.cnonce = q.cnonce /\ p.snonce = q.snonce,
         resumption_ticket' = resumption_ticket \/ Issued(resumption_ticket'),
         session' = session \/ \E m \in Acks : session' = AckSession(m)
  PROVE  Bookkeeping' /\ SidKeepsKey' /\ OneSessionPerProof'
<1>1. Acks' = Acks
  BY DEF Acks
<1>2. TicketsGenuine'
  BY <1>1 DEF Inv, Bookkeeping, TicketsGenuine, Issued
<1>3. SessionsAnnounced' /\ KeysChallenged'
  BY <1>1 DEF Inv, Bookkeeping, SessionsAnnounced, KeysChallenged
<1>4. PendingUnused'
  <2> SUFFICES ASSUME NEW p \in pending' PROVE (Challenged(p.cnonce, p.snonce)
                                                /\ KeyUnused(p.cnonce, p.snonce))'
    BY DEF PendingUnused
  <2>1. PICK q \in pending : p.cnonce = q.cnonce /\ p.snonce = q.snonce
    OBVIOUS
  <2>2. Challenged(q.cnonce, q.snonce) /\ KeyUnused(q.cnonce, q.snonce)
    BY DEF Inv, Bookkeeping, PendingUnused
  <2> QED
    BY <1>1, <2>1, <2>2 DEF Challenged, KeyUnused
<1>5. SessionGenuine'
  <2>1. CASE session' = session
    BY <1>1, <2>1 DEF Inv, Bookkeeping, SessionGenuine
  <2>2. CASE \E m \in Acks : session' = AckSession(m)
    <3>1. PICK m \in Acks : session' = AckSession(m)
      BY <2>2
    <3>2. session'.id = m.ticket.sid
      BY <3>1 DEF AckSession
    <3>3. session'.key = m.ticket.key \/ (m.ticket \in stale_tickets["client"]
                                  /\ session'.key = DeriveKey(m.cnonce, m.snonce))
      BY <3>1 DEF AckSession
    <3> QED
      BY <1>1, <3>2, <3>3 DEF SessionGenuine
  <2> QED
    BY <2>1, <2>2
<1>6. SidKeepsKey' /\ OneSessionPerProof'
  BY <1>1 DEF Inv, SidKeepsKey, OneSessionPerProof
<1> QED
  BY <1>2, <1>3, <1>4, <1>5, <1>6 DEF Bookkeeping

LEMMA ConnectInv ==
  ASSUME Inv, NEW cnonce \in FreshClientNonces, Connect(cnonce) PROVE Inv'
<1> USE DEF Connect, Send
<1>1. cnonce \in ClientNonces
  BY DEF FreshClientNonces
<1>2. TypeOK'
  BY <1>1 DEF Inv, TypeOK, HelloMessages
<1>3. Bookkeeping' /\ SidKeepsKey' /\ OneSessionPerProof'
  BY QuietStep
<1> QED
  BY <1>2, <1>3 DEF Inv

LEMMA ConnectEndsInv ==
  ASSUME Inv, ConnectReturns \/ ConnectTimesOut PROVE Inv'
<1> USE DEF ConnectReturns, ConnectTimesOut, transportVars
<1>1. TypeOK'
  BY DEF Inv, TypeOK
<1>2. Bookkeeping' /\ SidKeepsKey' /\ OneSessionPerProof'
  BY QuietStep
<1> QED
  BY <1>1, <1>2 DEF Inv

LEMMA OnChallengeInv == ASSUME Inv, NEW m \in net, OnChallenge(m) PROVE Inv'
<1> USE DEF OnChallenge, Send, clientVars
<1>1. m \in NonceMessages
  BY NetTypes DEF Inv
<1>2. TypeOK'
  BY <1>1 DEF Inv, TypeOK, NonceMessages
<1>3. Bookkeeping' /\ SidKeepsKey' /\ OneSessionPerProof'
  BY QuietStep
<1> QED
  BY <1>2, <1>3 DEF Inv

LEMMA OnAckInv == ASSUME Inv, NEW m \in net, OnAck(m) PROVE Inv'
<1> USE DEF OnAck
<1>1. m \in Acks /\ m \in AckMessages
  BY NetTypes DEF Inv, Acks
<1>2. AckSession(m) \in Established
  <2>1. m.cnonce \in ClientNonces /\ m.snonce \in ServerNonces /\ m.ticket \in Tickets
    BY <1>1 DEF AckMessages
  <2>2. m.ticket.sid \in SessionIds /\ m.ticket.key \in Keys
    BY <2>1 DEF Tickets
  <2>3. DeriveKey(m.cnonce, m.snonce) \in Keys
    BY <2>1, Derivation
  <2> QED
    BY <2>2, <2>3 DEF AckSession, Established
<1>3. TypeOK'
  BY <1>1, <1>2 DEF Inv, TypeOK, AckMessages
<1>4. Issued(m.ticket) /\ session' = AckSession(m)
  BY <1>1 DEF Issued
<1>5. Bookkeeping' /\ SidKeepsKey' /\ OneSessionPerProof'
  BY <1>1, <1>4, QuietStep
<1> QED
  BY <1>3, <1>5 DEF Inv

LEMMA CloseInv == ASSUME Inv, Close PROVE Inv'
<1> USE DEF Close, Send, clientVars
<1>1. TypeOK'
  BY DEF Inv, TypeOK, Established, CloseMessages
<1>2. \A m \in net' : m \in net \/ m.type = "CLOSE"
  BY DEF CloseMessage
<1>3. Bookkeeping' /\ SidKeepsKey' /\ OneSessionPerProof'
  BY <1>2, QuietStep
<1> QED
  BY <1>1, <1>3 DEF Inv

\* A new PendingHandshake: its server nonce was never in a CHALLENGE, so no
\* ticket carries the key.
LEMMA HandleHelloInv ==
  ASSUME Inv, NEW m \in net, NEW snonce \in FreshServerNonces, HandleHello(m, snonce)
  PROVE  Inv'
<1> USE DEF HandleHello, Send, clientVars
<1> DEFINE challenge == [type |-> "CHALLENGE", cnonce |-> m.cnonce, snonce |-> snonce]
           new == [cnonce |-> m.cnonce, snonce |-> snonce, expired |-> FALSE]
<1>1. m.cnonce \in ClientNonces /\ snonce \in ServerNonces
  BY NetTypes DEF Inv, HelloMessages, FreshServerNonces
<1>2. TypeOK'
  <2>1. challenge \in NonceMessages /\ new \in PendingHandshakes
    BY <1>1 DEF NonceMessages, PendingHandshakes
  <2>2. net' = net \cup {challenge} /\ pending' \subseteq pending \cup {new}
    OBVIOUS
  <2> HIDE DEF challenge, new
  <2> QED
    BY <2>1, <2>2 DEF Inv, TypeOK
<1>3. Acks' = Acks
  BY DEF Acks
<1>4. TicketsGenuine' /\ SessionsAnnounced' /\ KeysChallenged' /\ SessionGenuine'
  BY <1>3 DEF Inv, Bookkeeping, TicketsGenuine, Issued, SessionsAnnounced,
              KeysChallenged, SessionGenuine
<1>5. SidKeepsKey' /\ OneSessionPerProof'
  BY <1>3 DEF Inv, SidKeepsKey, OneSessionPerProof
<1>6. KeyUnused(m.cnonce, snonce)
  <2> SUFFICES ASSUME NEW a \in Acks, a.ticket.key = DeriveKey(m.cnonce, snonce)
               PROVE  FALSE
    BY DEF KeyUnused
  <2>1. PICK n \in net : n.type = "CHALLENGE" /\ a.ticket.key = DeriveKey(n.cnonce, n.snonce)
    BY DEF Inv, Bookkeeping, KeysChallenged
  <2>2. n.snonce = snonce
    <3>1. DeriveKey(m.cnonce, snonce) = DeriveKey(n.cnonce, n.snonce)
      BY <2>1
    <3> HIDE DEF HandleHello
    <3> QED
      BY <1>1, <3>1, Derivation
  <2> QED
    BY <2>1, <2>2 DEF FreshServerNonces
<1>7. PendingUnused'
  <2> SUFFICES ASSUME NEW p \in pending'
               PROVE  (Challenged(p.cnonce, p.snonce) /\ KeyUnused(p.cnonce, p.snonce))'
    BY DEF PendingUnused
  <2>1. CASE p \in pending
    BY <1>3, <2>1 DEF Inv, Bookkeeping, PendingUnused, Challenged, KeyUnused
  <2>2. CASE p = new
    BY <1>3, <1>6, <2>2 DEF Challenged, KeyUnused
  <2> QED
    BY <2>1, <2>2
<1> QED
  BY <1>2, <1>4, <1>5, <1>7 DEF Inv, Bookkeeping

\* What Grant needs for the bookkeeping to hold after it: a session id that is
\* new with a key no ticket has, or those of an issued ticket.
LEMMA GrantInv ==
  ASSUME Inv,
         NEW cnonce \in ClientNonces, NEW snonce \in ServerNonces,
         NEW sid \in SessionIds, NEW key \in Keys,
         Grant(cnonce, snonce, sid, key),
         \/ /\ sid \in FreshSessionIds /\ KeyUnused(cnonce, snonce)
            /\ key = DeriveKey(cnonce, snonce)
            /\ Challenged(cnonce, snonce)
         \/ /\ \E m \in Acks : m.ticket.sid = sid /\ m.ticket.key = key
            /\ snonce \in FreshServerNonces,
         \A p \in pending' : p \in pending /\ DeriveKey(p.cnonce, p.snonce) # key,
         UNCHANGED <<transport, session, clientVars, stale_tickets>>
  PROVE  Inv'
<1> DEFINE ack == Ack(cnonce, snonce, sid, key)
<1> USE DEF Grant, Send, clientVars
<1>1. /\ ack \in AckMessages /\ ack.type = "ACK"
      /\ ack.cnonce = cnonce /\ ack.snonce = snonce
      /\ ack.ticket.sid = sid /\ ack.ticket.key = key
  BY DEF Ack, AckMessages, Tickets
<1>2. Acks' = Acks \cup {ack}
  BY <1>1 DEF Acks
<1>3. TypeOK'
  BY <1>1 DEF Inv, TypeOK
<1> HIDE DEF ack
<1>4. TicketsGenuine'
  <2>1. \A ticket : Issued(ticket) => Issued(ticket)'
    BY <1>2 DEF Issued
  <2>2. \A m \in net' : m.type = "HELLO" => m \in net
    BY <1>1 DEF ack
  <2> QED
    BY <2>1, <2>2 DEF Inv, Bookkeeping, TicketsGenuine
<1>5. SessionsAnnounced' /\ SessionGenuine'
  BY <1>1, <1>2 DEF Inv, Bookkeeping, SessionsAnnounced, SessionGenuine
<1>6. KeysChallenged'
  <2>1. \E n \in net : n.type = "CHALLENGE" /\ key = DeriveKey(n.cnonce, n.snonce)
    <3>1. CASE Challenged(cnonce, snonce) /\ key = DeriveKey(cnonce, snonce)
      BY <3>1 DEF Challenged
    <3>2. CASE \E m \in Acks : m.ticket.sid = sid /\ m.ticket.key = key
      BY <3>2 DEF Inv, Bookkeeping, KeysChallenged
    <3> QED
      BY <3>1, <3>2
  <2> QED
    BY <1>1, <1>2, <2>1 DEF Inv, Bookkeeping, KeysChallenged
<1>7. PendingUnused'
  BY <1>1, <1>2 DEF Inv, Bookkeeping, PendingUnused, Challenged, KeyUnused
<1>8. \A m \in Acks : m.ticket.sid = sid => m.ticket.key = key
  BY DEF FreshSessionIds, Inv, SidKeepsKey
<1>9. SidKeepsKey'
  <2>1. \A m, n \in Acks' : m.ticket.sid = n.ticket.sid => m.ticket.key = n.ticket.key
    BY <1>1, <1>2, <1>8 DEF Inv, SidKeepsKey
  <2>2. \A m \in Acks' : m.ticket.sid \in sessions' => session_key'[m.ticket.sid] = m.ticket.key
    <3> SUFFICES ASSUME NEW m \in Acks', m.ticket.sid \in sessions'
                 PROVE  session_key'[m.ticket.sid] = m.ticket.key
      OBVIOUS
    <3>1. CASE m.ticket.sid = sid
      BY <1>1, <1>2, <1>8, <3>1 DEF Inv, TypeOK
    <3>2. CASE m.ticket.sid # sid
      BY <1>1, <1>2, <3>2 DEF Inv, TypeOK, SidKeepsKey
    <3> QED
      BY <3>1, <3>2
  <2> QED
    BY <2>1, <2>2 DEF SidKeepsKey
<1>10. OneSessionPerProof'
  <2> SUFFICES ASSUME NEW m \in Acks', NEW n \in Acks',
                      m.ticket.key = DeriveKey(m.cnonce, m.snonce),
                      n.ticket.key = m.ticket.key
               PROVE  m.ticket.sid = n.ticket.sid
    BY DEF OneSessionPerProof
  <2>1. CASE sid \in FreshSessionIds /\ KeyUnused(cnonce, snonce)
             /\ key = DeriveKey(cnonce, snonce)
    BY <1>1, <1>2, <2>1 DEF Inv, OneSessionPerProof, KeyUnused
  <2>2. CASE /\ \E a \in Acks : a.ticket.sid = sid /\ a.ticket.key = key
             /\ snonce \in FreshServerNonces
    <3>1. PICK a \in Acks : a.ticket.sid = sid /\ a.ticket.key = key
      BY <2>2
    <3>2. key # DeriveKey(cnonce, snonce)
      <4>1. PICK q \in net : q.type = "CHALLENGE" /\ key = DeriveKey(q.cnonce, q.snonce)
        BY <3>1 DEF Inv, Bookkeeping, KeysChallenged
      <4>2. q.snonce # snonce
        BY <2>2, <4>1 DEF FreshServerNonces
      <4> QED
        BY <4>1, <4>2, Derivation
    <3>3. m \in Acks
      BY <1>1, <1>2, <3>2
    <3>4. CASE n \in Acks
      BY <3>3, <3>4 DEF Inv, OneSessionPerProof
    <3>5. CASE n = ack
      BY <1>1, <3>1, <3>3, <3>5 DEF Inv, OneSessionPerProof
    <3> QED
      BY <1>2, <3>4, <3>5
  <2> QED
    BY <2>1, <2>2
<1> QED
  BY <1>3, <1>4, <1>5, <1>6, <1>7, <1>9, <1>10 DEF Inv, Bookkeeping

LEMMA HandleResumeInv ==
  ASSUME Inv, NEW m \in net, NEW snonce \in FreshServerNonces, HandleResume(m, snonce)
  PROVE  Inv'
<1>1. m \in HelloMessages /\ m.type = "HELLO" /\ m.ticket # NoTicket
  BY NetTypes DEF Inv, HandleResume, Restores
<1>2. /\ m.cnonce \in ClientNonces /\ snonce \in ServerNonces
      /\ m.ticket.sid \in SessionIds /\ m.ticket.key \in Keys
  BY <1>1 DEF HelloMessages, Tickets, FreshServerNonces
<1>3. PICK a \in Acks : a.ticket = m.ticket
  BY <1>1 DEF Inv, Bookkeeping, TicketsGenuine, Issued
<1>4. \A p \in pending : DeriveKey(p.cnonce, p.snonce) # m.ticket.key
  BY <1>3 DEF Inv, Bookkeeping, PendingUnused, KeyUnused
<1>5. /\ Grant(m.cnonce, snonce, m.ticket.sid, m.ticket.key)
      /\ UNCHANGED <<transport, session, clientVars, stale_tickets>>
      /\ \A p \in pending' : p \in pending /\ DeriveKey(p.cnonce, p.snonce) # m.ticket.key
  BY <1>4 DEF HandleResume
<1>6. /\ \E b \in Acks : b.ticket.sid = m.ticket.sid /\ b.ticket.key = m.ticket.key
      /\ snonce \in FreshServerNonces
  BY <1>3
<1> QED
  BY <1>2, <1>5, <1>6, GrantInv

LEMMA HandleProveInv ==
  ASSUME Inv, NEW m \in net, NEW sid \in FreshSessionIds, HandleProve(m, sid)
  PROVE  Inv'
<1> DEFINE key == DeriveKey(m.cnonce, m.snonce)
<1>1. m \in NonceMessages /\ sid \in SessionIds
  BY NetTypes DEF Inv, HandleProve, FreshSessionIds
<1>2. m.cnonce \in ClientNonces /\ m.snonce \in ServerNonces /\ key \in Keys
  BY <1>1, Derivation DEF NonceMessages
<1>3. PICK q \in pending : q.cnonce = m.cnonce /\ q.snonce = m.snonce
  BY DEF HandleProve
<1>4. Challenged(m.cnonce, m.snonce) /\ KeyUnused(m.cnonce, m.snonce)
  BY <1>3 DEF Inv, Bookkeeping, PendingUnused
<1>5. /\ Grant(m.cnonce, m.snonce, sid, key)
      /\ UNCHANGED <<transport, session, clientVars, stale_tickets>>
      /\ pending' = {p \in pending : p.cnonce # m.cnonce}
  BY DEF HandleProve
<1>6. \A p \in pending' : p \in pending /\ DeriveKey(p.cnonce, p.snonce) # key
  BY <1>2, <1>5, Derivation
<1> HIDE DEF key
<1>7. key = DeriveKey(m.cnonce, m.snonce)
  BY DEF key
<1> QED
  BY <1>1, <1>2, <1>4, <1>5, <1>6, <1>7, GrantInv

\* What removes handshakes and sessions, or passes a deadline.
LEMMA RemovalInv ==
  ASSUME Inv,
         \/ \E m \in net : HandleLateProve(m)
         \/ \E sid \in SessionIds : DropSession(sid) \/ SessionExpires(sid)
         \/ \E p \in pending : PendingExpires(p)
         \/ CleanupPass \/ Restart
  PROVE  Inv'
<1>1. /\ net' = net /\ session_key' = session_key /\ stale_tickets' = stale_tickets
      /\ session' = session /\ transport' = transport
      /\ UNCHANGED clientVars
  BY DEF HandleLateProve, DropSession, SessionExpires, PendingExpires, CleanupPass,
         Restart, transportVars
<1>2. sessions' \subseteq sessions /\ expired' \subseteq sessions'
  BY DEF Inv, TypeOK, HandleLateProve, DropSession, SessionExpires, PendingExpires,
         CleanupPass, Restart, transportVars
<1>3. /\ pending' \subseteq PendingHandshakes
      /\ \A p \in pending' : \E q \in pending : p.cnonce = q.cnonce /\ p.snonce = q.snonce
  <2>1. CASE pending' \subseteq pending
    BY <2>1 DEF Inv, TypeOK
  <2>2. CASE \E q \in pending : PendingExpires(q)
    <3>1. PICK q \in pending : pending' = (pending \ {q}) \cup {[q EXCEPT !.expired = TRUE]}
      BY <2>2 DEF PendingExpires
    <3>2. q \in PendingHandshakes
      BY DEF Inv, TypeOK
    <3> QED
      BY <3>1, <3>2 DEF Inv, TypeOK, PendingHandshakes
  <2> QED
    BY <2>1, <2>2 DEF HandleLateProve, DropSession, SessionExpires, CleanupPass, Restart
<1>4. TypeOK'
  BY <1>1, <1>2, <1>3 DEF Inv, TypeOK, clientVars
<1>5. Bookkeeping' /\ SidKeepsKey' /\ OneSessionPerProof'
  BY <1>1, <1>2, <1>3, QuietStep DEF clientVars
<1> QED
  BY <1>4, <1>5 DEF Inv

LEMMA TicketExpiresInv ==
  ASSUME Inv, NEW side \in Sides, NEW m \in Acks, TicketExpires(side, m.ticket) PROVE Inv'
<1> USE DEF TicketExpires, transportVars, clientVars
<1>1. m.ticket \in Tickets
  BY NetTypes DEF Inv, Acks, AckMessages
<1>2. TypeOK'
  BY <1>1 DEF Inv, TypeOK
<1>3. stale_tickets["client"] \subseteq stale_tickets'["client"]
  BY DEF Inv, TypeOK, Sides
<1>4. Bookkeeping' /\ SidKeepsKey' /\ OneSessionPerProof'
  BY <1>3, QuietStep
<1> QED
  BY <1>2, <1>4 DEF Inv

LEMMA StutterInv == ASSUME Inv, UNCHANGED vars PROVE Inv'
BY DEF vars, transportVars, clientVars, Inv, TypeOK, Bookkeeping, TicketsGenuine,
       Issued, SessionsAnnounced, KeysChallenged, PendingUnused, Challenged,
       KeyUnused, SessionGenuine, SidKeepsKey, OneSessionPerProof, Acks

LEMMA NextInv == Inv /\ [Next]_vars => Inv'
<1> SUFFICES ASSUME Inv, [Next]_vars PROVE Inv'
  OBVIOUS
<1>1. CASE ClientNext
  BY <1>1, ConnectInv, ConnectEndsInv, OnChallengeInv, OnAckInv, CloseInv DEF ClientNext
<1>2. CASE ServerNext
  BY <1>2, HandleHelloInv, HandleResumeInv, HandleProveInv, RemovalInv DEF ServerNext
<1>3. CASE \E side \in Sides, m \in Acks : TicketExpires(side, m.ticket)
  BY <1>3, TicketExpiresInv
<1>4. CASE UNCHANGED vars
  BY <1>4, StutterInv
<1> QED
  BY <1>1, <1>2, <1>3, <1>4 DEF Next

\* The invariant holds in every state the handshake layer can reach.
THEOREM Invariance == Spec => []Inv
BY InitInv, NextInv, PTL DEF Spec

\* The tables and messages of the handshake keep their types.
THEOREM TypeCorrect == Spec => []TypeOK
<1>1. Inv => TypeOK
  BY DEF Inv
<1> QED
  BY <1>1, Invariance, PTL

\* What the proof rests on holds too: sessions, challenges and tickets that
\* messages speak of are ones that were made (the tables of _handle_hello and
\* _handle_prove, and what left them).
THEOREM Bookkept == Spec => []Bookkeeping
<1>1. Inv => Bookkeeping
  BY DEF Inv
<1> QED
  BY <1>1, Invariance, PTL

\* A session id means one key: every ticket ever issued for it, and the
\* server's table while it has it, through resumption, expiry and restart.
THEOREM SidNamesOneKey == Spec => []SidKeepsKey
<1>1. Inv => SidKeepsKey
  BY DEF Inv
<1> QED
  BY <1>1, Invariance, PTL

\* Repeated PROVEs of one challenge never make a second session.
THEOREM ProofUsedOnce == Spec => []OneSessionPerProof
<1>1. Inv => OneSessionPerProof
  BY DEF Inv
<1> QED
  BY <1>1, Invariance, PTL

\* Client and server disagree on the key of a session they share only after
\* the client read an ACK whose ticket had expired.
THEOREM KeysAgreeUnlessStale == Spec => []AgreementUnlessStale
<1>1. Inv => AgreementUnlessStale
  BY DEF Inv, Bookkeeping, SessionGenuine, SidKeepsKey, AgreementUnlessStale
<1> QED
  BY <1>1, Invariance, PTL
=============================================================================

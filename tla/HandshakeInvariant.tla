-------------------------- MODULE HandshakeInvariant --------------------------
(***************************************************************************)
(* The inductive invariant of Handshake: which nonces, tickets and session *)
(* ids are spoken for, so that what is drawn or proved next is new.        *)
(***************************************************************************)
EXTENDS Handshake

\* An ACK announced the ticket.
Issued(ticket) == \E m \in Acks : m.ticket = ticket

\* A CHALLENGE went out under the nonces.
Challenged(cnonce, snonce) ==
  [type |-> "CHALLENGE", cnonce |-> cnonce, snonce |-> snonce] \in net

\* No ticket carries the key derived from the nonces.
KeyUnused(cnonce, snonce) ==
  \A m \in Acks : m.ticket.key # DeriveKey(cnonce, snonce)

\* A ticket that the client keeps, or that a HELLO brings, was issued.
TicketsGenuine ==
  /\ resumption_ticket = NoTicket \/ Issued(resumption_ticket)
  /\ \A m \in net : m.type = "HELLO" => m.ticket = NoTicket \/ Issued(m.ticket)

\* Every session of the table was announced.
SessionsAnnounced == \A sid \in sessions : \E m \in Acks : m.ticket.sid = sid

\* The keys of tickets come from challenged nonces.
KeysChallenged ==
  \A m \in Acks : \E n \in net :
    n.type = "CHALLENGE" /\ m.ticket.key = DeriveKey(n.cnonce, n.snonce)

\* A PendingHandshake was challenged, and its key is still unused.
PendingUnused ==
  \A p \in pending : Challenged(p.cnonce, p.snonce) /\ KeyUnused(p.cnonce, p.snonce)

\* The client's session is that of an ACK, under the ticket's key or, if the
\* ticket is stale, the nonces'.
SessionGenuine ==
  session # NoSession =>
    \E m \in Acks :
      /\ session.id = m.ticket.sid
      /\ \/ session.key = m.ticket.key
         \/ m.ticket \in stale_tickets["client"] /\ session.key = DeriveKey(m.cnonce, m.snonce)

\* The part that is not a property of its own, for the safety run.
Bookkeeping ==
  /\ TicketsGenuine /\ SessionsAnnounced /\ KeysChallenged /\ PendingUnused
  /\ SessionGenuine

Inv == TypeOK /\ Bookkeeping /\ SidKeepsKey /\ OneSessionPerProof
=============================================================================

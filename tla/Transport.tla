------------------------------ MODULE Transport ------------------------------
(***************************************************************************)
(* What the layers of the protocol share: the datagrams in the network,    *)
(* the client's socket and current session, and the server's session table.*)
(*                                                                         *)
(* net holds every datagram sent. A receiver reads a datagram and leaves   *)
(* it there, so it may be delivered late, out of order, several times or   *)
(* never: UDP's faults, and the server's rate limiter, which drops without *)
(* a trace, are all in the choice of which datagram is read next.          *)
(*                                                                         *)
(* Deadlines are not clock values. Each timed object may pass its deadline *)
(* at any moment: the TTLs are constructor parameters and requests carry   *)
(* their own timeout, so the code fixes no order between them.             *)
(***************************************************************************)
EXTENDS Integers

CONSTANTS
  SessionIds,        \* values of SessionState.session_id
  Keys,              \* session keys
  NoSession          \* the client's `session is None`

ASSUME NoSessionAssumption ==
  NoSession \notin [id : SessionIds, key : Keys]

VARIABLES
  net,               \* datagrams sent and not consumed
  transport,         \* client: the datagram endpoint is open
  session,           \* client: self.session, its id and key
  sessions,          \* server: keys of self.sessions
  session_key,       \* server: session_key of each SessionState
  expired            \* server: sessions whose expires_at has passed

transportVars == <<net, transport, session, sessions, session_key, expired>>

Established == [id : SessionIds, key : Keys]

CloseMessage(sid) == [type |-> "CLOSE", sid |-> sid]

CloseMessages == {CloseMessage(sid) : sid \in SessionIds}

Send(msgs) == net' = net \cup msgs

\* The handshake is over: client and server hold one session and its key.
EstablishedInit ==
  \E sid \in SessionIds, key \in Keys :
    /\ net = {}
    /\ transport = TRUE
    /\ session = [id |-> sid, key |-> key]
    /\ sessions = {sid}
    /\ session_key = [s \in SessionIds |-> key]
    /\ expired = {}
=============================================================================

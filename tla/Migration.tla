------------------------------ MODULE Migration ------------------------------
(***************************************************************************)
(* Address migration of one established session, and PING. The client's    *)
(* address is what its NAT makes of it: it may change at any time, and an  *)
(* answer reaches the client only while it is where the answer was sent.   *)
(*                                                                         *)
(* The server takes no REQUEST or CLOSE from an address other than         *)
(* client_addr, but sends a PATH_CHALLENGE there and drops the datagram.   *)
(* client_addr follows a PATH_RESPONSE with the token, and also any later  *)
(* REQUEST or CLOSE that comes while the challenge is still open.          *)
(*                                                                         *)
(* One stream, whose numbers REQUEST and PING share with its window. What  *)
(* _handle_request does with a request it takes is the subject of Requests;*)
(* here a number is taken or not. The answers themselves, and who reads    *)
(* them, are left out: nothing below depends on them.                      *)
(*                                                                         *)
(* The client of the repository sends no PING: those of the model stand    *)
(* for a peer that numbers them from its stream.                           *)
(***************************************************************************)
EXTENDS ReplayWindow, FiniteSets

CONSTANTS
  Addresses,         \* what the client's datagrams may come from
  Tokens,            \* path validation tokens
  Home,              \* the address of the first handshake
  MaxSeq,            \* bound on the numbers of a stream
  MaxMoves,          \* bound on changes of address
  MaxSent            \* bound on the datagrams the client sends

ASSUME MigrationAssumption ==
  /\ Home \in Addresses
  /\ MaxSeq \in Nat /\ MaxMoves \in Nat /\ MaxSent \in Nat

VARIABLES
  net,               \* datagrams sent; any may arrive late, twice or never
  \* client
  at,                \* the address its datagrams come from now
  transport,         \* the endpoint is open
  next_seq,          \* of the stream
  \* server
  status,            \* the session: "live", "expired" (expires_at passed) or "gone"
  client_addr, path_validation, recv_window,
  \* bound and history
  moves,             \* changes of address so far
  taken,             \* numbers this SessionState took, of REQUESTs and PINGs
  spent,             \* how often each token moved client_addr
  drops              \* REQUESTs and CLOSEs dropped for their address

clientVars == <<at, transport, next_seq, moves>>
sessionVars == <<status, client_addr, path_validation, recv_window>>
vars == <<net, clientVars, sessionVars, taken, spent, drops>>

ToServer ==
  [type : {"REQUEST", "PING"}, from : Addresses, seq : Nat]
    \cup [type : {"CLOSE", "HELLO"}, from : Addresses]
    \cup [type : {"PATH_RESPONSE"}, from : Addresses, token : Tokens]

ToClient ==
  [type : {"PATH_CHALLENGE"}, to : Addresses, token : Tokens]
    \cup [type : {"ACK"}, to : Addresses]

Validations == [addr : Addresses, token : Tokens, expired : BOOLEAN]

TypeOK ==
  /\ net \subseteq ToServer \cup ToClient
  /\ at \in Addresses /\ transport \in BOOLEAN
  /\ next_seq \in 0 .. MaxSeq /\ moves \in 0 .. MaxMoves
  /\ status \in {"live", "expired", "gone"}
  /\ client_addr \in Addresses
  /\ path_validation \subseteq Validations
  /\ recv_window \in Windows
  /\ taken \subseteq Nat /\ spent \in [Tokens -> Nat] /\ drops \in Nat

Init ==
  /\ net = {}
  /\ at = Home /\ transport = TRUE /\ next_seq = 0 /\ moves = 0
  /\ status = "live" /\ client_addr = Home
  /\ path_validation = {} /\ recv_window = NewWindow
  /\ taken = {} /\ spent = [t \in Tokens |-> 0] /\ drops = 0

Send(m) == net' = net \cup {m}

Challenges == {m \in net : m.type = "PATH_CHALLENGE"}

\* Random tokens that were not drawn before.
FreshTokens == {t \in Tokens : \A m \in Challenges : m.token # t}

-----------------------------------------------------------------------------
(***************************************************************************)
(* The client.                                                             *)
(***************************************************************************)

\* What the client sent before may be sent again without bound.
ClientSend(m) == Cardinality((net \cup {m}) \cap ToServer) <= MaxSent /\ Send(m)

\* The network gives the client another address.
Move(a) ==
  /\ moves < MaxMoves /\ a # at
  /\ at' = a /\ moves' = moves + 1
  /\ UNCHANGED <<net, transport, next_seq, sessionVars, taken, spent, drops>>

\* request() up to its wait, or a peer's PING.
SendNumbered(type) ==
  /\ transport /\ next_seq < MaxSeq
  /\ ClientSend([type |-> type, from |-> at, seq |-> next_seq])
  /\ next_seq' = next_seq + 1
  /\ UNCHANGED <<at, transport, moves, sessionVars, taken, spent, drops>>

\* request() sends its packet again, from where the client is by then. How long
\* it does so is the subject of Requests.
Retry(m) ==
  /\ m \in net /\ m.type = "REQUEST" /\ transport
  /\ ClientSend([m EXCEPT !.from = at])
  /\ UNCHANGED <<clientVars, sessionVars, taken, spent, drops>>

\* _on_path_challenge: the token goes back from where the client is.
OnPathChallenge(m) ==
  /\ m \in Challenges /\ m.to = at /\ transport
  /\ ClientSend([type |-> "PATH_RESPONSE", from |-> at, token |-> m.token])
  /\ UNCHANGED <<clientVars, sessionVars, taken, spent, drops>>

\* connect() with the session's ticket, once.
Connect ==
  /\ \A m \in net : m.type # "HELLO"
  /\ transport' = TRUE
  /\ ClientSend([type |-> "HELLO", from |-> at])
  /\ UNCHANGED <<at, next_seq, moves, sessionVars, taken, spent, drops>>

\* The ACK of the HELLO, as often as it comes: streams start anew.
OnAck(m) ==
  /\ m \in net /\ m.type = "ACK" /\ m.to = at /\ transport
  /\ next_seq' = 0
  /\ UNCHANGED <<net, at, transport, moves, sessionVars, taken, spent, drops>>

\* close().
Close ==
  /\ transport
  /\ transport' = FALSE
  /\ ClientSend([type |-> "CLOSE", from |-> at])
  /\ UNCHANGED <<at, next_seq, moves, sessionVars, taken, spent, drops>>

-----------------------------------------------------------------------------
(***************************************************************************)
(* The server.                                                             *)
(***************************************************************************)

OpenValidation(a) == \E v \in path_validation : v.addr = a /\ ~ v.expired

\* Mutant: a stale token is not replaced.
IssuePathChallengeOnce(a, token) ==
  IF \E v \in path_validation : v.addr = a
  THEN UNCHANGED <<net, path_validation>>
  ELSE /\ token \in FreshTokens
       /\ path_validation' =
            path_validation \cup {[addr |-> a, token |-> token, expired |-> FALSE]}
       /\ Send([type |-> "PATH_CHALLENGE", to |-> a, token |-> token])

\* _issue_path_challenge: none while the address has a token that holds.
IssuePathChallenge(a, token) ==
  IF OpenValidation(a)
  THEN UNCHANGED <<net, path_validation>>
  ELSE /\ token \in FreshTokens
       /\ path_validation' =
            {v \in path_validation : v.addr # a}
              \cup {[addr |-> a, token |-> token, expired |-> FALSE]}
       /\ Send([type |-> "PATH_CHALLENGE", to |-> a, token |-> token])

\* A REQUEST or CLOSE of the live session.
Arrives(m) == m \in net /\ m.type \in {"REQUEST", "CLOSE"} /\ status = "live"

\* Mutant: an address without an entry passes.
PathValidatedUnasked(a) == client_addr = a \/ \A v \in path_validation : v.addr # a

\* The address is client_addr, or _path_validated: its challenge is open.
PathValidated(a) == client_addr = a \/ OpenValidation(a)

\* A REQUEST or CLOSE from elsewhere: challenged and dropped.
DropForAddress(m, token) ==
  /\ Arrives(m) /\ ~ PathValidated(m.from)
  /\ IssuePathChallenge(m.from, token)
  /\ drops' = drops + 1
  /\ UNCHANGED <<clientVars, status, client_addr, recv_window, taken, spent>>

\* A REQUEST that passes, and that the window takes.
TakeRequest(m) ==
  /\ Arrives(m) /\ m.type = "REQUEST" /\ PathValidated(m.from)
  /\ client_addr' = m.from
  /\ Accepts(recv_window, m.seq)
  /\ recv_window' = Mark(recv_window, m.seq)
  /\ taken' = taken \cup {m.seq}
  /\ UNCHANGED <<net, clientVars, status, path_validation, spent, drops>>

\* Mutant: the window is moved by what it refuses.
RepeatRequestMarked(m) ==
  /\ Arrives(m) /\ m.type = "REQUEST" /\ PathValidated(m.from)
  /\ client_addr' = m.from
  /\ ~ Accepts(recv_window, m.seq)
  /\ recv_window' = Mark(recv_window, m.seq)
  /\ UNCHANGED <<net, clientVars, status, path_validation, taken, spent, drops>>

\* One whose answer is in the cache, or that the window refuses: it has moved
\* client_addr all the same.
RepeatRequest(m) ==
  /\ Arrives(m) /\ m.type = "REQUEST" /\ PathValidated(m.from)
  /\ client_addr' = m.from
  /\ ~ Accepts(recv_window, m.seq)
  /\ UNCHANGED <<net, clientVars, status, path_validation, recv_window, taken,
                 spent, drops>>

\* The SessionState leaves the table, and its path validations with it.
Gone ==
  /\ status' = "gone"
  /\ path_validation' = {} /\ recv_window' = NewWindow
  /\ taken' = {}
  /\ UNCHANGED <<net, clientVars, client_addr, spent, drops>>

HandleClose(m) ==
  /\ Arrives(m) /\ m.type = "CLOSE" /\ PathValidated(m.from)
  /\ Gone

\* A REQUEST or CLOSE finds the session expired.
DropExpired(m) ==
  /\ m \in net /\ m.type \in {"REQUEST", "CLOSE"} /\ status = "expired"
  /\ Gone

\* Mutant: the window counts a PING before its address is looked at.
HandlePingCounted(m, token) ==
  /\ m \in net /\ m.type = "PING" /\ status # "gone"
  /\ Accepts(recv_window, m.seq)
  /\ recv_window' = Mark(recv_window, m.seq)
  /\ IF client_addr # m.from
     THEN IssuePathChallenge(m.from, token) /\ UNCHANGED taken
     ELSE /\ taken' = taken \cup {m.seq}
          /\ UNCHANGED <<net, path_validation>>
  /\ UNCHANGED <<clientVars, status, client_addr, spent, drops>>

\* _handle_ping, which asks neither for the deadline of the session nor for an
\* open challenge, and never moves client_addr.
HandlePing(m, token) ==
  /\ m \in net /\ m.type = "PING" /\ status # "gone"
  /\ IF client_addr # m.from
     THEN IssuePathChallenge(m.from, token) /\ UNCHANGED <<recv_window, taken>>
     ELSE /\ Accepts(recv_window, m.seq)
          /\ recv_window' = Mark(recv_window, m.seq)
          /\ taken' = taken \cup {m.seq}
          /\ UNCHANGED <<net, path_validation>>
  /\ UNCHANGED <<clientVars, status, client_addr, spent, drops>>

\* Mutant: the token stays where it is.
HandlePathResponseKept(m) ==
  /\ m \in net /\ m.type = "PATH_RESPONSE" /\ status # "gone"
  /\ [addr |-> m.from, token |-> m.token, expired |-> FALSE] \in path_validation
  /\ client_addr' = m.from
  /\ spent' = [spent EXCEPT ![m.token] = @ + 1]
  /\ UNCHANGED <<net, clientVars, status, path_validation, recv_window, taken, drops>>

\* _handle_path_response: the token of that address, in time, and only once.
HandlePathResponse(m) ==
  /\ m \in net /\ m.type = "PATH_RESPONSE" /\ status # "gone"
  /\ [addr |-> m.from, token |-> m.token, expired |-> FALSE] \in path_validation
  /\ client_addr' = m.from
  /\ path_validation' = {v \in path_validation : v.addr # m.from}
  /\ spent' = [spent EXCEPT ![m.token] = @ + 1]
  /\ UNCHANGED <<net, clientVars, status, recv_window, taken, drops>>

\* A HELLO with the session's ticket: refreshed with what it holds, or a new
\* SessionState. The address of the HELLO is taken as it is.
HandleResume(m) ==
  /\ m \in net /\ m.type = "HELLO"
  /\ status' = "live" /\ client_addr' = m.from
  /\ Send([type |-> "ACK", to |-> m.from])
  /\ UNCHANGED <<clientVars, path_validation, recv_window, taken, spent, drops>>

SessionExpires ==
  /\ status = "live"
  /\ status' = "expired"
  /\ UNCHANGED <<net, clientVars, client_addr, path_validation, recv_window, taken,
                 spent, drops>>

\* A token passes its deadline.
TokenExpires(v) ==
  /\ v \in path_validation /\ ~ v.expired
  /\ path_validation' = (path_validation \ {v}) \cup {[v EXCEPT !.expired = TRUE]}
  /\ UNCHANGED <<net, clientVars, status, client_addr, recv_window, taken, spent,
                 drops>>

\* Mutant: the pass has no eye for path_validation.
CleanupPassSessions == status = "expired" /\ Gone

\* One turn of _cleanup_loop: an expired session, or the stale tokens of another.
CleanupPass ==
  \/ status = "expired" /\ Gone
  \/ /\ status = "live"
     /\ path_validation' = {v \in path_validation : ~ v.expired}
     /\ UNCHANGED <<net, clientVars, status, client_addr, recv_window, taken,
                    spent, drops>>

-----------------------------------------------------------------------------

ClientNext ==
  \/ \E a \in Addresses : Move(a)
  \/ \E type \in {"REQUEST", "PING"} : SendNumbered(type)
  \/ \E m \in net : Retry(m) \/ OnPathChallenge(m) \/ OnAck(m)
  \/ Connect \/ Close

ServerNext ==
  \/ \E m \in net :
       \/ \E token \in Tokens : DropForAddress(m, token) \/ HandlePing(m, token)
       \/ TakeRequest(m) \/ RepeatRequest(m) \/ HandleClose(m) \/ DropExpired(m)
       \/ HandlePathResponse(m) \/ HandleResume(m)
  \/ SessionExpires
  \/ \E v \in path_validation : TokenExpires(v)
  \/ CleanupPass

Next == ClientNext \/ ServerNext

Spec == Init /\ [][Next]_vars

\* Time passes, and the cleanup loop runs. No datagram need ever arrive.
Fairness ==
  /\ WF_vars(SessionExpires) /\ WF_vars(CleanupPass)
  /\ \A t \in Tokens : WF_vars(\E v \in path_validation : v.token = t /\ TokenExpires(v))

LiveSpec == Spec /\ Fairness

-----------------------------------------------------------------------------
(***************************************************************************)
(* Properties.                                                             *)
(***************************************************************************)

\* The addresses of handshakes.
Greeted == {Home} \cup {m.from : m \in {n \in net : n.type = "HELLO"}}

\* Whatever arrives late, and from wherever the client was before, client_addr
\* moves only by a HELLO, or to an address whose own challenge went out, has not
\* passed its deadline and was not answered yet. Until then any datagram from
\* there moves it, also back; after that the address needs another challenge.
AddressMovesAsked ==
  [][client_addr' # client_addr =>
       \/ \E m \in net : HandleResume(m)
       \/ \E v \in path_validation :
            /\ v.addr = client_addr' /\ ~ v.expired
            /\ [type |-> "PATH_CHALLENGE", to |-> v.addr, token |-> v.token] \in net
            /\ spent[v.token] = 0]_vars

\* A datagram that is dropped for its address costs no number: what the window
\* refuses it took from an address that passed, or it was overtaken. Whether it
\* was answered is the subject of Requests.
DropCostsNoNumber ==
  \A m \in net :
    (m.type \in {"REQUEST", "PING"} /\ Seen(recv_window, m.seq)) =>
      m.seq \in taken \/ recv_window.highest - m.seq >= REPLAY_WINDOW

\* A token moves client_addr at most once, however often and late its
\* PATH_RESPONSE arrives.
TokenSpentOnce == \A t \in Tokens : spent[t] <= 1

\* No REQUEST or CLOSE is dropped for its address in silence: a challenge goes out
\* with every drop, so the next copy finds it open.
NoSilentDrop == [][drops' # drops => Challenges' # Challenges]_vars

\* A path validation that nobody answers leaves the table in the end.
ValidationsDrain ==
  \A t \in Tokens :
    (\E v \in path_validation : v.token = t) ~> ~ (\E v \in path_validation : v.token = t)

\* README: migration works "provided the migration is authenticated" by "path
\* validation frames": client_addr is an address of a handshake, or one that
\* a PATH_RESPONSE came from.
AddressConfirmed ==
  client_addr \in Greeted \cup {m.from : m \in {n \in net : n.type = "PATH_RESPONSE"}}
=============================================================================

---------------------------- MODULE MigrationProofs ----------------------------
(***************************************************************************)
(* Migration keeps its promises for every set of addresses and tokens, any *)
(* number of moves and any window width.                                   *)
(***************************************************************************)
EXTENDS Migration, ReplayWindowProofs, TLAPS

\* Every entry of path_validation was sent out as a challenge.
ValidationsChallenged ==
  \A v \in path_validation :
    [type |-> "PATH_CHALLENGE", to |-> v.addr, token |-> v.token] \in net

\* A token that is open or was never sent has not moved client_addr, and no two
\* addresses have the same token.
TokensUnspent ==
  /\ \A t \in FreshTokens : spent[t] = 0
  /\ \A v \in path_validation : spent[v.token] = 0
  /\ \A v, w \in path_validation : v.token = w.token => v.addr = w.addr

\* What the window refuses was taken, or overtaken.
WindowExplained ==
  \A q \in Nat : Seen(recv_window, q) =>
    q \in taken \/ recv_window.highest - q >= REPLAY_WINDOW

Inv ==
  /\ TypeOK /\ ValidationsChallenged /\ TokensUnspent /\ TokenSpentOnce
  /\ WindowExplained

-----------------------------------------------------------------------------

LEMMA NetTypes ==
  ASSUME TypeOK, NEW m \in net
  PROVE  /\ m.type \in {"REQUEST", "PING"} =>
              m \in [type : {"REQUEST", "PING"}, from : Addresses, seq : Nat]
         /\ m.type \in {"CLOSE", "HELLO"} =>
              m \in [type : {"CLOSE", "HELLO"}, from : Addresses]
         /\ m.type = "PATH_RESPONSE" =>
              m \in [type : {"PATH_RESPONSE"}, from : Addresses, token : Tokens]
         /\ m.type = "PATH_CHALLENGE" =>
              m \in [type : {"PATH_CHALLENGE"}, to : Addresses, token : Tokens]
BY DEF TypeOK, ToServer, ToClient

\* More datagrams: tokens only get used up.
LEMMA NetGrows == net \subseteq net' => FreshTokens' \subseteq FreshTokens
BY DEF FreshTokens, Challenges

LEMMA InitInv == Init => Inv
<1> SUFFICES ASSUME Init PROVE Inv
  OBVIOUS
<1>1. TypeOK
  BY MigrationAssumption, NewWindowFacts DEF Init, TypeOK
<1>2. ValidationsChallenged /\ TokensUnspent /\ TokenSpentOnce
  BY DEF Init, ValidationsChallenged, TokensUnspent, TokenSpentOnce, FreshTokens
<1>3. WindowExplained
  BY NewWindowFacts DEF Init, WindowExplained
<1> QED
  BY <1>1, <1>2, <1>3 DEF Inv

\* Steps that leave the session's tables alone but for tokens that go stale or go.
LEMMA QuietStep ==
  ASSUME Inv, net \subseteq net',
         \A v \in path_validation' :
           \E w \in path_validation : v.addr = w.addr /\ v.token = w.token,
         UNCHANGED spent,
         \/ UNCHANGED <<recv_window, taken>>
         \/ recv_window' = NewWindow
  PROVE  /\ ValidationsChallenged' /\ TokensUnspent' /\ TokenSpentOnce'
         /\ WindowExplained'
<1>1. ValidationsChallenged'
  BY DEF Inv, ValidationsChallenged
<1>2. TokensUnspent'
  BY NetGrows DEF Inv, TokensUnspent
<1>3. TokenSpentOnce'
  BY DEF Inv, TokenSpentOnce
<1>4. WindowExplained'
  BY NewWindowFacts DEF Inv, WindowExplained
<1> QED
  BY <1>1, <1>2, <1>3, <1>4

LEMMA ClientInv == ASSUME Inv, ClientNext PROVE Inv'
<1> USE DEF sessionVars, Send, ClientSend
<1>1. /\ net \subseteq net'
      /\ UNCHANGED <<status, client_addr, path_validation, recv_window, taken, spent, drops>>
  BY DEF ClientNext, Move, SendNumbered, Retry, OnPathChallenge, OnAck, Connect, Close
<1>2. ValidationsChallenged' /\ TokensUnspent' /\ TokenSpentOnce' /\ WindowExplained'
  BY <1>1, QuietStep
<1>3. TypeOK'
  <2> USE DEF Inv, TypeOK
  <2>1. ASSUME NEW a \in Addresses, Move(a) PROVE TypeOK'
    BY <2>1, MigrationAssumption DEF Move
  <2>2. ASSUME NEW type \in {"REQUEST", "PING"}, SendNumbered(type) PROVE TypeOK'
    <3>1. [type |-> type, from |-> at, seq |-> next_seq] \in ToServer
      BY MigrationAssumption DEF ToServer
    <3>2. /\ net' = net \cup {[type |-> type, from |-> at, seq |-> next_seq]}
          /\ at' = at /\ transport' = transport /\ moves' = moves
      BY <2>2 DEF SendNumbered
    <3>3. next_seq' \in 0 .. MaxSeq
      BY <2>2, MigrationAssumption DEF SendNumbered
    <3> QED
      BY <1>1, <3>1, <3>2, <3>3
  <2>3. ASSUME NEW m \in net, Retry(m) PROVE TypeOK'
    <3>1. [m EXCEPT !.from = at] \in ToServer
      BY <2>3, NetTypes DEF Retry, ToServer
    <3> QED
      BY <1>1, <2>3, <3>1 DEF Retry, clientVars
  <2>4. ASSUME NEW m \in net, OnPathChallenge(m) PROVE TypeOK'
    BY <1>1, <2>4, NetTypes DEF OnPathChallenge, Challenges, clientVars, ToServer
  <2>5. ASSUME NEW m \in net, OnAck(m) PROVE TypeOK'
    BY <2>5, MigrationAssumption DEF OnAck
  <2>6. ASSUME Connect \/ Close PROVE TypeOK'
    <3>1. PICK type \in {"CLOSE", "HELLO"} : net' = net \cup {[type |-> type, from |-> at]}
      BY <2>6 DEF Connect, Close
    <3>2. [type |-> type, from |-> at] \in ToServer
      BY DEF ToServer
    <3>3. transport' \in BOOLEAN /\ UNCHANGED <<at, next_seq, moves>>
      BY <2>6 DEF Connect, Close
    <3> QED
      BY <1>1, <3>1, <3>2, <3>3
  <2> QED
    BY <2>1, <2>2, <2>3, <2>4, <2>5, <2>6 DEF ClientNext
<1> QED
  BY <1>2, <1>3 DEF Inv

\* A challenge goes out under a token of its own.
LEMMA ChallengeInv ==
  ASSUME Inv, NEW a \in Addresses, NEW token \in Tokens, IssuePathChallenge(a, token),
         UNCHANGED <<clientVars, status, client_addr, recv_window, taken, spent>>,
         drops' \in Nat
  PROVE  Inv'
<1>1. CASE OpenValidation(a)
  <2>1. UNCHANGED <<net, path_validation>>
    BY <1>1 DEF IssuePathChallenge
  <2>2. TypeOK'
    BY <2>1 DEF Inv, TypeOK, clientVars
  <2> QED
    BY <2>1, <2>2, QuietStep DEF Inv
<1>2. CASE ~ OpenValidation(a)
  <2> DEFINE m == [type |-> "PATH_CHALLENGE", to |-> a, token |-> token]
             entry == [addr |-> a, token |-> token, expired |-> FALSE]
  <2>1. /\ token \in FreshTokens /\ net' = net \cup {m}
        /\ path_validation' = {v \in path_validation : v.addr # a} \cup {entry}
    BY <1>2 DEF IssuePathChallenge, Send
  <2>2. m \in ToClient /\ entry \in Validations
    BY DEF ToClient, Validations
  <2>3. TypeOK'
    BY <2>1, <2>2 DEF Inv, TypeOK, clientVars
  <2>4. ValidationsChallenged'
    <3>1. [type |-> "PATH_CHALLENGE", to |-> entry.addr, token |-> entry.token] \in net'
      BY <2>1
    <3>2. ASSUME NEW v \in path_validation
          PROVE  [type |-> "PATH_CHALLENGE", to |-> v.addr, token |-> v.token] \in net'
      BY <2>1 DEF Inv, ValidationsChallenged
    <3> HIDE DEF entry
    <3> QED
      BY <2>1, <3>1, <3>2 DEF ValidationsChallenged
  <2>5. TokenSpentOnce' /\ WindowExplained'
    BY DEF Inv, TokenSpentOnce, WindowExplained
  <2>6. ASSUME NEW v \in path_validation PROVE v.token # token
    <3>1. [type |-> "PATH_CHALLENGE", to |-> v.addr, token |-> v.token] \in Challenges
      BY DEF Inv, ValidationsChallenged, Challenges
    <3> QED
      BY <2>1, <3>1 DEF FreshTokens
  <2>7. TokensUnspent'
    BY <2>1, <2>6, NetGrows DEF Inv, TokensUnspent
  <2> QED
    BY <2>3, <2>4, <2>5, <2>7 DEF Inv
<1> QED
  BY <1>1, <1>2

\* The window takes a number, and the server with it.
LEMMA TakeInv ==
  ASSUME Inv, NEW q \in Nat, Accepts(recv_window, q),
         recv_window' = Mark(recv_window, q), taken' = taken \cup {q}
  PROVE  recv_window' \in Windows /\ WindowExplained'
<1>1. recv_window \in Windows
  BY DEF Inv, TypeOK
<1>2. recv_window' \in Windows
  BY <1>1, MarkType
<1>3. ASSUME NEW old \in Nat, Seen(recv_window', old), old # q
      PROVE  old \in taken \/ recv_window'.highest - old >= REPLAY_WINDOW
  <2>1. Seen(recv_window, old) \/ recv_window'.highest - old >= REPLAY_WINDOW
    BY <1>1, <1>3, MarkOnlySeen
  <2>2. recv_window'.highest >= recv_window.highest
    BY <1>1, MarkHighest
  <2> QED
    BY <1>1, <1>2, <2>1, <2>2, WindowAssumption DEF Inv, WindowExplained, Windows
<1> QED
  BY <1>2, <1>3 DEF WindowExplained

\* The SessionState leaves.
LEMMA GoneInv == ASSUME Inv, Gone PROVE Inv'
<1>1. TypeOK'
  BY NewWindowFacts DEF Inv, TypeOK, Gone, clientVars
<1> QED
  BY <1>1, QuietStep DEF Inv, Gone

\* REQUESTs, CLOSEs and PINGs.
LEMMA DatagramInv ==
  ASSUME Inv, NEW m \in net,
         \/ \E token \in Tokens : DropForAddress(m, token) \/ HandlePing(m, token)
         \/ TakeRequest(m) \/ RepeatRequest(m) \/ HandleClose(m) \/ DropExpired(m)
  PROVE  Inv'
<1>0. TypeOK
  BY DEF Inv
<1>1. ASSUME NEW token \in Tokens, DropForAddress(m, token) PROVE Inv'
  <2>1. m.from \in Addresses
    BY <1>0, <1>1, NetTypes DEF DropForAddress, Arrives
  <2>2. drops' \in Nat
    BY <1>0, <1>1 DEF DropForAddress, TypeOK
  <2> QED
    BY <1>1, <2>1, <2>2, ChallengeInv DEF DropForAddress
<1>2. ASSUME NEW token \in Tokens, HandlePing(m, token) PROVE Inv'
  <2>1. m.from \in Addresses /\ m.seq \in Nat
    BY <1>0, <1>2, NetTypes DEF HandlePing
  <2>2. CASE client_addr # m.from
    <3>1. drops' \in Nat
      BY <1>0, <1>2 DEF HandlePing, TypeOK
    <3> QED
      BY <1>2, <2>1, <2>2, <3>1, ChallengeInv DEF HandlePing
  <2>3. CASE client_addr = m.from
    <3>1. /\ Accepts(recv_window, m.seq) /\ recv_window' = Mark(recv_window, m.seq)
          /\ taken' = taken \cup {m.seq}
          /\ UNCHANGED <<net, path_validation, clientVars, status, client_addr, spent,
                         drops>>
      BY <1>2, <2>3 DEF HandlePing
    <3>2. recv_window' \in Windows /\ WindowExplained'
      BY <2>1, <3>1, TakeInv
    <3>3. TypeOK'
      BY <1>0, <2>1, <3>1, <3>2 DEF TypeOK, clientVars
    <3>4. ValidationsChallenged' /\ TokensUnspent' /\ TokenSpentOnce'
      BY <3>1, NetGrows DEF Inv, ValidationsChallenged, TokensUnspent, TokenSpentOnce
    <3> QED
      BY <3>2, <3>3, <3>4 DEF Inv
  <2> QED
    BY <2>2, <2>3
<1>3. CASE TakeRequest(m)
  <2>1. m.from \in Addresses /\ m.seq \in Nat
    BY <1>0, <1>3, NetTypes DEF TakeRequest
  <2>2. /\ Accepts(recv_window, m.seq) /\ recv_window' = Mark(recv_window, m.seq)
        /\ taken' = taken \cup {m.seq} /\ PathValidated(m.from) /\ client_addr' = m.from
        /\ UNCHANGED <<net, path_validation, clientVars, status, spent, drops>>
    BY <1>3 DEF TakeRequest
  <2>3. recv_window' \in Windows /\ WindowExplained'
    BY <2>1, <2>2, TakeInv
  <2>4. TypeOK'
    BY <1>0, <2>1, <2>2, <2>3 DEF TypeOK, clientVars
  <2>5. ValidationsChallenged' /\ TokensUnspent' /\ TokenSpentOnce'
    BY <2>2, NetGrows DEF Inv, ValidationsChallenged, TokensUnspent, TokenSpentOnce
  <2> QED
    BY <2>3, <2>4, <2>5 DEF Inv
<1>4. CASE RepeatRequest(m)
  <2>1. m.from \in Addresses
    BY <1>0, <1>4, NetTypes DEF RepeatRequest
  <2>2. /\ PathValidated(m.from) /\ client_addr' = m.from
        /\ UNCHANGED <<net, path_validation, recv_window, taken, clientVars, status, spent,
                       drops>>
    BY <1>4 DEF RepeatRequest
  <2>3. TypeOK'
    BY <1>0, <2>1, <2>2 DEF TypeOK, clientVars
  <2>4. ValidationsChallenged' /\ TokensUnspent' /\ TokenSpentOnce' /\ WindowExplained'
    BY <2>2, NetGrows DEF Inv, ValidationsChallenged, TokensUnspent, TokenSpentOnce,
       WindowExplained
  <2> QED
    BY <2>3, <2>4 DEF Inv
<1>5. CASE HandleClose(m) \/ DropExpired(m)
  BY <1>5, GoneInv DEF HandleClose, DropExpired
<1> QED
  BY <1>1, <1>2, <1>3, <1>4, <1>5

LEMMA PathResponseInv ==
  ASSUME Inv, NEW m \in net, HandlePathResponse(m)
  PROVE  Inv'
<1>0. TypeOK
  BY DEF Inv
<1>1. m.from \in Addresses /\ m.token \in Tokens
  BY <1>0, NetTypes DEF HandlePathResponse
<1> DEFINE entry == [addr |-> m.from, token |-> m.token, expired |-> FALSE]
<1>2. /\ entry \in path_validation /\ client_addr' = m.from
      /\ path_validation' = {v \in path_validation : v.addr # m.from}
      /\ spent' = [spent EXCEPT ![m.token] = @ + 1]
      /\ UNCHANGED <<net, clientVars, status, recv_window, taken, drops>>
  BY DEF HandlePathResponse
<1>3. spent[m.token] = 0 /\ \A v \in path_validation : v.token = m.token => v.addr = m.from
  <2>1. entry.token = m.token /\ entry.addr = m.from
    OBVIOUS
  <2> HIDE DEF entry
  <2> QED
    BY <1>2, <2>1 DEF Inv, TokensUnspent
<1>4. [type |-> "PATH_CHALLENGE", to |-> m.from, token |-> m.token] \in Challenges
  <2>1. entry.token = m.token /\ entry.addr = m.from
    OBVIOUS
  <2> HIDE DEF entry
  <2> QED
    BY <1>2, <2>1 DEF Inv, ValidationsChallenged, Challenges
<1>5. TypeOK'
  BY <1>0, <1>1, <1>2 DEF TypeOK, clientVars
<1>6. ValidationsChallenged' /\ WindowExplained'
  BY <1>2 DEF Inv, ValidationsChallenged, WindowExplained
<1>7. TokenSpentOnce'
  BY <1>0, <1>1, <1>2, <1>3 DEF Inv, TokenSpentOnce, TypeOK
<1>8. TokensUnspent'
  <2>1. m.token \notin FreshTokens
    BY <1>4 DEF FreshTokens
  <2>2. \A t \in Tokens : t # m.token => spent'[t] = spent[t]
    BY <1>0, <1>1, <1>2 DEF TypeOK
  <2>3. FreshTokens' = FreshTokens /\ FreshTokens \subseteq Tokens
    BY <1>2 DEF FreshTokens, Challenges
  <2>4. \A v \in path_validation' : v \in path_validation /\ v.token \in Tokens /\ v.token # m.token
    BY <1>0, <1>2, <1>3 DEF TypeOK, Validations
  <2> QED
    BY <2>1, <2>2, <2>3, <2>4 DEF Inv, TokensUnspent
<1> QED
  BY <1>5, <1>6, <1>7, <1>8 DEF Inv

LEMMA ServerInv == ASSUME Inv, ServerNext PROVE Inv'
<1>0. TypeOK
  BY DEF Inv
<1>1. CASE \E m \in net : HandleResume(m)
  <2>1. PICK m \in net : HandleResume(m)
    BY <1>1
  <2>2. m.type = "HELLO" /\ m.from \in Addresses
    BY <1>0, <2>1, NetTypes DEF HandleResume
  <2>3. [type |-> "ACK", to |-> m.from] \in ToClient
    BY <2>2 DEF ToClient
  <2>4. /\ net' = net \cup {[type |-> "ACK", to |-> m.from]}
        /\ client_addr' = m.from /\ status' = "live"
        /\ UNCHANGED <<clientVars, path_validation, recv_window, taken, spent, drops>>
    BY <2>1 DEF HandleResume, Send
  <2>5. TypeOK'
    BY <1>0, <2>2, <2>3, <2>4 DEF TypeOK, clientVars
  <2> QED
    BY <2>4, <2>5, QuietStep DEF Inv
<1>2. CASE SessionExpires
  <2>1. TypeOK'
    BY <1>0, <1>2 DEF SessionExpires, TypeOK, clientVars
  <2> QED
    BY <1>2, <2>1, QuietStep DEF Inv, SessionExpires
<1>3. CASE \E v \in path_validation : TokenExpires(v)
  <2>1. PICK v \in path_validation : TokenExpires(v)
    BY <1>3
  <2> DEFINE old == [v EXCEPT !.expired = TRUE]
  <2>2. old \in Validations /\ old.addr = v.addr /\ old.token = v.token
    BY <1>0 DEF TypeOK, Validations
  <2>3. path_validation' = (path_validation \ {v}) \cup {old}
    BY <2>1 DEF TokenExpires
  <2>4. UNCHANGED <<net, clientVars, status, client_addr, recv_window, taken, spent, drops>>
    BY <2>1 DEF TokenExpires
  <2> HIDE DEF old
  <2>5. TypeOK'
    BY <1>0, <2>2, <2>3, <2>4 DEF TypeOK, clientVars
  <2> QED
    BY <2>2, <2>3, <2>4, <2>5, QuietStep DEF Inv
<1>4. CASE CleanupPass
  <2>1. CASE Gone
    BY <2>1, GoneInv
  <2>2. CASE ~ Gone
    <3>1. /\ path_validation' \subseteq path_validation
          /\ UNCHANGED <<net, clientVars, status, client_addr, recv_window, taken, spent, drops>>
      BY <1>4, <2>2 DEF CleanupPass
    <3>2. TypeOK'
      BY <1>0, <3>1 DEF TypeOK, clientVars
    <3> QED
      BY <3>1, <3>2, QuietStep DEF Inv
  <2> QED
    BY <2>1, <2>2
<1> QED
  BY <1>1, <1>2, <1>3, <1>4, DatagramInv, PathResponseInv DEF ServerNext

-----------------------------------------------------------------------------

\* The strengthened invariant holds for every set of addresses and tokens, every
\* bound and every window width.
THEOREM Invariance == Spec => []Inv
<1>1. ASSUME Inv, [Next]_vars PROVE Inv'
  <2>1. CASE Next
    BY <1>1, <2>1, ClientInv, ServerInv DEF Next
  <2>2. CASE UNCHANGED vars
    BY <1>1, <2>2 DEF Inv, vars, clientVars, sessionVars, TypeOK, ValidationsChallenged,
       Challenges, TokensUnspent, FreshTokens, TokenSpentOnce, WindowExplained
  <2> QED
    BY <1>1, <2>1, <2>2
<1> QED
  BY InitInv, <1>1, PTL DEF Spec

\* The variables keep to their types.
THEOREM TypeCorrect == Spec => []TypeOK
<1>1. Inv => TypeOK
  BY DEF Inv
<1> QED
  BY <1>1, Invariance, PTL

\* client_addr moves by a HELLO, or to an address whose challenge is neither past its
\* deadline nor answered (datagram_received, _path_validated, _handle_path_response).
THEOREM AddressMovesWereAsked == Spec => AddressMovesAsked
<1> DEFINE Asked == \E v \in path_validation :
                      /\ v.addr = client_addr' /\ ~ v.expired
                      /\ [type |-> "PATH_CHALLENGE", to |-> v.addr, token |-> v.token] \in net
                      /\ spent[v.token] = 0
<1>1. ASSUME Inv, NEW a, OpenValidation(a), client_addr' = a PROVE Asked
  BY <1>1 DEF OpenValidation, Inv, ValidationsChallenged, TokensUnspent
<1>2. ASSUME Inv, [Next]_vars, client_addr' # client_addr
      PROVE  Asked \/ \E m \in net : HandleResume(m)
  <2>1. ASSUME NEW m \in net, TakeRequest(m) \/ RepeatRequest(m) PROVE Asked
    BY <1>1, <1>2, <2>1 DEF TakeRequest, RepeatRequest, PathValidated
  <2>2. ASSUME NEW m \in net, HandlePathResponse(m) PROVE Asked
    <3>1. OpenValidation(m.from) /\ client_addr' = m.from
      BY <2>2 DEF HandlePathResponse, OpenValidation
    <3> QED
      BY <1>1, <1>2, <3>1
  <2>3. \/ \E m \in net : \/ TakeRequest(m) \/ RepeatRequest(m) \/ HandlePathResponse(m)
                          \/ HandleResume(m)
    <3> HIDE DEF Asked
    <3>1. ~ UNCHANGED vars
      BY <1>2 DEF vars, sessionVars
    <3>2. ~ ClientNext
      BY <1>2 DEF ClientNext, Move, SendNumbered, Retry, OnPathChallenge, OnAck, Connect,
         Close, sessionVars
    <3> QED
      BY <1>2, <3>1, <3>2 DEF Next, ServerNext, DropForAddress, HandlePing, HandleClose,
         DropExpired, Gone, SessionExpires, TokenExpires, CleanupPass
  <2> QED
    BY <2>1, <2>2, <2>3
<1>3. Inv /\ [Next]_vars =>
        [client_addr' # client_addr => (\E m \in net : HandleResume(m)) \/ Asked]_vars
  BY <1>2
<1> QED
  BY <1>3, Invariance, PTL DEF Spec, AddressMovesAsked

\* A token moves client_addr at most once (_handle_path_response).
THEOREM TokensSpentOnce == Spec => []TokenSpentOnce
<1>1. Inv => TokenSpentOnce
  BY DEF Inv
<1> QED
  BY <1>1, Invariance, PTL

\* A REQUEST or PING dropped for its address leaves its number unused: the window
\* marks what it takes from an address that passes, and nothing else
\* (datagram_received, _handle_ping).
THEOREM DropsCostNoNumber == Spec => []DropCostsNoNumber
<1>1. ASSUME Inv PROVE DropCostsNoNumber
  <2>1. ASSUME NEW m \in net, m.type \in {"REQUEST", "PING"} PROVE m.seq \in Nat
    BY <1>1, <2>1, NetTypes DEF Inv
  <2> QED
    BY <1>1, <2>1 DEF Inv, WindowExplained, DropCostsNoNumber
<1> QED
  BY <1>1, Invariance, PTL

\* Every drop for an address sends a challenge: _path_validated fails only where
\* _issue_path_challenge issues one.
THEOREM DropsChallenged == Spec => NoSilentDrop
<1>1. ASSUME [Next]_vars PROVE [drops' # drops => Challenges' # Challenges]_vars
  <2> SUFFICES ASSUME Next, drops' # drops PROVE Challenges' # Challenges
    BY <1>1
  <2>1. PICK m \in net, token \in Tokens : DropForAddress(m, token)
    <3>1. CASE ClientNext
      BY <3>1 DEF ClientNext, Move, SendNumbered, Retry, OnPathChallenge, OnAck, Connect, Close
    <3>2. CASE ServerNext
      BY <3>2 DEF ServerNext, HandlePing, TakeRequest, RepeatRequest, HandleClose, DropExpired,
         Gone, HandlePathResponse, HandleResume, SessionExpires, TokenExpires, CleanupPass
    <3> QED
      BY <3>1, <3>2 DEF Next
  <2> DEFINE c == [type |-> "PATH_CHALLENGE", to |-> m.from, token |-> token]
  <2>2. token \in FreshTokens /\ net' = net \cup {c}
    BY <2>1 DEF DropForAddress, PathValidated, IssuePathChallenge, Send
  <2>3. c \in Challenges' /\ c \notin Challenges
    BY <2>2 DEF Challenges, FreshTokens
  <2> QED
    BY <2>3
<1> QED
  BY <1>1, PTL DEF Spec, NoSilentDrop
=============================================================================

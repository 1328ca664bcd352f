# fastudp in TLA+

TLA+ modules, TLC configurations and TLAPS proofs for `fastudp`: a client and
a server that speak a request/response protocol over UDP, with a handshake,
sessions that can be resumed, retries and duplicate protection. Paths such as
`client.py:324` mean `src/fastudp/client.py`, line 324.

`PROJECT.json` lists the components, the runs, a mutant of the code for every
property, the source lines of every definition, the hazards and the theorems.

## 1. The system

Each program is one asyncio loop. What runs between two `await`s is atomic;
concurrency comes from calls of `request()` that wait at the same time, handler
tasks, the server's cleanup loop, timers, and the network, which loses,
repeats, delays and reorders datagrams.

| Component | State | Operations | What makes it correct |
|---|---|---|---|
| Replay window (`security.py` ReplayWindow) | `highest`, `bitmap` | `accept` | never twice yes to a number; never no to a fresh one within reach |
| Requests, client (`client.py`) | `StreamState` per stream, `pending_requests`, `acked`, `recv_windows`, the calls of `request()` | `request`, `get_stream`, `_on_response`, `_on_frame_ack`, `close` | a call gets its own answer or fails; every call ends |
| Requests, server (`server.py`) | per session: `recv_windows`, `response_cache`, `inflight_requests`; handler tasks | `_handle_request`, `_finish_request`, `_send_response`, CLOSE, `_cleanup_loop` | the handler of a call runs at most once; one answer per request id |
| Handshake (`client.py`, `server.py`) | client: `session`, `pending_handshake`, `resumption_ticket`; server: `pending`, `sessions` | `connect`, `_on_challenge`, `_on_ack`; `_handle_hello`, `_handle_prove` | one key per session id; one session per proof; tables drain |
| Path validation (`server.py:485-518`, `client.py:352`) | `client_addr`, `path_validation`, `server_addr` | challenge, response, address change | `client_addr` moves only by a HELLO or while a challenge of the address is open; no drop costs a number |
| PING (`server.py:465`) | the stream's window | `_handle_ping` | keepalives never cost a request |
| Rate limiter (`security.py` TokenBucket) | `tokens`, `updated` | `allow` | never more than `burst` plus `rate` times the time passed |
| Congestion controller (`congestion.py`) | `cwnd`, `in_flight`, `sent`, `rtt` | `on_send`, `on_ack`, `on_loss`, `can_send` | `in_flight` counts what is in flight. Nobody calls it |
| Router (`routing.py`) | list of routes | `add`, `match`, `build_handler_kwargs` | the first registered route that fits answers, with the values that fit |
| Codec (`codec.py`) | none | pack, unpack, encode, decode | decode inverts encode within the limits |
| Key derivation, tickets, MACs (`security.py`) | none | | library cryptography |
| `pq.py`, `session.py`, `cli.py`, `__init__.py`, `__main__.py` | | | unused by the protocol, or I/O |

How they interact. `connect()` sends HELLO; CHALLENGE, PROVE and ACK follow, and
the ACK gives the client a `TransportSession` and a ticket. A later HELLO with
that ticket is answered by an ACK at once. `request()` draws a request id and a
sequence number from the stream, registers a future and sends one packet up to
`retries + 1` times. The server looks in the response cache, then in the replay
window, then decrypts, sends FRAME_ACK, splits the path, and answers 404 or starts
a task for the handler. The done callback of the task caches and sends the
RESPONSE. The client passes a RESPONSE through its own replay window and gives it
to the future that is registered.

What is hard is listed, with its line, under `hazards` in `PROJECT.json`. The main
groups: a retry or duplicate that arrives when the cache entry is gone or the
handler is still running; answers that arrive late or twice; timers racing
answers; a transport closed, a caller cancelled, a path that does not split or a
response that does not encode half way; sessions that expire or close under
running handlers; repeated handshake messages; tickets that are stale, or that
outlive the server process; and state that survives a session (client windows) or
is lost with it (stream numbers).

## 2. Modules

| Module | What it is |
|---|---|
| `ReplayWindow` | the operators of the window: `Seen`, `Accepts`, `Slide`, `Mark` |
| `ReplayGuard` | one window fed with arbitrary arrivals |
| `DuplicateFilter` | abstract: remembers every number let through |
| `Transport` | the network, the client's socket and session, the session table |
| `Requests` | the request layer of both ends, over `Transport` and `ReplayWindow` |
| `AtMostOnceRPC` | abstract: what `request()` promises its caller |
| `RequestsInvariant` | the inductive invariant of `Requests` |
| `Handshake` | session establishment and resumption, over `Transport` |
| `HandshakeInvariant` | the inductive invariant of `Handshake` |
| `FastUDP` | `Handshake` and `Requests` composed over one `Transport` |
| `FastUDPInvariant` | the inductive invariant of `FastUDP`, over that of `Handshake` |
| `Migration` | address changes, path validation and PING of one session, over `ReplayWindow` |
| `TokenBucket` | the bucket of one address, as operators |
| `RateMeter` | abstract: a rate limit as a count over every stretch of time |
| `Router` | routes, matching and argument binding, as operators, and what they should give |
| `Ingress` | the way of a request from `request()` to its answer: packing, rate limit, size checks, routing; over `TokenBucket` and `Router` |
| `ReplayWindowProofs`, `ReplayGuardProofs`, `RequestsProofs`, `HandshakeProofs`, `FastUDPProofs`, `FastUDPWindows`, `MigrationProofs`, `IngressProofs` | theorems |
| `MCReplayGuard`, `MCRequests`, `MCHandshake`, `MCFastUDP`, `MCIngress` | constants for TLC |

Every module that a theorem is about writes recursion as a recursive function.
Definitions marked as mutants are plausible bugs of the definition that follows
them; no specification uses them.

### ReplayWindow, ReplayGuard

The integer `bitmap` is the set of its one bits. `Mark` has the branches of
`accept` (first packet, jump of a width or more, shift, old number), `Seen` the
refusals. `ReplayGuard` calls `accept` with any number of `Seqs` at any time.

### Transport

`net` is the set of datagrams ever sent. Reading leaves a datagram in place, so
each may be delivered any number of times, in any order, or never. The server's
rate limiter and a full socket buffer also only drop, and need no action.
Deadlines are flags that may rise at any moment while the object lives
(`expired`, a stale cache entry, a stale ticket): TTLs and timeouts are
parameters of the code, so no order between them can be relied on.

### Requests

One established session. A call of `request()` suspends only in `wait_for`
(`client.py:412`; the stream lock is never held across an `await`), so it is
`StartRequest`, then `Retry` up to its limit, then an action that ends it:

| Action | Code |
|---|---|
| `StartRequest`, `StartTooLarge`, `StartRefused` | `client.py:364-412`, `394-396`, `67-74` |
| `Return`, `Retry`, `RetryClosed`, `GiveUp`, `Cancel` | `client.py:409-417`, `205-208` |
| `OnResponse`, `OnFrameAck`, `Close` | `client.py:324-342`, `344-350`, `195-214` |
| `DropExpired`, `HandleClose` | `server.py:193-200`, `221-224` |
| `ResendCached` | `server.py:532-537` |
| `DiscardAccepted`, `FailSplitting`, `AnswerNotFound`, `SpawnHandler` | `server.py:539-598` |
| `FinishRequest`, `FinishUnsendable` | `server.py:600-641`, `653-658` |
| `SessionExpires`, `CleanupPass` | `server.py:197`, `261-283` |

`AcceptRequest` (cache miss, window says yes, window marked) is the common head of
the four actions that follow it, as in the code. `DiscardAccepted` is an empty
path or an undecryptable body, before FRAME_ACK; `FailSplitting` is the
`ValueError` of `split_path` (`server.py:575`, caught at `225`), after it.
`CleanupPass` takes any subset of the cache and of the inflight entries as past
their deadlines. A task keeps the `SessionState` it was started with: `attached`
says whether the table still has that object. A future holds a response, or
`Undecryptable`.

Data are reduced to what the properties tell apart: a path is one of five
classes (`found`, `missing`, `empty`, `malformed` for what `split_path` raises on,
`toolong`), a response is the call it
answers and a status, a ciphertext is its key.

### Handshake

One client that connects again and again, one server that may restart. Messages
carry their nonces, ticket and session id. MACs, cookies and the timestamp
window accept every genuine message and are left out. A derived key is the pair
of its nonces. A ticket is its contents; client (`client.py:318`) and server
(`server.py:304`) find it expired each by a clock of its own, so `stale_tickets`
has a set for each side, and `TicketExpires` makes a ticket stale on one of them.

| Action | Code |
|---|---|
| `Connect`, `ConnectReturns`, `ConnectTimesOut` | `client.py:175-188`, `247-261` |
| `OnChallenge`, `OnAck`, `Close` | `client.py:272-290`, `292-322`, `195-214` |
| `HandleHello`, `HandleResume` | `server.py:358-425` |
| `HandleProve`, `HandleLateProve` | `server.py:427-463` |
| `DropSession`, `CleanupPass`, `*Expires` | `server.py:193-224`, `261-283`, `304-305`, `client.py:318-319` |
| `Restart` | a new `FastUDPServer` with the same pre-shared key |

### FastUDP

The two layers run as they are (`R == INSTANCE Requests`, `H == INSTANCE
Handshake`), interleaved, over the same `net`, `session`, `sessions`,
`session_key` and `expired`. What the composition adds is what the code does to
one layer in a step of the other:

| Action | What it adds | Code |
|---|---|---|
| `AdoptSession` | new `StreamState`s; `pending_requests` and the client's windows stay | `client.py:304-308`, `169-170` |
| `ResumeSession` | a live session keeps windows, cache and handlers | `server.py:367-383` |
| `ProveSession` | a session without windows and cache | `server.py:438-450` |
| `CleanupPass` | one pass over `pending` and `sessions` | `server.py:261-283` |
| `Restart` | windows, caches and tasks are lost, calls go on | `server.py:117-128` |

`lives` counts how often a session id entered the table, `runs` remembers under
which numbers and in which life handlers started; both are history. Every client
step of `Requests` but the reading of FRAME_ACK, which has no effect on anything
else, and every step of `Handshake` is a step here.

### Migration

One session, one stream, a client whose address may change between any two
steps. A datagram carries the address it was sent from; an answer is read only
by a client that is still where it was sent to.

| Action | Code |
|---|---|
| `Move` | the client's network |
| `SendNumbered`, `Retry`, `Connect`, `OnAck`, `Close` | `client.py:387-410`, `175-253`, `292-310`, `195-214` |
| `OnPathChallenge` | `client.py:352-362` |
| `DropForAddress`, `TakeRequest`, `RepeatRequest`, `HandleClose`, `DropExpired` | `server.py:193-224`, `501-518`, `532-542` |
| `HandlePing` | `server.py:465-483`; no look at `expires_at` or at open challenges |
| `HandlePathResponse`, `HandleResume` | `server.py:485-499`, `363-399` |
| `SessionExpires`, `TokenExpires`, `CleanupPass` | `server.py:197`, `505-506`, `269-281` |

A session that is gone may be resumed with an empty table of its own, as
`Connect` of the model does once, with the ticket it has. What the server sends
back for a request it takes is left out, as no property looks at it.

### TokenBucket, RateMeter, Router, Ingress

`TokenBucket` has `allow` in exact arithmetic; a unit is chosen in which
`elapsed * rate` is whole, and `COST` of them are one datagram. `RateMeter`
knows no bucket: it counts, for each address and each moment, the datagrams let
through since then, and lets a datagram through if and only if no stretch of
time would exceed burst plus rate.

`Router` has templates and paths as sequences of characters. `RoutePath`,
`QueryParams` and `Splits` are `split_path`: `urlsplit` takes a scheme
(`AfterScheme`), a netloc behind two slashes (`Netloc`) and a fragment off the
path, and raises for the netlocs in `RejectedNetlocs`, as for `//[`. A path from
which nothing is left is `/`, and behind a `#` there is no query. `Converts` is
`convert_param`, where `int` and `float` may fail. `Compile` is `_compile_path`;
what the `re` library does with the result (`Stops`, `MatchesFrom`, `Starts`: the
places from which the rest of a pattern matches, and the longest way on for each
group) is modelled and marked external. `RightAnswers` says the same without a
pattern: a template fits a path that it becomes when its parameters are filled in.

`Ingress` follows one packet: `Issue` (`client.py:375-410`, with the two checks
of sizes on either side of the numbering, and `struct.error` when the number has
no room in the header; the request id is the number plus one and meets its bound
first), `Refuse` and `LetThrough` (`server.py:165-167`,
`254-259`), `Readable` (`server.py:168-178`, the header's lengths against the
datagram's, and the seal), `Splits`, and `Outcome` (`server.py:575-598`,
`routing.py`). What is not readable, or does not split, ends in silence.
`Register` adds routes at any time. Sizes are numbers of bytes.

## 3. Runs

Every passing run is exhaustive.

| Run | Size | Question |
|---|---|---|
| `replay_guard` | width 3, numbers 0..7; 2,049 states | Does the bitmap decide exactly as the filter that remembers everything? |
| `requests` | width 1, 2 calls with a retry each, 2 streams of which the client may open 1, 5 path classes; 288,836 states | Is the request layer an at-most-once RPC? |
| `requests_live` | width 1, 2 calls on 1 stream, one with a retry | Does every call end, and every inflight entry leave? |
| `handshake` | 2 client nonces, 2 server nonces, 2 session ids, limit 2; 97,553 states | Do keys, sessions and tables stay consistent, and can a handshake be finished? |
| `fastudp` | width 2, 2 calls on 1 stream, 2 session ids, 2 nonces of each kind, 1 fault, paths that find a route; 243,470 states | What survives when sessions are replaced under running calls? |
| `migration` | width 1, 2 addresses, 2 tokens, 2 moves, 2 numbers, 4 datagrams of the client; 527,392 states | Who moves `client_addr`, and what do drops cost? |
| `ingress` | 2 addresses, 4 ticks, 11 kinds of call of which 2 are made, up to 3 routes of 5, 1 refusal per address, room for 1 number; 612,796 states | Is the limit exact, is silence explained, is the answer the right one? |
| `frame_ack`, `key_agreement`, `connected_by_handshake`, `wrong_answer`, `address_confirmed` | as above | five statements the code contradicts, see section 5 |

Why the bounds are enough. A window of three bits has an inside, both edges and a
beyond with eight numbers. In `requests` two calls are what it takes for one
call's answer to reach the other, for one request to overtake the other, and for
the stream limit to refuse; width 1 makes the newer of two requests push the older
out of the window, so that the overtaken case of `RetryStillUseful` occurs (the
bitmap inside a wider window is the subject of `replay_guard`); one retry gives a
first and a last attempt. `requests_live` uses width 1 too. In `handshake` two
connections give a resumption, a second full handshake, and late messages of the
first one during the second.

In `fastudp` two calls on one stream are what it takes for one to get the numbers
of the other, two connections for a resumption or a second session, and datagrams
that stay in `net` take the place of retries (`Retries` is 0: a second copy is the
same datagram). `MaxFaults` bounds what goes wrong in one behaviour, not how
often: a deadline, a timeout or cancellation, a close, a handler that fails, a
cleanup pass with stale entries, or a restart. Resumptions, repeated ACKs,
duplicates and late messages are not faults and come in any number. Path classes,
several streams and failing handlers are the subject of `requests`: there, and in
the theorems, requests without a path, with one that does not split, and overtaken
ones occur. With two numbers and a window of two nothing is overtaken in `fastudp`,
whose windows refuse because of shared numbers. In `migration`
two addresses and two moves take the client away and back, two tokens let a
challenge go stale and be replaced, width 1 lets one PING or request overtake
another, and four datagrams allow a request, its copy from elsewhere, a
PATH_RESPONSE and a CLOSE, HELLO or PING. In `ingress` rate, burst and cost (2, 3
and 2 of a unit) make the cap, an exact grant and a refusal all happen within four
ticks; the calls meet every check on a packet from both sides, the routes shadow
each other, share a parameter's place and fail to compile; among the paths are one
with a scheme, one with a netloc, one with a fragment that hides the query, and one
whose netloc is rejected; `int` and `float` both fail on some; the header has room for
one number, so that the second call is the one it cannot take. The real sizes
are assumed only through `SizesAssumption`: a packet of the greatest size has no
room for a body over the limit of bodies (4096 against 1 MiB).

`CHECK_DEADLOCK FALSE` is set where the system may stop: when every call has
ended and nothing is left to clean up, nothing has to happen.

Calls and streams are interchangeable in `requests`, calls and session ids in
`fastudp`, addresses in `ingress` (`Symmetry`). The runs with liveness use no
symmetry; `ImplementsHandshake` and `ImplementsMeter` are checked with it because
the abstract specifications are safety only and symmetric in the same sets.

Fairness. `requests_live`: a timer that is set fires and a done future wakes
its waiter (`EndsWait`, one disjunct for each way out of `wait_for`), and the
cleanup loop, which runs every second, meets the entries past their deadline
(`CleansUp`). `handshake`: deadlines of pending handshakes and sessions pass,
and the cleanup loop runs. `migration` (`LiveSpec`): the same for the session and
the tokens of its challenges. No fairness is assumed of the network, of handlers or
of the caller. `TablesDrain` holds of a client that resumes only so often, as finite
nonces make it: one that resumes for ever keeps its session for ever.

Properties, by what would break them:

- `AtMostOnceExecution`, `OneAnswerPerRequest`: a window not consulted once the
  cache entry has gone.
- `AnswerMatchesCall`: answers given to a call by anything less than its numbers.
- `NoStalePending`: a timed out future left registered. The property states what
  does stay for good, too: calls cancelled by the caller and calls that failed
  in `_send`.
- `RetryStillUseful`: a window that refuses what was not handled. Three honest
  exceptions remain, a request without a path, one whose path `split_path` raises
  on, and one overtaken by a window's width of newer requests; for those a retry
  is useless.
- `ImplementsRPC`: the refinement of `AtMostOnceRPC`.
- `SidKeepsKey`, `OneSessionPerProof`, `AgreementUnlessStale`: keys and sessions
  over resumption, duplicates, expiry and restart.
- `HandshakeGoesOn`: a repeated HELLO that leaves the client with a CHALLENGE the
  server has forgotten and no way on.
- `TablesDrain`, `CallsTerminate`, `InflightDrains`, `ValidationsDrain`: liveness.
- `OneRunPerLife`: a resumed session that forgets what it has seen. A session
  that was dropped and comes back from a ticket may run a request again: the
  promise is per life of the session, and no stronger one holds.
- `AnswerByNumbers`: an answer given by less than its stream and request id. It is
  what is left of `AnswerMatchesCall` when sessions are replaced.
- `StarvationExplained`, `RefusalExplained`: requests and answers that a window
  refuses for any other reason than shared numbers, a wrong key, an empty or
  malformed path or a window's width of newer ones.
- `ImplementsHandshake`: the refinement of `Handshake` by the whole system.
- `AddressMovesAsked`: a datagram that moves `client_addr` while the address has no
  open, unanswered challenge; also a late one, from where the client was before.
  While a challenge is open any datagram from there moves it, answered or not:
  that is the finding of `address_confirmed`.
- `TokenSpentOnce`: a move by a token spent before.
- `DropCostsNoNumber`: a window that counts what was then dropped for its address.
  A number counts as taken when the window accepted it, of a request or a PING.
- `NoSilentDrop`: a drop while a stale challenge keeps a new one from going out.
- `WithinRate`, `ImplementsMeter`: a bucket without a brim, or one refilled twice
  for the same time; and one that refuses what the rate allows.
- `NumbersUnique`: numbers that wrap.
- `SilenceExplained`: a length that the server computes otherwise than the client.
  It says which requests are never answered, in both directions.
- `AnswersStand`, of the path that `split_path` leaves: a later route that takes
  over, an unescaped character, a query value that hides a path value.
- `Bookkeeping` (in `RequestsInvariant`, `HandshakeInvariant` and
  `FastUDPInvariant`): the inductive invariant, checked before it was proved. In
  `fastudp` it says what each window refuses and why: a number that was overtaken,
  or that of a message in the network which was dealt with. In `requests` it also
  bounds the open streams by `MaxStreams`.

## 4. Theorems

All are for arbitrary constants under the named assumptions of the modules:
`WindowAssumption` (a positive width), `SeqsAssumption`, `NoSessionAssumption`,
`RequestsAssumption` and `HandshakeAssumption` (sentinels are no data, limits
are numbers, keys are the pairs of nonces, some nonce exists),
`FastUDPAssumption` (both, and `MaxFaults` is a number), `MigrationAssumption`,
`BucketAssumption` (rate and burst are numbers, the cost is positive),
`IngressAssumption`, `SizesAssumption`, `CallsAssumption` (bounds are numbers,
paths and queries are sequences) and `RegistrationsAssumption` (a registration has
a list of methods, a template of characters and names, and a handler that has a
signature). The bounds of the models (`MaxFaults`,
`MaxSent`, `MaxTime` and the others) are arbitrary numbers in the theorems.

| Module | Theorem | States |
|---|---|---|
| `ReplayGuardProofs` | `TypeCorrect`, `BitmapAlwaysExact`, `HighestStaysNewest` | the three invariants of the window |
| | `ImplementsFilter` | the bitmap implements `DuplicateFilter` |
| `RequestsProofs` | `Invariance`, `TypeCorrect` | `Inv` is inductive, every variable has its type |
| | `ExecutedAtMostOnce`, `AnswersMatchCalls`, `OneAnswer`, `PendingNeverStale`, `RetriesStayUseful`, `Bookkept` | the safety properties of the request layer |
| | `Refinement` | `Requests` implements `AtMostOnceRPC` |
| `HandshakeProofs` | `Invariance`, `TypeCorrect`, `SidNamesOneKey`, `ProofUsedOnce`, `KeysAgreeUnlessStale`, `Bookkept` | the safety properties of the handshake |
| `FastUDPProofs` | `Invariance`, `OneRun`, `AnswersKeepNumbers` | what is left of the request layer's promises over many sessions |
| | `Implements`, `HandshakePromises` | the whole implements `Handshake`, and so keeps its promises |
| `FastUDPWindows` | `Bookkept`, `TypeCorrect` | the windows of both ends account for what they refuse |
| | `RefusalHasReason`, `StarvationHasReason` | why an answer or a request is refused for good |
| `MigrationProofs` | `Invariance`, `TypeCorrect`, `AddressMovesWereAsked`, `TokensSpentOnce`, `DropsCostNoNumber`, `DropsChallenged` | all safety properties of `Migration` |
| `IngressProofs` | `Invariance`, `RateKept`, `BucketsAreExact` | the limiter never exceeds its contract, and implements the meter |
| | `PacketInvariance`, `NumbersStayUnique`, `SilenceHasReason` | the packets |
| | `RecordsInvariance`, `TypeCorrect` | every table and counter keeps its type |
| | `AnswersAreRight` | the compiled patterns choose the first route that fits, with values that fill its template |

The window. `passed` is the history of numbers let through. "Bit d is set
exactly if `highest - d` was let through" is preserved by every branch of
`accept`, and decides each arrival as the filter would. For the request layer
only six facts are used (`ReplayWindowProofs`): a new window refuses nothing, a
window keeps its type, refuses what it accepted, goes on refusing what it
refused, comes to refuse nothing else but what it leaves behind, and its
highest number grows.

Requests. That the handler ran at most once is not inductive. What carries it is
`HandledIsSeen`: while the session is in the table, its window refuses every
request that was executed or answered, whatever the cache has forgotten. It needs
`RequestsGenuine` (each REQUEST in the network is its call's packet), so that an
accepted datagram names a call, and `Numbering` (no two calls share numbers).
`ResponsesGenuine` and `PendingGenuine` then carry an answer to its own call.
When a session leaves the table its windows go with it, and so does any way to
accept its requests. `RetryStillUseful` needs one more conjunct, `WindowBelow`:
the window never runs ahead of the numbers handed out. The refinement maps
`SpawnHandler` to `Execute`, `AnswerNotFound` and `FinishRequest` to `Settle`,
`Return` and a `Retry` that finds its future done to `Complete` or `Fail`, the
other exits to `Fail`, and all else to a stutter.

Handshake. New nonces and session ids must be new to the whole history, not only
to the tables: `KeysChallenged` (a ticket's key comes from challenged nonces) and
`PendingUnused` (a pending handshake's key is in no ticket yet) say so, and
`TicketsGenuine` that whatever ticket a HELLO brings was issued.

The composition. Each step of `FastUDP` is shown to be a step of `Handshake`
over `HandshakeNet`, the part of the network it knows, or none (a CLOSE, an
expiry and a cleanup pass are steps of both layers). The refinement makes the
theorems of `HandshakeProofs` hold of the whole, by INSTANCE. The strengthening
for the request side is short, as it speaks of numbers and not of calls:
`RequestsGenuine`, `AnswersGenuine` and `FuturesGenuine` carry stream and request
id from packet to answer, and `RunsMarked` says that what ran in the present life
of a session is in its window. It needs that request id and sequence number of a
stream advance together (`rid = seq + 1`, in `Tables`), since the window knows the
one and the cache and `runs` the other.

Refusals. `RefusalExplained` and `StarvationExplained` speak of the packet of one
call, and a window that refuses its number may do so because of another packet, so
neither is inductive. `ServerWindowsExplained` and `ClientWindowsExplained` speak
of every number up to the highest instead: what the window refuses was overtaken,
or is the number of a message in the network that was dealt with (`Met`: run,
answered, unreadable, or with a path that does not split; at the client: a
response whose call is no longer registered). Each action has to keep the reason
true: the server marks a number in the step that meets it; a window that moves on
refuses nothing new but what it leaves behind (`ReplayWindowProofs`); a call
registers once, so one that left `pending_requests` does not come back; and the
client takes the call out in the step that marks the response. That a reason stays
true over a resumption uses the invariant of `Handshake`: a ticket keeps the key
of its session id (`TicketsGenuine`, `SidKeepsKey`), so a body that could not be
read still cannot, and a proved session has an id no earlier session had, so its
windows are new. `RunsMarked` and `Tables` give the types. A request that the
server refused is then explained by its own packet or by that of a namesake.

Migration. `ValidationsChallenged` (an entry of `path_validation` has its
challenge in the network), `TokensUnspent` (a token still in the table never moved
an address) and `WindowExplained` (`DropCostsNoNumber` for every number and not
only those sent) are what the invariants lack. `AddressMovesAsked` follows
from the first two: what lets a datagram pass is an entry that is open, its challenge
went out, and its token has moved nothing yet.

Ingress. That a bucket never lets too much through is not inductive. The invariant
balances what the bucket holds against what the meter counts: for every stretch of
time there is at least as much room left in its contract as the bucket holds, and
for one of them exactly as much. The first half gives `WithinRate`, the second
that a refusal is justified, and both together the refinement. For the packets,
each one sent is `Packet(c, q)` for a number `q` below `next_seq`, what is silent was
not `Answerable`, and what was answered is.

Routing. `AnswersStand` compares two definitions that recur over a template: what the
pattern matches, and what the filled-in template is. The library's induction theorem
has an operator as its parameter, so induction is first stated as a fact about sets
of numbers (`Climb`: a set that has 0 and with each number below the bound its
successor has them all), from the library's theorem that `<` is well founded on the
naturals, which has none. That the recursive functions exist and obey
their equations is shown by the same means (`MatchRule`, `StartRule`,
`FlattenFacts`), for every pattern, path and template. A template fits a path
exactly if its pattern matches (`MatchedFits`, `FittingMatches`): the
places where the elements start cut the path into pieces, and filling the template
with them gives the path back. The greedy choice of `Starts` always finds a next
place, so the values of `groupdict()` are among those that fit (`OutcomeRight`).
What `urlsplit` leaves of a path is a piece of it (`UrlFacts`, `PathFacts`).
Routes are only ever appended, so the first that fits stays the first.

Only model-checked:
- the liveness properties `CallsTerminate`, `InflightDrains`, `TablesDrain` and
  `ValidationsDrain`, and `HandshakeGoesOn`, which asks whether actions are enabled:
  TLAPS has no rule for fairness or `ENABLED` here;
- the violations of section 5, which are counterexamples.

Every other property of a passing run is stated by a theorem.

## 5. Where code and documents disagree

- FRAME_ACK has no effect on the client: events are registered in the streams of
  the session, and looked up in a table that is always empty (`frame_ack`).
- Both sides may end a resumption with different keys, when the ticket in the ACK
  has expired on the client's clock (`key_agreement`).
- `connect()` on a client that was connected before returns the old session
  without waiting for its own handshake (`connected_by_handshake`).
- After a repeated ACK, or a resumption, streams start at their first number while
  the session's cache and windows and the client's `pending_requests` live on: a
  call can be given the answer of another that had its numbers (`wrong_answer`).
- The second datagram from a new address moves `client_addr`, whether or not the
  PATH_CHALLENGE that the first one drew was answered (`address_confirmed`).

## 6. Not modelled

- `congestion.py`: both ends construct a controller and never call it.
- `pq.py`, `session.py`: nothing in the repository uses them.
- `cli.py`, `__init__.py`, `__main__.py`: argument parsing, I/O, re-exports.
- Cryptography: MACs, cookies and the timestamp window accept every genuine
  message; a derived key is its nonces, a ticket its contents, a ciphertext its key.
- Rounding of floats in the token bucket.
- The byte layout of handshake messages and bodies; of the codec, the lengths of a
  REQUEST, the header's checks and the width of sequence number and request id are
  in `Ingress`. The other modules hand out unbounded numbers; TLC stays finite
  because each call draws numbers once.
- `bool` conversions, which take any text, `normalize_response`, quoting and the case
  of methods in the router.
- What `urlsplit` checks in a netloc (brackets, characters that normalise to
  delimiters) is the constant `RejectedNetlocs`; the control characters it strips are
  not in `Characters`; and a path is taken to be UTF-8.
- Clocks that go back: what is past a deadline stays so.
- `server_addr`: `_on_datagram` sets it to the sender of any datagram
  (`client.py:217`). With one server at one address, as here, that changes nothing.
- A client that moves between HELLO and PROVE: `pending` is keyed by address
  (`server.py:413`, `429`), so its PROVE finds nothing and the handshake times out.
- Several clients: sessions of different clients share the limit on sessions only
  (`max_clients`), and the rate limit if they share an address. Both are in the
  models as what other sessions of the one client, and other datagrams
  (`ReceiveOther`), do to them.

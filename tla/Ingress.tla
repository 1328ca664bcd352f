------------------------------- MODULE Ingress -------------------------------
(***************************************************************************)
(* The way of a request into the server: how the client packs it, the rate *)
(* limit of the address it comes from, the size and header checks of       *)
(* datagram_received, and the route and arguments it is answered with.     *)
(* Routes may be registered at any time.                                   *)
(*                                                                         *)
(* One stream of one live session at its own address. Sessions, windows,   *)
(* retries and the cache are the subject of the other modules: here a      *)
(* packet arrives as often as the network likes and is answered once.      *)
(***************************************************************************)
EXTENDS TokenBucket, Router

CONSTANTS
  Ips,               \* addresses without their port
  Calls,             \* requests: [method, path, query, body]
  Registrations,     \* routes: [methods, template, handler]
  HEADER_SIZE, TAG,  \* bytes of a header, and of the seal of a body
  MAX_PACKET_SIZE, MAX_PATH_BYTES, MAX_BODY_BYTES,
  FIELD_VALUES,      \* values a number of the header can have, 2^32 in the code
  MaxTime,           \* bound on the clock
  MaxRoutes,         \* bound on the routes
  MaxCalls,          \* bound on the calls
  MaxRefused         \* bound on the datagrams of an address that are refused

ASSUME IngressAssumption ==
  /\ HEADER_SIZE \in Nat /\ TAG \in Nat /\ MAX_PACKET_SIZE \in Nat
  /\ MAX_PATH_BYTES \in Nat /\ MAX_BODY_BYTES \in Nat /\ FIELD_VALUES \in Nat
  /\ MaxTime \in Nat /\ MaxRoutes \in Nat /\ MaxCalls \in Nat /\ MaxRefused \in Nat

\* A packet of the greatest size has no room for a body beyond the limit of bodies.
ASSUME SizesAssumption == MAX_PACKET_SIZE - HEADER_SIZE <= MAX_BODY_BYTES

ASSUME CallsAssumption ==
  \A c \in Calls : /\ c.path \in Seq(Characters) /\ c.body \in Nat
                   /\ c.query \in Seq([name : Names, value : Seq(Characters)])

\* A template is text with parameters in it, and a handler is one that can be called.
ASSUME RegistrationsAssumption ==
  \A r \in Registrations :
    /\ r.methods \in Seq(STRING) /\ r.template \in Seq(Characters \cup Names)
    /\ r.handler \in DOMAIN Signature

VARIABLES
  now,               \* the monotonic clock
  rate_limits,       \* the bucket of each address, or NoBucket
  routes,            \* RouteTable._routes
  next_seq,          \* of the client's stream
  sent,              \* packets the client sent; any may arrive, more than once
  answered,          \* the answers given: [seq, call, outcome]
  silent,            \* numbers of packets that were read and dropped
  since, refused     \* what RateMeter counts

limitVars == <<now, rate_limits, since, refused>>
requestVars == <<routes, next_seq, sent, answered, silent>>
vars == <<limitVars, requestVars>>

NoBucket == [tokens |-> 0, updated |-> -1]

\* The bytes of the path with its query.
PathBytes(call) == Len(call.path) + Len(call.query)

\* Mutant: the seal is left out of the length.
PacketUnsealed(call, seq) ==
  [call |-> call, seq |-> seq, path_len |-> PathBytes(call), body_len |-> call.body,
   size |-> HEADER_SIZE + PathBytes(call) + call.body + TAG]

\* The packet of request(): header, path, and body with its seal.
Packet(call, seq) ==
  [call |-> call, seq |-> seq, path_len |-> PathBytes(call), body_len |-> call.body + TAG,
   size |-> HEADER_SIZE + PathBytes(call) + call.body + TAG]

\* The request id is the number plus one, and both have to fit.
Packets == {Packet(c, q) : c \in Calls, q \in 0 .. FIELD_VALUES - 2}

TypeOK ==
  /\ now \in 0 .. MaxTime
  /\ rate_limits \in [Ips -> Buckets \cup {NoBucket}]
  /\ \A ip \in Ips : rate_limits[ip].updated <= now
  /\ next_seq \in Nat /\ sent \subseteq Packets
  /\ \A r \in Range(routes) :
       /\ Compiles(r.template) /\ r.regex = Compile(r.template)
       /\ r.handler \in DOMAIN Signature
  /\ \A a \in answered :
       /\ a.seq \in Nat /\ a.call \in Calls
       /\ a.outcome.status \in {200, 404, 500}
  /\ silent \subseteq Nat
  /\ since \in [Ips -> [0 .. MaxTime -> Nat]] /\ refused \in [Ips -> Nat]

Init ==
  /\ now = 0 /\ rate_limits = [ip \in Ips |-> NoBucket]
  /\ routes = <<>> /\ next_seq = 0 /\ sent = {} /\ answered = {} /\ silent = {}
  /\ since = [ip \in Ips |-> [t \in 0 .. MaxTime |-> 0]]
  /\ refused = [ip \in Ips |-> 0]

Tick ==
  /\ now < MaxTime
  /\ now' = now + 1
  /\ UNCHANGED <<rate_limits, since, refused, requestVars>>

\* FastUDPApp.route; a template that does not compile raises at the first method.
Register(r) ==
  /\ Compiles(r.template)
  /\ Len(routes) + Len(r.methods) <= MaxRoutes
  /\ routes' = Add(routes, r.methods, r.template, r.handler)
  /\ UNCHANGED <<limitVars, next_seq, sent, answered, silent>>

-----------------------------------------------------------------------------
(***************************************************************************)
(* request() up to its first send.                                         *)
(***************************************************************************)

\* Mutant: the number wraps around, as the nonce's do.
PackWrapped(call) ==
  IF PathBytes(call) > MAX_PATH_BYTES THEN UNCHANGED sent
  ELSE sent' = sent \cup {Packet(call, next_seq % (FIELD_VALUES - 1))}

\* PacketTooLarge for the path sends nothing, and struct.error for a number whose
\* request id, next_seq + 1, is beyond its field.
Pack(call) ==
  IF PathBytes(call) > MAX_PATH_BYTES \/ next_seq + 1 >= FIELD_VALUES
  THEN UNCHANGED sent
  ELSE sent' = sent \cup {Packet(call, next_seq)}

\* The body is looked at before the call takes its number, the path after.
Issue(call) ==
  /\ next_seq < MaxCalls
  /\ call.body <= MAX_BODY_BYTES
  /\ next_seq' = next_seq + 1
  /\ Pack(call)
  /\ UNCHANGED <<limitVars, routes, answered, silent>>

-----------------------------------------------------------------------------
(***************************************************************************)
(* datagram_received.                                                      *)
(***************************************************************************)

\* _rate_allow: the bucket of the address, made at its first datagram.
Bucket(ip) == IF rate_limits[ip] = NoBucket THEN NewBucket(now) ELSE rate_limits[ip]

RateAllow(ip) ==
  /\ rate_limits' = [rate_limits EXCEPT ![ip] = Allow(Bucket(ip), now)]
  /\ UNCHANGED now

LetThrough(ip) ==
  /\ Grants(Bucket(ip), now) /\ RateAllow(ip)
  /\ since' = [since EXCEPT ![ip] =
                 [t \in 0 .. MaxTime |-> IF t <= now THEN @[t] + 1 ELSE @[t]]]
  /\ UNCHANGED refused

\* Any datagram that finds the bucket of its address too low.
Refuse(ip) ==
  /\ refused[ip] < MaxRefused
  /\ ~ Grants(Bucket(ip), now) /\ RateAllow(ip)
  /\ refused' = [refused EXCEPT ![ip] = @ + 1]
  /\ UNCHANGED <<since, requestVars>>

\* A datagram that is no REQUEST of the session, whatever is in it: the limit is
\* asked first.
ReceiveOther(ip) == LetThrough(ip) /\ UNCHANGED requestVars

\* The checks of sizes; what the header cuts off has to be what was sealed; and an
\* empty path ends it.
Readable(d) ==
  /\ d.size \in HEADER_SIZE .. MAX_PACKET_SIZE
  /\ d.path_len <= MAX_PATH_BYTES /\ d.body_len <= MAX_BODY_BYTES
  /\ HEADER_SIZE + d.path_len + d.body_len <= d.size
  /\ d.path_len = PathBytes(d.call) /\ d.body_len = d.call.body + TAG
  /\ d.path_len > 0

\* A REQUEST that was not read before. The ValueError of split_path ends it without
\* an answer, in datagram_received.
ReceiveRequest(ip, d) ==
  /\ d.seq \notin silent /\ \A a \in answered : a.seq # d.seq
  /\ LetThrough(ip)
  /\ IF Readable(d) /\ Splits(d.call)
     THEN /\ answered' = answered \cup {[seq |-> d.seq, call |-> d.call,
                                         outcome |-> Outcome(routes, d.call)]}
          /\ UNCHANGED silent
     ELSE /\ silent' = silent \cup {d.seq}
          /\ UNCHANGED answered
  /\ UNCHANGED <<routes, next_seq, sent>>

-----------------------------------------------------------------------------

Next ==
  \/ Tick
  \/ \E r \in Registrations : Register(r)
  \/ \E c \in Calls : Issue(c)
  \/ \E ip \in Ips :
       \/ Refuse(ip) \/ ReceiveOther(ip)
       \/ \E d \in sent : ReceiveRequest(ip, d)

Spec == Init /\ [][Next]_vars

-----------------------------------------------------------------------------
(***************************************************************************)
(* Properties.                                                             *)
(***************************************************************************)

\* No address gets more through, in any stretch of time, than burst and rate allow.
WithinRate ==
  \A ip \in Ips : \A t \in 0 .. now : COST * since[ip][t] <= BURST + RATE * (now - t)

\* No two packets of the stream bear one number, also where the header has none left.
NumbersUnique == \A d, e \in sent : d.seq = e.seq => d = e

\* What the limit lets through and the server drops without a word is a packet
\* that is too long, though request() takes bodies and paths up to limits far
\* beyond it, one with no path, or one whose path urlsplit rejects. Any other that
\* is let through gets its answer, and none of these does.
SilenceExplained ==
  \A d \in sent :
    LET hopeless == \/ d.size > MAX_PACKET_SIZE \/ PathBytes(d.call) = 0
                    \/ ~ Splits(d.call)
    IN /\ d.seq \in silent => hopeless
       /\ hopeless => \A a \in answered : a.seq # d.seq

\* A call is answered by the first of the routes whose template can be filled in to
\* give the path split_path leaves of the call's, with the values that do; routes
\* that are added later do not change that, and one that found no route came before
\* those that would fit.
AnswersStand ==
  \A a \in answered :
    \E n \in 0 .. Len(routes) :
      /\ a.outcome \in RightAnswers(SubSeq(routes, 1, n), a.call)
      /\ a.outcome.status # 404 => a.outcome \in RightAnswers(routes, a.call)

\* The buckets let through and refuse exactly what RateMeter does.
Meter == INSTANCE RateMeter
ImplementsMeter == Meter!Spec
=============================================================================

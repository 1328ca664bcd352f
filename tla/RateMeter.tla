------------------------------ MODULE RateMeter ------------------------------
(***************************************************************************)
(* What a rate limit means, without a bucket: a datagram is let through if *)
(* and only if, with it, no stretch of time up to now has seen more from   *)
(* its address than the burst and the rate over that stretch allow.        *)
(***************************************************************************)
EXTENDS Integers

CONSTANTS Ips, MaxTime, RATE, BURST, COST

VARIABLES
  now,
  since,             \* since[ip][t]: datagrams let through at time t or later
  refused            \* datagrams turned away

meterVars == <<now, since, refused>>

Init ==
  /\ now = 0
  /\ since = [ip \in Ips |-> [t \in 0 .. MaxTime |-> 0]]
  /\ refused = [ip \in Ips |-> 0]

Conforms(ip) ==
  \A t \in 0 .. now : COST * (since[ip][t] + 1) <= BURST + RATE * (now - t)

Pass(ip) ==
  /\ Conforms(ip)
  /\ since' = [since EXCEPT ![ip] =
                 [t \in 0 .. MaxTime |-> IF t <= now THEN @[t] + 1 ELSE @[t]]]
  /\ UNCHANGED <<now, refused>>

TurnAway(ip) ==
  /\ ~ Conforms(ip)
  /\ refused' = [refused EXCEPT ![ip] = @ + 1]
  /\ UNCHANGED <<now, since>>

Tick ==
  /\ now' = now + 1
  /\ UNCHANGED <<since, refused>>

Next == Tick \/ \E ip \in Ips : Pass(ip) \/ TurnAway(ip)

Spec == Init /\ [][Next]_meterVars
=============================================================================

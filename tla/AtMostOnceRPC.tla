---------------------------- MODULE AtMostOnceRPC ----------------------------
(***************************************************************************)
(* What request() promises its caller, with no datagram, sequence number,  *)
(* window or cache in it: the server runs the handler of a call at most    *)
(* once, settles on at most one answer for it, and the call returns that   *)
(* answer or fails. A failure says nothing of the server: the handler may  *)
(* have run already, or may still run.                                     *)
(***************************************************************************)
EXTENDS Integers

CONSTANTS Calls, Statuses, Failures, NoReply

VARIABLES
  phase,         \* idle, waiting, answered or a member of Failures
  reply,         \* what the call returned
  executions,    \* handler runs started for the call
  answer         \* the status the server settled on, or "none"

rpcVars == <<phase, reply, executions, answer>>

Init ==
  /\ phase = [c \in Calls |-> "idle"]
  /\ reply = [c \in Calls |-> NoReply]
  /\ executions = [c \in Calls |-> 0]
  /\ answer = [c \in Calls |-> "none"]

Issue(c) ==
  /\ phase[c] = "idle"
  /\ phase' = [phase EXCEPT ![c] = "waiting"]
  /\ UNCHANGED <<reply, executions, answer>>

Execute(c) ==
  /\ phase[c] # "idle"
  /\ executions[c] = 0
  /\ answer[c] = "none"
  /\ executions' = [executions EXCEPT ![c] = 1]
  /\ UNCHANGED <<phase, reply, answer>>

\* "notfound" is the one answer that takes no handler.
Settle(c, status) ==
  /\ phase[c] # "idle"
  /\ answer[c] = "none"
  /\ executions[c] = (IF status = "notfound" THEN 0 ELSE 1)
  /\ answer' = [answer EXCEPT ![c] = status]
  /\ UNCHANGED <<phase, reply, executions>>

Complete(c) ==
  /\ phase[c] = "waiting"
  /\ answer[c] # "none"
  /\ phase' = [phase EXCEPT ![c] = "answered"]
  /\ reply' = [reply EXCEPT ![c] = [call |-> c, status |-> answer[c]]]
  /\ UNCHANGED <<executions, answer>>

Fail(c, f) ==
  /\ phase[c] \in {"idle", "waiting"}
  /\ phase' = [phase EXCEPT ![c] = f]
  /\ UNCHANGED <<reply, executions, answer>>

Next ==
  \E c \in Calls :
    \/ Issue(c) \/ Execute(c) \/ Complete(c)
    \/ \E status \in Statuses : Settle(c, status)
    \/ \E f \in Failures : Fail(c, f)

Spec == Init /\ [][Next]_rpcVars
=============================================================================

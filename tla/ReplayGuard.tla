----------------------------- MODULE ReplayGuard -----------------------------
(***************************************************************************)
(* One ReplayWindow fed with an arbitrary sequence of arrivals: any number *)
(* of Seqs, in any order, any number of times. Sequence numbers come off   *)
(* the wire as unsigned 32-bit integers, so they are naturals.             *)
(***************************************************************************)
EXTENDS ReplayWindow

CONSTANT Seqs               \* the sequence numbers that may arrive

ASSUME SeqsAssumption == Seqs \subseteq Nat

VARIABLES window,           \* the ReplayWindow object
          passed,           \* history: every number accept() said yes to
          verdict           \* the last call of accept() and its result

vars == <<window, passed, verdict>>

TypeOK ==
  /\ window \in Windows
  /\ passed \subseteq Seqs
  /\ verdict \in [seq : Seqs \cup {-1}, accepted : BOOLEAN]

Init ==
  /\ window = NewWindow
  /\ passed = {}
  /\ verdict = [seq |-> -1, accepted |-> FALSE]

\* Mutant: a refused number still moves the window.
AcceptMarksAlways(q) ==
  /\ verdict' = [seq |-> q, accepted |-> Accepts(window, q)]
  /\ window' = IF q <= window.highest /\ window.highest - q >= REPLAY_WINDOW
               THEN [highest |-> q, bitmap |-> {0}] ELSE Mark(window, q)
  /\ passed' = IF Accepts(window, q) THEN passed \cup {q} ELSE passed

\* accept(q)
Accept(q) ==
  IF Accepts(window, q)
  THEN /\ window' = Mark(window, q)
       /\ passed' = passed \cup {q}
       /\ verdict' = [seq |-> q, accepted |-> TRUE]
  ELSE /\ verdict' = [seq |-> q, accepted |-> FALSE]
       /\ UNCHANGED <<window, passed>>

Next == \E q \in Seqs : Accept(q)

Spec == Init /\ [][Next]_vars

-----------------------------------------------------------------------------

\* The bitmap is exact at every distance it covers: bit d is set if and only
\* if highest - d was let through. A shift or mask that is off by one, or a
\* bit lost at the far edge of the window, breaks it.
BitmapExact ==
  \A d \in Bits : d \in window.bitmap <=> window.highest - d \in passed

\* `highest` is the greatest number ever let through (-1 before the first):
\* late arrivals never pull the window back.
HighestIsNewest ==
  /\ \A p \in passed : p <= window.highest
  /\ window.highest # -1 => window.highest \in passed

\* The window decides every arrival as the exact filter does: accept() never
\* says yes twice to one number, however it is reordered or repeated on the
\* way, and never refuses a fresh one within REPLAY_WINDOW of the newest.
Filter == INSTANCE DuplicateFilter WITH Width <- REPLAY_WINDOW

FilterSpec == Filter!Spec
=============================================================================

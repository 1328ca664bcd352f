---------------------------- MODULE ReplayWindow ----------------------------
(***************************************************************************)
(* The sliding replay window of fastudp/security.py (class ReplayWindow).  *)
(* Both ends keep one per stream: the server for the sequence numbers of   *)
(* REQUEST and PING datagrams, the client for those of RESPONSE datagrams. *)
(*                                                                         *)
(* The integer `bitmap` is represented by the set of its one bits: bit d   *)
(* stands for the sequence number highest - d.                             *)
(***************************************************************************)
EXTENDS Integers

CONSTANT REPLAY_WINDOW      \* width of the window in bits, 64 in the code

ASSUME WindowAssumption == REPLAY_WINDOW \in Nat \ {0}

Bits == 0 .. REPLAY_WINDOW - 1

Windows == [highest : Nat \cup {-1}, bitmap : SUBSET Bits]

NewWindow == [highest |-> -1, bitmap |-> {}]

\* The sequence numbers the window refuses: marked ones, and those that lie
\* REPLAY_WINDOW or more behind the highest.
Seen(w, seq) ==
  /\ seq <= w.highest
  /\ \/ w.highest - seq >= REPLAY_WINDOW
     \/ w.highest - seq \in w.bitmap

\* The verdict of accept(seq).
Accepts(w, seq) == seq >= 0 /\ ~ Seen(w, seq)

\* Mutant: the mask is missing.
SlideUnmasked(bitmap, shift) == {0} \cup {d + shift : d \in bitmap}

\* (bitmap << shift) | 1, masked to REPLAY_WINDOW bits.
Slide(bitmap, shift) ==
  {d \in Bits : d = 0 \/ d - shift \in bitmap}

\* Mutant: the bitmap is reset on every advance of the window.
MarkForgetful(w, seq) ==
  IF seq > w.highest
  THEN [highest |-> seq, bitmap |-> {0}]
  ELSE [w EXCEPT !.bitmap = @ \cup {w.highest - seq}]

\* Mutant: the bitmap is slid one bit too far.
MarkOffByOne(w, seq) ==
  IF seq > w.highest
  THEN [highest |-> seq, bitmap |-> Slide(w.bitmap, seq - w.highest + 1)]
  ELSE [w EXCEPT !.bitmap = @ \cup {w.highest - seq}]

\* The window after accept(seq) said yes. The code's special cases (first
\* packet, shift >= REPLAY_WINDOW) leave bit 0 alone set, as Slide does.
Mark(w, seq) ==
  IF seq > w.highest
  THEN [highest |-> seq,
        bitmap  |-> IF w.highest = -1 \/ seq - w.highest >= REPLAY_WINDOW
                    THEN {0}
                    ELSE Slide(w.bitmap, seq - w.highest)]
  ELSE [w EXCEPT !.bitmap = @ \cup {w.highest - seq}]
=============================================================================

-------------------------- MODULE ReplayWindowProofs --------------------------
(***************************************************************************)
(* Facts about the operators of ReplayWindow, for a window of any width.   *)
(***************************************************************************)
EXTENDS ReplayWindow, TLAPS

\* A new window has the type of a window and refuses nothing.
LEMMA NewWindowFacts ==
  /\ NewWindow \in Windows
  /\ \A seq \in Nat : ~ Seen(NewWindow, seq)
BY WindowAssumption DEF NewWindow, Windows, Bits, Seen

\* accept() keeps the representation within REPLAY_WINDOW bits.
LEMMA MarkType ==
  ASSUME NEW w \in Windows, NEW seq \in Nat, Accepts(w, seq)
  PROVE  Mark(w, seq) \in Windows
<1>1. CASE seq > w.highest
  BY <1>1, WindowAssumption DEF Mark, Windows, Bits, Slide
<1>2. CASE seq <= w.highest
  <2>1. w.highest - seq \in Bits
    BY <1>2, WindowAssumption DEF Accepts, Seen, Windows, Bits
  <2>2. Mark(w, seq) = [w EXCEPT !.bitmap = w.bitmap \cup {w.highest - seq}]
    BY <1>2 DEF Mark, Windows
  <2> QED
    BY <2>1, <2>2 DEF Windows
<1> QED
  BY <1>1, <1>2 DEF Windows

\* An accepted number is refused from then on.
LEMMA MarkSeen ==
  ASSUME NEW w \in Windows, NEW seq \in Nat, Accepts(w, seq)
  PROVE  Seen(Mark(w, seq), seq)
<1>1. CASE seq > w.highest
  BY <1>1, WindowAssumption DEF Mark, Windows, Bits, Slide, Seen
<1>2. CASE seq <= w.highest
  BY <1>2 DEF Mark, Windows, Seen
<1> QED
  BY <1>1, <1>2 DEF Windows

\* What was refused stays refused when another number is accepted.
LEMMA MarkKeepsSeen ==
  ASSUME NEW w \in Windows, NEW seq \in Nat, Accepts(w, seq),
         NEW old \in Nat, Seen(w, old)
  PROVE  Seen(Mark(w, seq), old)
<1>1. CASE seq > w.highest
  <2>1. w.highest \in Nat /\ w.highest >= old
    BY DEF Seen, Windows
  <2>2. Mark(w, seq).highest = seq
    BY <1>1 DEF Mark
  <2>3. CASE seq - old >= REPLAY_WINDOW
    BY <1>1, <2>1, <2>2, <2>3 DEF Seen
  <2>4. CASE seq - old < REPLAY_WINDOW
    <3>1. w.highest - old \in w.bitmap
      BY <1>1, <2>1, <2>4, WindowAssumption DEF Seen
    <3>2. seq - w.highest < REPLAY_WINDOW /\ seq - old \in Bits
      BY <1>1, <2>1, <2>4, WindowAssumption DEF Bits
    <3>3. seq - old \in Slide(w.bitmap, seq - w.highest)
      <4>1. (seq - old) - (seq - w.highest) = w.highest - old
        BY <2>1
      <4> QED
        BY <3>1, <3>2, <4>1 DEF Slide
    <3>4. Mark(w, seq).bitmap = Slide(w.bitmap, seq - w.highest)
      BY <1>1, <2>1, <3>2, WindowAssumption DEF Mark
    <3> QED
      BY <1>1, <2>1, <2>2, <3>3, <3>4 DEF Seen
  <2> QED
    BY <2>1, <2>3, <2>4, WindowAssumption
<1>2. CASE seq <= w.highest
  BY <1>2 DEF Mark, Windows, Seen
<1> QED
  BY <1>1, <1>2 DEF Windows

\* Accepting a number makes the window refuse that number, and of the others
\* only those it leaves REPLAY_WINDOW or more behind.
LEMMA MarkOnlySeen ==
  ASSUME NEW w \in Windows, NEW seq \in Nat, Accepts(w, seq),
         NEW old \in Nat, Seen(Mark(w, seq), old), old # seq
  PROVE  Seen(w, old) \/ Mark(w, seq).highest - old >= REPLAY_WINDOW
<1>1. CASE seq > w.highest
  <2>1. Mark(w, seq).highest = seq
    BY <1>1 DEF Mark
  <2>2. CASE seq - old < REPLAY_WINDOW
    <3>1. seq - old \in Mark(w, seq).bitmap /\ old < seq
      BY <2>1, <2>2, WindowAssumption DEF Seen
    <3>2. /\ w.highest # -1 /\ seq - w.highest < REPLAY_WINDOW
          /\ seq - old \in Slide(w.bitmap, seq - w.highest)
      <4>1. Mark(w, seq).bitmap # {0}
        BY <3>1
      <4>2. w.highest # -1 /\ ~ (seq - w.highest >= REPLAY_WINDOW)
        BY <1>1, <4>1 DEF Mark
      <4>3. Mark(w, seq).bitmap = Slide(w.bitmap, seq - w.highest)
        BY <1>1, <4>2 DEF Mark
      <4> QED
        BY <3>1, <4>2, <4>3, WindowAssumption DEF Windows
    <3>3. (seq - old) - (seq - w.highest) = w.highest - old
      BY <3>2 DEF Windows
    <3>4. w.highest - old \in w.bitmap
      BY <3>1, <3>2, <3>3 DEF Slide
    <3> QED
      BY <3>4 DEF Seen, Windows, Bits
  <2> QED
    BY <2>1, <2>2, WindowAssumption
<1>2. CASE seq <= w.highest
  BY <1>2 DEF Mark, Windows, Seen
<1> QED
  BY <1>1, <1>2 DEF Windows

\* The highest number only grows, and accounts for the number accepted.
LEMMA MarkHighest ==
  ASSUME NEW w \in Windows, NEW seq \in Nat
  PROVE  /\ Mark(w, seq).highest >= w.highest
         /\ Mark(w, seq).highest = w.highest \/ Mark(w, seq).highest = seq
BY DEF Mark, Windows
=============================================================================

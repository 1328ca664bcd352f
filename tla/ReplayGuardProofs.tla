-------------------------- MODULE ReplayGuardProofs --------------------------
(***************************************************************************)
(* The replay window, of any width and for any set of sequence numbers,    *)
(* decides every arrival as the exact duplicate filter does.               *)
(***************************************************************************)
EXTENDS ReplayGuard, ReplayWindowProofs

\* BitmapExact and HighestIsNewest are inductive together with the types.
Inv == TypeOK /\ BitmapExact /\ HighestIsNewest

LEMMA InitInv == Init => Inv
BY WindowAssumption, NewWindowFacts
DEF Init, Inv, TypeOK, BitmapExact, HighestIsNewest, NewWindow

\* On the reachable states the window and the exact filter agree on q.
LEMMA Agreement ==
  ASSUME Inv, NEW q \in Seqs
  PROVE  Accepts(window, q) <=> Filter!Fresh(q)
<1> USE SeqsAssumption, WindowAssumption
<1>1. q \in Nat /\ \A p \in passed : p \in Nat /\ p <= window.highest
  BY DEF Inv, TypeOK, HighestIsNewest
<1>2. window.highest \in Nat \cup {-1} /\ window.bitmap \subseteq Bits
  BY DEF Inv, TypeOK, Windows
<1>3. CASE q > window.highest
  BY <1>1, <1>2, <1>3 DEF Accepts, Seen, Filter!Fresh
<1>4. CASE q <= window.highest
  <2>1. window.highest \in passed
    BY <1>1, <1>2, <1>4 DEF Inv, HighestIsNewest
  <2>2. CASE window.highest - q >= REPLAY_WINDOW
    BY <1>1, <1>2, <1>4, <2>1, <2>2 DEF Accepts, Seen, Filter!Fresh
  <2>3. CASE window.highest - q < REPLAY_WINDOW
    <3>1. window.highest - q \in Bits /\ window.highest - (window.highest - q) = q
      BY <1>1, <1>2, <1>4, <2>3 DEF Bits
    <3>2. window.highest - q \in window.bitmap <=> q \in passed
      BY <3>1 DEF Inv, BitmapExact
    <3>3. \A p \in passed : p - q < REPLAY_WINDOW
      BY <1>1, <1>2, <2>3
    <3> QED
      BY <1>1, <1>2, <1>4, <2>3, <3>2, <3>3 DEF Accepts, Seen, Filter!Fresh
  <2> QED
    BY <1>1, <1>2, <2>2, <2>3
<1> QED
  BY <1>1, <1>2, <1>3, <1>4

\* Mark keeps the bitmap exact.
LEMMA MarkExact ==
  ASSUME Inv, NEW q \in Seqs, Accepts(window, q),
         window' = Mark(window, q), passed' = passed \cup {q}
  PROVE  BitmapExact' /\ HighestIsNewest'
<1> USE SeqsAssumption, WindowAssumption
<1>1. q \in Nat /\ \A p \in passed : p \in Nat /\ p <= window.highest
  BY DEF Inv, TypeOK, HighestIsNewest
<1>2. window.highest \in Nat \cup {-1} /\ window.bitmap \subseteq Bits
  BY DEF Inv, TypeOK, Windows
<1>3. CASE q > window.highest
  <2>1. window'.highest = q
    BY <1>3 DEF Mark
  <2>2. HighestIsNewest'
    BY <1>1, <1>2, <1>3, <2>1 DEF HighestIsNewest
  <2>3. ASSUME NEW d \in Bits
        PROVE  d \in window'.bitmap <=> q - d \in passed'
    <3>1. d \in Nat /\ d < REPLAY_WINDOW
      BY DEF Bits
    <3>2. CASE d = 0
      BY <1>1, <1>3, <3>2 DEF Mark, Slide
    <3>3. CASE d # 0 /\ (window.highest = -1 \/ q - window.highest >= REPLAY_WINDOW)
      <4>1. window'.bitmap = {0}
        BY <1>3, <3>3 DEF Mark
      <4>2. q - d # q /\ \A p \in passed : p # q - d
        BY <1>1, <1>2, <1>3, <3>1, <3>3 DEF Inv, HighestIsNewest
      <4> QED
        BY <3>3, <4>1, <4>2
    <3>4. CASE d # 0 /\ window.highest # -1 /\ q - window.highest < REPLAY_WINDOW
      <4> DEFINE e == d - (q - window.highest)
      <4>1. e \in Int /\ window.highest - e = q - d /\ q - d # q
        BY <1>1, <1>2, <3>1, <3>4
      <4>2. d \in window'.bitmap <=> e \in window.bitmap
        BY <1>2, <1>3, <3>4 DEF Mark, Slide
      <4>3. CASE e \in Bits
        <5>1. e \in window.bitmap <=> q - d \in passed
          BY <4>1, <4>3 DEF Inv, BitmapExact
        <5> QED
          BY <4>1, <4>2, <5>1
      <4>4. CASE e \notin Bits
        <5>1. q - d > window.highest
          BY <1>1, <1>2, <1>3, <3>1, <3>4, <4>1, <4>4 DEF Bits
        <5>2. q - d \notin passed
          <6>1. q - d \in Int
            BY <1>1, <3>1
          <6> QED
            BY <1>1, <1>2, <5>1, <6>1
        <5> QED
          BY <1>2, <4>1, <4>2, <4>4, <5>2
      <4> QED
        BY <4>3, <4>4
    <3> QED
      BY <1>1, <1>2, <3>2, <3>3, <3>4
  <2> QED
    BY <2>1, <2>2, <2>3 DEF BitmapExact
<1>4. CASE q <= window.highest
  <2>1. window' = [window EXCEPT !.bitmap = window.bitmap \cup {window.highest - q}]
    BY <1>1, <1>2, <1>4 DEF Mark
  <2>2. window'.highest = window.highest
        /\ window'.bitmap = window.bitmap \cup {window.highest - q}
    BY <2>1 DEF Inv, TypeOK, Windows
  <2>3. HighestIsNewest'
    BY <1>1, <1>2, <1>4, <2>2 DEF Inv, HighestIsNewest
  <2>4. ASSUME NEW d \in Bits
        PROVE  d \in window'.bitmap <=> window.highest - d \in passed'
    <3>1. d \in window.bitmap <=> window.highest - d \in passed
      BY DEF Inv, BitmapExact
    <3>2. d = window.highest - q <=> window.highest - d = q
      BY <1>1, <1>2 DEF Bits
    <3> QED
      BY <2>2, <3>1, <3>2
  <2> QED
    BY <2>2, <2>3, <2>4 DEF BitmapExact
<1> QED
  BY <1>1, <1>2, <1>3, <1>4

LEMMA NextInv == Inv /\ [Next]_vars => Inv'
<1> SUFFICES ASSUME Inv, [Next]_vars PROVE Inv'
  OBVIOUS
<1>1. ASSUME NEW q \in Seqs, Accept(q) PROVE Inv'
  <2>1. CASE Accepts(window, q)
    <3>1. window' = Mark(window, q) /\ passed' = passed \cup {q}
          /\ verdict' = [seq |-> q, accepted |-> TRUE]
      BY <1>1, <2>1 DEF Accept
    <3>2. Mark(window, q) \in Windows
      BY <2>1, MarkType, SeqsAssumption DEF Inv, TypeOK
    <3> QED
      BY <2>1, <3>1, <3>2, MarkExact DEF Inv, TypeOK
  <2>2. CASE ~ Accepts(window, q)
    <3>1. UNCHANGED <<window, passed>> /\ verdict' = [seq |-> q, accepted |-> FALSE]
      BY <1>1, <2>2 DEF Accept
    <3> QED
      BY <3>1 DEF Inv, TypeOK, BitmapExact, HighestIsNewest
  <2> QED
    BY <2>1, <2>2
<1>2. CASE UNCHANGED vars
  BY <1>2 DEF vars, Inv, TypeOK, BitmapExact, HighestIsNewest
<1> QED
  BY <1>1, <1>2 DEF Next

\* The window's representation is well formed whatever arrives.
THEOREM TypeCorrect == Spec => []TypeOK
<1>1. Inv => TypeOK
  BY DEF Inv
<1> QED
  BY InitInv, NextInv, <1>1, PTL DEF Spec

\* The bits of the window tell exactly which recent numbers were let through
\* (ReplayWindow.accept, shift and mask included), for every width.
THEOREM BitmapAlwaysExact == Spec => []BitmapExact
<1>1. Inv => BitmapExact
  BY DEF Inv
<1> QED
  BY InitInv, NextInv, <1>1, PTL DEF Spec

\* `highest` is the greatest number let through, also after late arrivals.
THEOREM HighestStaysNewest == Spec => []HighestIsNewest
<1>1. Inv => HighestIsNewest
  BY DEF Inv
<1> QED
  BY InitInv, NextInv, <1>1, PTL DEF Spec

\* ReplayWindow implements the exact duplicate filter, for every width and
\* every set of arrivals: accept() says yes exactly once to each number that
\* is not REPLAY_WINDOW or more behind, and no to everything else.
THEOREM ImplementsFilter == Spec => FilterSpec
<1>1. Init => Filter!Init
  BY DEF Init, Filter!Init
<1>2. Inv /\ [Next]_vars => [Filter!Next]_<<passed, verdict>>
  <2> SUFFICES ASSUME Inv, [Next]_vars
               PROVE  [Filter!Next]_<<passed, verdict>>
    OBVIOUS
  <2>1. ASSUME NEW q \in Seqs, Accept(q) PROVE Filter!Offer(q)
    BY <2>1, Agreement DEF Accept, Filter!Offer
  <2>2. CASE UNCHANGED vars
    BY <2>2 DEF vars
  <2> QED
    BY <2>1, <2>2 DEF Next, Filter!Next
<1> QED
  BY <1>1, <1>2, InitInv, NextInv, PTL DEF Spec, FilterSpec, Filter!Spec
=============================================================================

--------------------------- MODULE TLoESeqTheorems --------------------------
(***************************************************************************)
(* Facts about the sequence-number arithmetic, for every even ring.         *)
(***************************************************************************)
EXTENDS TLoESeq, TLAPS

\* HALF_MAX_SEQ_NUM is exactly half the ring.
LEMMA HalfRing ==
    /\ HALF_MAX_SEQ_NUM \in Nat
    /\ HALF_MAX_SEQ_NUM >= 2
    /\ HALF_MAX_SEQ_NUM + HALF_MAX_SEQ_NUM = SEQ_MOD
  BY SeqModAssumption, SMT DEF HALF_MAX_SEQ_NUM

\* Neighbours stay on the ring, and prev and next undo one another
\* (tloe_seqnum_prev, tloe_seqnum_next).
LEMMA NextPrev ==
  ASSUME NEW s \in SeqNum
  PROVE  /\ tloe_seqnum_next(s) \in SeqNum
         /\ tloe_seqnum_prev(s) \in SeqNum
         /\ tloe_seqnum_prev(tloe_seqnum_next(s)) = s
         /\ tloe_seqnum_next(tloe_seqnum_prev(s)) = s
  BY SeqModAssumption, SMT
     DEF SeqNum, MAX_SEQ_NUM, tloe_seqnum_next, tloe_seqnum_prev

\* Within half a ring tloe_seqnum_cmp is the order in which the numbers were
\* given out: a is behind b exactly when b is 1, 2, ... steps after a.
THEOREM CmpIsOrder ==
  ASSUME NEW a \in SeqNum, NEW b \in SeqNum
  PROVE  /\ tloe_seqnum_cmp(a, b) = 0 <=> Dist(a, b) = 0
         /\ Dist(a, b) \in 1 .. (HALF_MAX_SEQ_NUM - 1) =>
                tloe_seqnum_cmp(a, b) = -1 /\ tloe_seqnum_cmp(b, a) = 1
         /\ tloe_seqnum_cmp(b, a) = -tloe_seqnum_cmp(a, b)
  BY HalfRing, SeqModAssumption, SMT DEF SeqNum, Dist, tloe_seqnum_cmp

\* One step of either end changes the distance by one.
LEMMA DistStep ==
  ASSUME NEW a \in SeqNum, NEW b \in SeqNum
  PROVE  /\ Dist(a, b) \in 0 .. (SEQ_MOD - 1)
         /\ Dist(a, b) < SEQ_MOD - 1 => Dist(a, tloe_seqnum_next(b)) = Dist(a, b) + 1
         /\ Dist(a, b) > 0 => Dist(tloe_seqnum_next(a), b) = Dist(a, b) - 1
  BY SeqModAssumption, SMT DEF SeqNum, Dist, MAX_SEQ_NUM, tloe_seqnum_next

\* Distances add up as long as they stay below a whole turn, and a number is
\* given by its distance.
LEMMA DistSum ==
  ASSUME NEW a \in SeqNum, NEW b \in SeqNum, NEW c \in SeqNum
  PROVE  /\ Dist(a, b) + Dist(b, c) < SEQ_MOD => Dist(a, c) = Dist(a, b) + Dist(b, c)
         /\ Dist(a, c) >= Dist(b, c) => Dist(a, b) = Dist(a, c) - Dist(b, c)
         /\ Dist(a, b) = 0 <=> a = b
         /\ Dist(a, a) = 0
  BY SeqModAssumption, SMT DEF SeqNum, Dist
=============================================================================

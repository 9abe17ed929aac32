--------------------------- MODULE TLoESeqWalk_proofs -----------------------
(***************************************************************************)
(* The reference counters of TLoESeqWalk agree with the sequence-number     *)
(* arithmetic, for every even ring and any number of frames.                *)
(***************************************************************************)
EXTENDS TLoESeqWalk, TLoESeqTheorems

-----------------------------------------------------------------------------
\* The invariant of the reference counters.
WalkInv == TypeOK /\ DistInv

LEMMA WalkInvInductive == Spec => []WalkInv
<1>1. Init => WalkInv
  BY SeqModAssumption, HalfRing, SMT DEF Init, WalkInv, TypeOK, DistInv, Dist, SeqNum
<1>2. WalkInv /\ [Next]_vars => WalkInv'
  <2> SUFFICES ASSUME WalkInv, [Next]_vars PROVE WalkInv'
    OBVIOUS
  <2> USE DEF WalkInv, TypeOK, DistInv
  <2>1. CASE SendNext
    <3>1. /\ next_tx' = tloe_seqnum_next(next_tx) /\ next_rx' = next_rx
          /\ sent' = sent + 1 /\ accepted' = accepted
          /\ sent - accepted < HALF_MAX_SEQ_NUM - 1
      BY <2>1 DEF SendNext
    <3>2. Dist(next_rx, tloe_seqnum_next(next_tx)) = Dist(next_rx, next_tx) + 1
      BY <3>1, DistStep, HalfRing
    <3> QED
      BY <3>1, <3>2, NextPrev, HalfRing
  <2>2. CASE AcceptNext
    <3>1. /\ next_rx' = tloe_seqnum_next(next_rx) /\ next_tx' = next_tx
          /\ accepted' = accepted + 1 /\ sent' = sent
          /\ accepted < sent
      BY <2>2 DEF AcceptNext
    <3>2. Dist(tloe_seqnum_next(next_rx), next_tx) = Dist(next_rx, next_tx) - 1
      BY <3>1, DistStep
    <3> QED
      BY <3>1, <3>2, NextPrev, HalfRing
  <2>3. CASE UNCHANGED vars
    BY <2>3 DEF vars
  <2> QED
    BY <2>1, <2>2, <2>3 DEF Next
<1> QED
  BY <1>1, <1>2, PTL DEF Spec

\* Stepped by tloe_seqnum_next and tloe_endpoint_init only, the counters of two
\* endpoints stay on the ring, however many frames they count.
THEOREM WalkTypeCorrect == Spec => []TypeOK
  BY WalkInvInductive, PTL DEF WalkInv

\* The way round the ring from one counter to the other is the true number of
\* frames between them, below half a ring, however often the numbers have
\* wrapped: all that tloe_seqnum_cmp needs to answer rightly.
THEOREM DistanceIsTrue == Spec => []DistInv
  BY WalkInvInductive, PTL DEF WalkInv

\* The receiver classifies the sender's next frame by the true counts, and the
\* frame before the expected one as a duplicate, for every ring and however
\* often the numbers have wrapped (tloe_rx_get_req_type).
THEOREM ClassifyCorrect == Spec => []ClassifyInv
<1>1. WalkInv => ClassifyInv
  <2> SUFFICES ASSUME WalkInv PROVE ClassifyInv
    OBVIOUS
  <2>1. Dist(tloe_seqnum_prev(next_rx), next_rx) = 1
    BY SeqModAssumption, SMT
       DEF WalkInv, TypeOK, SeqNum, Dist, MAX_SEQ_NUM, tloe_seqnum_prev
  <2>2. tloe_seqnum_cmp(tloe_seqnum_prev(next_rx), next_rx) = -1
    BY <2>1, CmpIsOrder, NextPrev, HalfRing DEF WalkInv, TypeOK
  <2>3. IF sent = accepted THEN tloe_seqnum_cmp(next_tx, next_rx) = 0
                           ELSE tloe_seqnum_cmp(next_tx, next_rx) = 1
    <3>1. CASE sent = accepted
      BY <3>1, CmpIsOrder DEF WalkInv, TypeOK, DistInv
    <3>2. CASE sent # accepted
      BY <3>2, CmpIsOrder, HalfRing DEF WalkInv, TypeOK, DistInv
    <3> QED
      BY <3>1, <3>2
  <2> QED
    BY <2>2, <2>3, SMT DEF ClassifyInv, tloe_rx_get_req_type
<1> QED
  BY <1>1, WalkInvInductive, PTL

\* Acknowledging everything accepted releases the last sent frame exactly when
\* it was accepted (slide_window's comparison).
THEOREM AckCorrect == Spec => []AckInv
<1>1. WalkInv => AckInv
  <2> SUFFICES ASSUME WalkInv PROVE AckInv
    OBVIOUS
  <2>1. Dist(tloe_seqnum_prev(next_rx), tloe_seqnum_prev(next_tx))
          = Dist(next_rx, next_tx)
    BY SeqModAssumption, SMT
       DEF WalkInv, TypeOK, SeqNum, Dist, MAX_SEQ_NUM, tloe_seqnum_prev
  <2> QED
    BY <2>1, CmpIsOrder, NextPrev, HalfRing DEF WalkInv, TypeOK, DistInv, AckInv
<1> QED
  BY <1>1, WalkInvInductive, PTL
=============================================================================

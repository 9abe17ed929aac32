----------------------------- MODULE TLoESeqWalk -----------------------------
(***************************************************************************)
(* A reference for the sequence-number arithmetic: two endpoints' counters, *)
(* the next number one sends (next_tx) and the next number the other one    *)
(* expects (next_rx), stepped only with tloe_seqnum_next, beside the true   *)
(* number of frames each has counted.  The true counts never wrap, so they  *)
(* say what tloe_seqnum_cmp should answer.                                  *)
(***************************************************************************)
EXTENDS TLoESeq

CONSTANT MAX_COUNT  \* bound on the frames counted, several times round the ring

ASSUME MaxCountAssumption == MAX_COUNT \in Nat

VARIABLES next_tx, next_rx,      \* as in tloe_endpoint_t, on the ring
          sent, accepted         \* the true counts

vars == <<next_tx, next_rx, sent, accepted>>

\* tloe_endpoint_init starts both counters at zero.
Init == next_tx = 0 /\ next_rx = 0 /\ sent = 0 /\ accepted = 0

\* The sender numbers a frame.  It never runs half a ring ahead: its
\* retransmit buffer has WINDOW_SIZE places, far below HALF_MAX_SEQ_NUM.
SendNext ==
    /\ sent < MAX_COUNT
    /\ sent - accepted < HALF_MAX_SEQ_NUM - 1
    /\ next_tx' = tloe_seqnum_next(next_tx)
    /\ sent' = sent + 1
    /\ UNCHANGED <<next_rx, accepted>>

\* The receiver accepts the frame it waits for.
AcceptNext ==
    /\ accepted < sent
    /\ next_rx' = tloe_seqnum_next(next_rx)
    /\ accepted' = accepted + 1
    /\ UNCHANGED <<next_tx, sent>>

Next == SendNext \/ AcceptNext

Spec == Init /\ [][Next]_vars

-----------------------------------------------------------------------------
TypeOK == /\ next_tx \in SeqNum /\ next_rx \in SeqNum
          /\ sent \in Nat /\ accepted \in Nat

\* The ring distance is the true distance, and stays below half a ring: the
\* strengthening from which the two properties below follow.
DistInv == /\ accepted <= sent
           /\ sent - accepted < HALF_MAX_SEQ_NUM
           /\ Dist(next_rx, next_tx) = sent - accepted

\* A frame among those sent and not yet counted, "n after next_rx", is in
\* sequence when n = 0 and out of sequence otherwise, whether or not the
\* numbers have wrapped between the two; the number just before next_rx is a
\* duplicate.  (tloe_rx_get_req_type, tloe_seqnum_cmp)
ClassifyInv ==
    /\ tloe_rx_get_req_type(next_tx, next_rx) =
           (IF sent = accepted THEN "REQ_NORMAL" ELSE "REQ_OOS")
    /\ tloe_rx_get_req_type(tloe_seqnum_prev(next_rx), next_rx) = "REQ_DUPLICATE"

\* An acknowledgement of everything accepted releases exactly the frames
\* accepted: the last sent frame is behind or equal to that acknowledgement
\* if and only if the receiver has counted all of them.  (slide_window's test)
AckInv ==
    tloe_seqnum_cmp(tloe_seqnum_prev(next_tx), tloe_seqnum_prev(next_rx)) <= 0
        <=> sent = accepted
=============================================================================

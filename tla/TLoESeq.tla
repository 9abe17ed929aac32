------------------------------- MODULE TLoESeq -------------------------------
(***************************************************************************)
(* Sequence-number arithmetic of an OmniXtend endpoint                      *)
(* (omnixtend-c/tloe_seq_mgr.c, tloe_receiver.h).                           *)
(*                                                                          *)
(* Sequence numbers live on a ring of SEQ_MOD values (2^22 in the code).    *)
(* tloe_seqnum_cmp orders two of them by the shorter way round the ring.    *)
(***************************************************************************)
EXTENDS Integers

CONSTANT SEQ_MOD    \* MAX_SEQ_NUM + 1, the size of the sequence-number ring

(***************************************************************************)
(* The ring has an even number of values, so that HALF_MAX_SEQ_NUM, an      *)
(* integer division in the code, is exactly half of it.                     *)
(***************************************************************************)
ASSUME SeqModAssumption ==
    /\ SEQ_MOD \in Nat
    /\ SEQ_MOD >= 4
    /\ SEQ_MOD % 2 = 0

SeqNum == 0 .. (SEQ_MOD - 1)
MAX_SEQ_NUM == SEQ_MOD - 1
HALF_MAX_SEQ_NUM == SEQ_MOD \div 2

\* Faulty variant: no wrap below 0.
tloe_seqnum_prev_NoWrap(s) == s - 1

tloe_seqnum_prev(s) == IF s = 0 THEN MAX_SEQ_NUM ELSE s - 1

\* Faulty variant: no wrap at MAX_SEQ_NUM.
tloe_seqnum_next_NoWrap(s) == s + 1

\* Faulty variant: wraps to 1.
tloe_seqnum_next_SkipsZero(s) == IF s = MAX_SEQ_NUM THEN 1 ELSE s + 1

tloe_seqnum_next(s) == IF s = MAX_SEQ_NUM THEN 0 ELSE s + 1

\* Faulty variant: plain comparison.
tloe_seqnum_cmp_NoWrap(a, b) == IF a = b THEN 0 ELSE IF a > b THEN 1 ELSE -1

\* -1, 0 or 1: a is behind, equal to or ahead of b.  The two numbers of a
\* pair that lies exactly half a ring apart compare the "wrong" way round.
tloe_seqnum_cmp(a, b) ==
    LET diff == a - b
    IN  IF diff = 0 THEN 0
        ELSE IF diff > 0 THEN (IF diff < HALF_MAX_SEQ_NUM THEN 1 ELSE -1)
                         ELSE (IF -diff < HALF_MAX_SEQ_NUM THEN -1 ELSE 1)

\* Faulty variant: a repeated frame counts as expected.
tloe_rx_get_req_type_AcceptsDuplicate(s, next_rx) ==
    IF tloe_seqnum_cmp(s, next_rx) <= 0 THEN "REQ_NORMAL" ELSE "REQ_OOS"

\* Faulty variant: plain comparison of the numbers.
tloe_rx_get_req_type_Plain(s, next_rx) ==
    IF s = next_rx THEN "REQ_NORMAL"
    ELSE IF s < next_rx THEN "REQ_DUPLICATE" ELSE "REQ_OOS"

\* The class RX gives a frame numbered s when it waits for next_rx.
tloe_rx_get_req_type(s, next_rx) ==
    CASE tloe_seqnum_cmp(s, next_rx) = 0 -> "REQ_NORMAL"
      [] tloe_seqnum_cmp(s, next_rx) < 0 -> "REQ_DUPLICATE"
      [] tloe_seqnum_cmp(s, next_rx) > 0 -> "REQ_OOS"

(***************************************************************************)
(* Steps from a forward to b, going round the ring: what the protocol means *)
(* by "b is n frames after a".  Used to state properties; the code has no   *)
(* such function.                                                           *)
(***************************************************************************)
Dist(a, b) == IF b >= a THEN b - a ELSE b - a + SEQ_MOD
=============================================================================

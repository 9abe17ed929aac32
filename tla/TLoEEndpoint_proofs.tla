------------------------- MODULE TLoEEndpoint_proofs ------------------------
(***************************************************************************)
(* Type correctness of an endpoint pair; its retransmit buffers are windows;*)
(* and what the two endpoints know of each other: no frame leaves the       *)
(* sender's window before it has been accepted, and no acknowledgement lies.*)
(* The last two follow from LinkInv, one direction at a time: each action   *)
(* moves a direction from one Link to the next, and the lemmas say what the *)
(* parts of the actions do to it.  For every size of the queues, every      *)
(* credit, every ring and every number of requests, losses, early timers    *)
(* and failed allocations.                                                  *)
(***************************************************************************)
EXTENDS TLoEEndpoint, TLoESeqTheorems, SequenceTheorems, FiniteSetTheorems

-----------------------------------------------------------------------------
(***************************************************************************)
(* Sequences                                                                *)
(***************************************************************************)
\* A non-empty set of numbers has a least element.
LEMMA NatMin ==
  ASSUME NEW S, S \subseteq Nat, S # {}
  PROVE  \E m \in S : \A n \in S : m <= n
<1> DEFINE I == {0 .. n : n \in S}
<1>1. I \subseteq FiniteSubsetsOf(Nat) /\ I # {}
  <2>1. \A n \in S : 0 .. n \in SUBSET Nat /\ IsFiniteSet(0 .. n)
    BY FS_Interval, SMT
  <2> QED
    BY <2>1 DEF FiniteSubsetsOf
<1>2. \E x \in I : \A y \in I : ~ (<<y, x>> \in StrictSubsetOrdering(Nat))
  <2> HIDE DEF I
  <2> QED
    BY <1>1, FS_StrictSubsetOrderingWellFounded, WFMin
<1>3. PICK m \in S : \A y \in I : ~ (<<y, 0 .. m>> \in StrictSubsetOrdering(Nat))
  BY <1>2
<1>4. ASSUME NEW n \in S, n < m PROVE FALSE
  <2>1. 0 .. n \in SUBSET Nat /\ 0 .. m \in SUBSET Nat
    BY SMT
  <2>2. (0 .. n) \subseteq (0 .. m) /\ m \in 0 .. m /\ m \notin 0 .. n
    BY <1>4, SMT
  <2>3. <<0 .. n, 0 .. m>> \in StrictSubsetOrdering(Nat)
    BY <2>1, <2>2, Zenon DEF StrictSubsetOrdering
  <2> QED
    BY <2>3, <1>3
<1> QED
  BY <1>3, <1>4, SMT

\* What slide_window and retransmit keep of a buffer is a suffix of it.
LEMMA SuffixFromType ==
  ASSUME NEW S, NEW s \in Seq(S), NEW I, I \subseteq DOMAIN s
  PROVE  /\ SuffixFrom(s, I) \in Seq(S)
         /\ Len(SuffixFrom(s, I)) <= Len(s)
         /\ \A i \in 1 .. Len(SuffixFrom(s, I)) :
               SuffixFrom(s, I)[i] = s[Len(s) - Len(SuffixFrom(s, I)) + i]
<1>1. CASE I = {}
  BY <1>1, EmptySeq, LenProperties, SMT DEF SuffixFrom
<1>2. CASE I # {}
  <2> DEFINE m == CHOOSE i \in I : \A j \in I : i <= j
  <2>1. DOMAIN s = 1 .. Len(s) /\ Len(s) \in Nat
    BY LenProperties
  <2>2. m \in 1 .. Len(s)
    <3>1. I \subseteq Nat
      BY <2>1, SMT
    <3> QED
      BY <3>1, <2>1, <1>2, NatMin
  <2>3. SuffixFrom(s, I) = SubSeq(s, m, Len(s))
    BY <1>2 DEF SuffixFrom
  <2> HIDE DEF m
  <2>4. \A i \in m .. Len(s) : s[i] \in S
    BY <2>1, <2>2, ElementOfSeq, SMT
  <2>5. /\ SubSeq(s, m, Len(s)) \in Seq(S)
        /\ Len(SubSeq(s, m, Len(s))) = IF m <= Len(s) THEN Len(s) - m + 1 ELSE 0
        /\ \A i \in 1 .. Len(s) - m + 1 : SubSeq(s, m, Len(s))[i] = s[m + i - 1]
    <3>1. m \in Int /\ Len(s) \in Int
      BY <2>1, <2>2, SMT
    <3> HIDE DEF m
    <3> QED
      BY <3>1, <2>4, SubSeqProperties
  <2> QED
    BY <2>1, <2>2, <2>3, <2>5, SMT
<1> QED
  BY <1>1, <1>2

\* tloe_fabric_send adds frames to those under way.
LEMMA SendAllType ==
  ASSUME NEW queue \in Seq(Frame), NEW frames \in Seq(Frame)
  PROVE  SendAll(queue, frames) \in Seq(Frame)
<1> DEFINE all == queue \o frames
<1>1. all \in Seq(Frame) /\ Len(all) \in Nat /\ DOMAIN all = 1 .. Len(all)
  BY ConcatProperties, LenProperties
<1>2. CASE Len(all) <= FABRIC_CAP
  BY <1>1, <1>2 DEF SendAll
<1>3. CASE ~(Len(all) <= FABRIC_CAP)
  <2> HIDE DEF all
  <2>1. \A i \in 1 .. FABRIC_CAP : all[i] \in Frame
    BY <1>1, <1>3, SizeAssumption, ElementOfSeq, SMT
  <2>2. 1 \in Int /\ FABRIC_CAP \in Int
    BY SizeAssumption, SMT
  <2>3. SubSeq(all, 1, FABRIC_CAP) \in Seq(Frame)
    BY <2>1, <2>2, SubSeqProperties
  <2> USE DEF all
  <2> QED
    BY <1>3, <2>3 DEF SendAll
<1> QED
  BY <1>2, <1>3

-----------------------------------------------------------------------------
(***************************************************************************)
(* Messages and frames                                                      *)
(***************************************************************************)
\* Channel and flits of a message (tlmsg_get_flits_cnt).
LEMMA MsgTypes ==
  /\ NoMsg \notin TLMsg
  /\ \A m \in TLMsg : /\ tlmsg_get_chan(m) \in Channel
                      /\ tlmsg_get_flits_cnt(m) \in 1 .. 3
<1>1. \A m \in TLMsg : m.op \in {"Get", "PutFullData", "AccessAck", "AccessAckData"}
  BY DEF TLMsg, Request, Response
<1>2. NoMsg.op = "none"
  BY DEF NoMsg
<1>3. NoMsg \notin TLMsg
  BY <1>1, <1>2
<1>4. ASSUME NEW m \in TLMsg
      PROVE  tlmsg_get_chan(m) \in Channel /\ tlmsg_get_flits_cnt(m) \in 1 .. 3
  BY <1>1, SMT DEF tlmsg_get_chan, tlmsg_get_flits_cnt, Channel
<1> QED
  BY <1>3, <1>4

\* The credit a frame grants is positive and never more than there is to give
\* back (get_largest_pow).
LEMMA GrantType ==
  ASSUME NEW v \in Nat, v > 0
  PROVE  get_largest_pow(v) \in Nat /\ get_largest_pow(v) \in 1 .. v
<1>1. \E g \in Grant : g <= v /\ \A h \in Grant : h <= v => h <= g
  <2>1. CASE v >= 32
    <3>1. CASE v >= 256
      BY <3>1, SMT DEF Grant
    <3>2. CASE v < 256
      BY <2>1, <3>2, SMT DEF Grant
    <3> QED
      BY <3>1, <3>2
  <2>2. CASE v < 32
    BY <2>2, SMT DEF Grant
  <2> QED
    BY <2>1, <2>2, SMT
<1>2. get_largest_pow(v) \in Grant /\ get_largest_pow(v) <= v
  BY <1>1 DEF get_largest_pow
<1> QED
  BY <1>2, SMT DEF Grant

\* What retransmit sends are frames.
LEMMA RetransmitType ==
  ASSUME TypeOK, NEW e \in Endpoint, NEW buffer \in Seq(Element), NEW n
  PROVE  retransmit(e, buffer, n) \in Seq(Frame)
<1> DEFINE I == {i \in DOMAIN buffer : tloe_seqnum_cmp(buffer[i].seq_num, n) >= 0}
           again == SuffixFrom(buffer, I)
           frame(i) == [type |-> "NORMAL", seq_num |-> again[i].seq_num,
                        seq_num_ack |-> tloe_seqnum_prev(next_rx_seq[e]), ack |-> "ACK",
                        tlmsg |-> again[i].tlmsg, chan |-> again[i].chan,
                        credit |-> again[i].credit]
<1>1. again \in Seq(Element)
  <2>1. I \subseteq DOMAIN buffer
    OBVIOUS
  <2> HIDE DEF I
  <2> QED
    BY <2>1, SuffixFromType
<1>2. retransmit(e, buffer, n) = [i \in DOMAIN again |-> frame(i)]
  BY DEF retransmit
<1>3. tloe_seqnum_prev(next_rx_seq[e]) \in SeqNum
  BY NextPrev DEF TypeOK
<1> HIDE DEF again
<1>4. Len(again) \in Nat /\ DOMAIN again = 1 .. Len(again)
  BY <1>1, LenProperties
<1>5. \A i \in 1 .. Len(again) : frame(i) \in Frame
  <2> TAKE i \in 1 .. Len(again)
  <2>1. again[i] \in Element
    BY <1>1, ElementOfSeq
  <2> QED
    BY <2>1, <1>3, SMT DEF Element, Frame
<1> HIDE DEF frame
<1> QED
  BY <1>2, <1>4, <1>5, IsASeq

\* The frames a path through TX sends besides its own.
LEMMA TXFramesType ==
  ASSUME TypeOK, NEW e \in Endpoint, NEW elapsed,
         NEW buffer \in Seq(Element), NEW frames \in Seq(Frame)
  PROVE  AckOnlyFrames(e, elapsed) \o frames \o TimeoutFrames(e, elapsed, buffer)
            \in Seq(Frame)
<1>1. AckOnlyFrame(e) \in Frame
  BY NextPrev, SMT DEF TypeOK, AckOnlyFrame, Frame
<1>2. <<AckOnlyFrame(e)>> \in Seq(Frame) /\ <<>> \in Seq(Frame)
  BY <1>1, SMT
<1>3. AckOnlyFrames(e, elapsed) \in Seq(Frame)
  BY <1>2, ConcatProperties DEF AckOnlyFrames
<1>4. TimeoutFrames(e, elapsed, buffer) \in Seq(Frame)
  BY <1>2, RetransmitType DEF TimeoutFrames
<1> QED
  BY <1>3, <1>4, ConcatProperties

\* The frame TX makes.
LEMMA FrameToSendType ==
  ASSUME TypeOK, NEW e \in Endpoint
  PROVE  /\ FrameToSend(e) \in Frame
         /\ ElementOf(FrameToSend(e)) \in Element
         /\ FrameToSend(e).seq_num = next_tx_seq[e]
         /\ FrameToSend(e).chan # 0 =>
               FrameToSend(e).credit \in 1 .. tx_flow_credits[e][FrameToSend(e).chan]
         /\ FrameToSend(e).tlmsg = Carried(e)
<1> DEFINE chan == select_max_credit_channel(tx_flow_credits[e])
           credit == IF chan = 0 THEN 0 ELSE get_largest_pow(tx_flow_credits[e][chan])
           ack == IF ack_buffer[e] = <<>> THEN tloe_seqnum_prev(next_rx_seq[e])
                                          ELSE Head(ack_buffer[e]).seq_num_ack
<1>1. chan \in Channel \cup {0} /\ (chan # 0 => tx_flow_credits[e][chan] > 0)
  BY SMT DEF TypeOK, select_max_credit_channel, Channel, CHANNEL_A, CHANNEL_D
<1>2. credit \in Nat /\ (chan # 0 => credit \in 1 .. tx_flow_credits[e][chan])
  <2>1. chan # 0 => tx_flow_credits[e][chan] \in Nat
    BY <1>1 DEF TypeOK
  <2> HIDE DEF chan
  <2> QED
    BY <1>1, <2>1, GrantType
<1>3. ack \in SeqNum
  <2>1. CASE ack_buffer[e] = <<>>
    BY <2>1, NextPrev DEF TypeOK
  <2>2. CASE ack_buffer[e] # <<>>
    <3>1. Head(ack_buffer[e]) \in AckEntry
      BY <2>2, HeadTailProperties DEF TypeOK
    <3> QED
      BY <2>2, <3>1 DEF AckEntry
  <2> QED
    BY <2>1, <2>2
<1>4. Carried(e) \in TLMsg \cup {NoMsg}
  BY DEF TypeOK, Carried
<1>5. next_tx_seq[e] \in SeqNum
  BY DEF TypeOK
<1>6. FrameToSend(e) = [type |-> "NORMAL", seq_num |-> next_tx_seq[e],
         seq_num_ack |-> ack, ack |-> "ACK", tlmsg |-> Carried(e),
         chan |-> chan, credit |-> credit]
  BY DEF FrameToSend
<1> HIDE DEF chan, credit, ack
<1>7. FrameToSend(e) \in Frame
  BY <1>1, <1>2, <1>3, <1>4, <1>5, <1>6, SMT DEF Frame
<1>8. ElementOf(FrameToSend(e)) \in Element
  BY <1>1, <1>2, <1>4, <1>5, <1>6, SMT DEF Element, ElementOf
<1> QED
  BY <1>2, <1>6, <1>7, <1>8

-----------------------------------------------------------------------------
(***************************************************************************)
(* Type correctness, one lemma per family of actions                        *)
(***************************************************************************)
LEMMA TypeInit == Init => TypeOK
<1> SUFFICES ASSUME Init PROVE TypeOK
  OBVIOUS
<1>1. tloe_seqnum_next(FIRST_SEQ) \in SeqNum /\ FIRST_SEQ \in SeqNum
  BY SizeAssumption, NextPrev
<1>2. \A S : <<>> \in Seq(S)
  BY EmptySeq
<1>3. CREDIT \in Nat
  BY SizeAssumption
<1> QED
  BY <1>1, <1>2, <1>3, SMT DEF Init, TypeOK

\* Submit and select_buffer only move messages between the queues.
LEMMA TypeSubmit ==
  ASSUME TypeOK, NEW e \in Endpoint, Submit(e)
  PROVE  TypeOK'
<1>1. PICK req \in Request :
         /\ message_buffer' = [message_buffer EXCEPT ![e] = Append(@, req)]
         /\ issued' = [issued EXCEPT ![e] = Append(@, req)]
  <2> DEFINE val(op) == IF op = "PutFullData" THEN Len(issued[e]) + 1 ELSE 0
  <2>1. PICK op \in REQUEST_OPS :
          /\ message_buffer' = [message_buffer EXCEPT
                                   ![e] = Append(@, [op |-> op, val |-> val(op)])]
          /\ issued' = [issued EXCEPT ![e] = Append(@, [op |-> op, val |-> val(op)])]
    BY DEF Submit
  <2>2. Len(issued[e]) \in Nat
    BY LenProperties DEF TypeOK
  <2>3. op \in {"Get", "PutFullData"} /\ val(op) \in Nat
    BY <2>2, BoundAssumption, SMT
  <2> HIDE DEF val
  <2>4. [op |-> op, val |-> val(op)] \in Request
    BY <2>3 DEF Request
  <2> QED
    BY <2>1, <2>4
<1>2. Append(message_buffer[e], req) \in Seq(Request) /\ Append(issued[e], req) \in Seq(Request)
  BY AppendProperties DEF TypeOK
<1>3. /\ message_buffer' \in [Endpoint -> Seq(Request)]
      /\ issued' \in [Endpoint -> Seq(Request)]
  BY <1>1, <1>2 DEF TypeOK
<1> QED
  BY <1>3 DEF TypeOK, Submit, workVars, linkVars, creditVars, memVars, boundVars

LEMMA TypeSelect ==
  ASSUME TypeOK, NEW e \in Endpoint, Select(e)
  PROVE  TypeOK'
<1>1. pc' \in [Endpoint -> {"select", "tx", "rx", "tl", "exited", "ended"}]
  BY DEF Select, Select_Pending, Select_Response, Select_Request, SelectBuffer, GoTo, TypeOK
<1>2. /\ UNCHANGED <<tl_msg_buffer, linkVars, creditVars, memVars, issued, boundVars>>
      /\ request_tlmsg' \in [Endpoint -> TLMsg \cup {NoMsg}]
      /\ buffer_select_counter' \in [Endpoint -> 1 .. 4]
      /\ message_buffer' \in [Endpoint -> Seq(Request)]
      /\ response_buffer' \in [Endpoint -> Seq(Response)]
  <2>1. CASE Select_Pending(e)
    BY <2>1 DEF Select_Pending, SelectBuffer, TypeOK, workVars
  <2>2. CASE Select_Response(e)
    <3>1. Head(response_buffer[e]) \in TLMsg /\ Tail(response_buffer[e]) \in Seq(Response)
      BY <2>2, HeadTailProperties DEF Select_Response, TypeOK, TLMsg
    <3>2. buffer_select_counter[e] - 1 \in 1 .. 4
      BY <2>2, SMT DEF Select_Response, TypeOK
    <3> QED
      BY <2>2, <3>1, <3>2 DEF Select_Response, SelectBuffer, TypeOK
  <2>3. CASE Select_Request(e)
    <3>1. message_buffer[e] # <<>> =>
             Head(message_buffer[e]) \in TLMsg /\ Tail(message_buffer[e]) \in Seq(Request)
      BY HeadTailProperties DEF TypeOK, TLMsg
    <3>2. 4 \in 1 .. 4
      OBVIOUS
    <3>3. /\ request_tlmsg' \in [Endpoint -> TLMsg \cup {NoMsg}]
          /\ message_buffer' \in [Endpoint -> Seq(Request)]
      <4>1. CASE UNCHANGED <<request_tlmsg, message_buffer>>
        BY <4>1 DEF TypeOK
      <4>2. CASE /\ message_buffer[e] # <<>>
                 /\ request_tlmsg' = [request_tlmsg EXCEPT ![e] = Head(message_buffer[e])]
                 /\ message_buffer' = [message_buffer EXCEPT ![e] = Tail(@)]
        <5> DEFINE m == Head(message_buffer[e])
                   q == Tail(message_buffer[e])
        <5>1. m \in TLMsg /\ q \in Seq(Request)
          BY <3>1, <4>2
        <5>2. /\ request_tlmsg' = [request_tlmsg EXCEPT ![e] = m]
              /\ message_buffer' = [message_buffer EXCEPT ![e] = q]
          BY <4>2
        <5> HIDE DEF m, q
        <5> QED
          BY <5>1, <5>2 DEF TypeOK
      <4> QED
        BY <2>3, <4>1, <4>2 DEF Select_Request
    <3> QED
      BY <2>3, <3>2, <3>3 DEF Select_Request, SelectBuffer, TypeOK
  <2> QED
    BY <2>1, <2>2, <2>3 DEF Select
<1> QED
  BY <1>1, <1>2 DEF TypeOK, linkVars, creditVars, memVars, boundVars

\* What is common to the paths through TX.
LEMMA TypeTX ==
  ASSUME TypeOK, NEW e \in Endpoint, NEW elapsed,
         NEW buffer \in Seq(Element), NEW frames \in Seq(Frame),
         TX(e, elapsed, buffer, frames)
  PROVE  /\ pc' \in [Endpoint -> {"select", "tx", "rx", "tl", "exited", "ended"}]
         /\ retransmit_buffer' \in [Endpoint -> Seq(Element)]
         /\ fabric' \in [Endpoint -> Seq(Frame)]
         /\ should_send_ackonly_frame' \in [Endpoint -> BOOLEAN]
         /\ ackonly_frame_sent' \in [Endpoint -> BOOLEAN]
         /\ early' \in Nat /\ ahead' \in Endpoint \cup {"none"}
         /\ UNCHANGED <<next_rx_seq, buffer_select_counter, response_buffer,
                        tl_msg_buffer, mem_storage, served, answered,
                        message_buffer, issued, lost>>
<1> DEFINE sent == AckOnlyFrames(e, elapsed) \o frames
                      \o TimeoutFrames(e, elapsed, buffer)
<1>1. Peer(e) \in Endpoint
  BY DEF Peer, Endpoint
<1>2. SendAll(fabric[Peer(e)], sent) \in Seq(Frame)
  <2>1. sent \in Seq(Frame)
    BY TXFramesType
  <2>2. fabric[Peer(e)] \in Seq(Frame)
    BY <1>1 DEF TypeOK
  <2> HIDE DEF sent
  <2> QED
    BY <2>1, <2>2, SendAllType
<1>3. fabric' = [fabric EXCEPT ![Peer(e)] = SendAll(@, sent)]
  BY DEF TX
<1>4. fabric' \in [Endpoint -> Seq(Frame)]
  <2> HIDE DEF sent
  <2> QED
    BY <1>1, <1>2, <1>3 DEF TypeOK
<1>5. retransmit_buffer' \in [Endpoint -> Seq(Element)]
  BY DEF TX, TypeOK
<1>6. pc' \in [Endpoint -> {"select", "tx", "rx", "tl", "exited", "ended"}]
  BY DEF TX, TypeOK, GoTo
<1>7. should_send_ackonly_frame' \in [Endpoint -> BOOLEAN]
  BY DEF TX, TypeOK
<1>8. ackonly_frame_sent' \in [Endpoint -> BOOLEAN]
  <2>1. (ackonly_frame_sent[e] \/ HalfTimeAckOnly(e, elapsed)) \in BOOLEAN
    OBVIOUS
  <2>2. ackonly_frame_sent' = [ackonly_frame_sent EXCEPT
                                  ![e] = @ \/ HalfTimeAckOnly(e, elapsed)]
    BY DEF TX
  <2> QED
    BY <2>1, <2>2, Zenon DEF TypeOK
<1>9. early' \in Nat /\ ahead' \in Endpoint \cup {"none"}
  <2>1. Elapsed(e, elapsed)
    BY DEF TX
  <2>2. (early' = early \/ early' = early + 1) /\ ahead' \in {ahead, e, "none"}
    BY <2>1, Zenon DEF Elapsed, InTurn
  <2>3. early \in Nat /\ ahead \in Endpoint \cup {"none"}
    BY DEF TypeOK
  <2> QED
    BY <2>2, <2>3, SMT
<1> QED
  BY <1>4, <1>5, <1>6, <1>7, <1>8, <1>9 DEF TX, memVars, userVars

\* Making a frame never takes a credit below zero.
LEMMA TypeMakeFrame ==
  ASSUME TypeOK, NEW e \in Endpoint, MakeFrame(e)
  PROVE  /\ ack_buffer' \in [Endpoint -> Seq(AckEntry)]
         /\ tx_flow_credits' \in [Endpoint -> [Channel -> Nat]]
         /\ credits' \in [Endpoint -> [Channel -> Nat]]
<1> DEFINE f == FrameToSend(e)
<1>1. /\ f \in Frame
      /\ f.chan # 0 => f.credit \in 1 .. tx_flow_credits[e][f.chan]
      /\ f.tlmsg = Carried(e)
  BY FrameToSendType
<1>2. /\ ack_buffer' = [ack_buffer EXCEPT ![e] = IF @ = <<>> THEN @ ELSE Tail(@)]
      /\ tx_flow_credits' = IF f.chan = 0 THEN tx_flow_credits
                            ELSE [tx_flow_credits EXCEPT ![e][f.chan] = @ - f.credit]
      /\ credits' = IF f.tlmsg = NoMsg THEN credits
                    ELSE [credits EXCEPT ![e][tlmsg_get_chan(f.tlmsg)] =
                                             @ - tlmsg_get_flits_cnt(f.tlmsg)]
  BY DEF MakeFrame
<1> HIDE DEF f
<1>3. ack_buffer' \in [Endpoint -> Seq(AckEntry)]
  <2>1. ack_buffer[e] # <<>> => Tail(ack_buffer[e]) \in Seq(AckEntry)
    BY HeadTailProperties DEF TypeOK
  <2> QED
    BY <1>2, <2>1 DEF TypeOK
<1>4. tx_flow_credits' \in [Endpoint -> [Channel -> Nat]]
  <2>1. CASE f.chan = 0
    BY <1>2, <2>1 DEF TypeOK
  <2>2. CASE f.chan # 0
    <3>1. f.chan \in Channel
      BY <1>1, <2>2 DEF Frame
    <3>2. tx_flow_credits[e][f.chan] - f.credit \in Nat
      <4>1. tx_flow_credits[e][f.chan] \in Nat
        BY <3>1 DEF TypeOK
      <4> QED
        BY <1>1, <2>2, <4>1, SMT
    <3> QED
      BY <1>2, <2>2, <3>1, <3>2 DEF TypeOK
  <2> QED
    BY <2>1, <2>2
<1>5. credits' \in [Endpoint -> [Channel -> Nat]]
  <2>1. CASE f.tlmsg = NoMsg
    BY <1>2, <2>1 DEF TypeOK
  <2>2. CASE f.tlmsg # NoMsg
    <3>1. /\ f.tlmsg = request_tlmsg[e] /\ f.tlmsg \in TLMsg /\ ~CreditShort(e)
      BY <1>1, <2>2 DEF Carried, TypeOK
    <3>2. tlmsg_get_chan(f.tlmsg) \in Channel /\ tlmsg_get_flits_cnt(f.tlmsg) \in 1 .. 3
      BY <3>1, MsgTypes
    <3>3. credits[e][tlmsg_get_chan(f.tlmsg)] - tlmsg_get_flits_cnt(f.tlmsg) \in Nat
      <4>1. credits[e][tlmsg_get_chan(f.tlmsg)] \in Nat
        BY <3>2 DEF TypeOK
      <4>2. ~(credits[e][tlmsg_get_chan(f.tlmsg)] < tlmsg_get_flits_cnt(f.tlmsg))
        BY <3>1 DEF CreditShort
      <4> QED
        BY <3>2, <4>1, <4>2, SMT
    <3> QED
      BY <1>2, <2>2, <3>2, <3>3 DEF TypeOK
  <2> QED
    BY <2>1, <2>2
<1> QED
  BY <1>3, <1>4, <1>5

\* The three paths through TX.
LEMMA TypeTransmit ==
  ASSUME TypeOK, NEW e \in Endpoint, NEW elapsed, Transmit(e, elapsed)
  PROVE  TypeOK'
<1> DEFINE f == FrameToSend(e)
<1>1. f \in Frame /\ ElementOf(f) \in Element
  BY FrameToSendType
<1>2. retransmit_buffer[e] \in Seq(Element) /\ <<>> \in Seq(Frame)
  BY EmptySeq DEF TypeOK
<1> HIDE DEF f
<1>3. CASE TX_Nothing(e, elapsed)
  <2>1. TX(e, elapsed, retransmit_buffer[e], <<>>)
    BY <1>3 DEF TX_Nothing
  <2> QED
    BY <1>2, <1>3, <2>1, TypeTX DEF TX_Nothing, TypeOK, creditVars
<1>4. CASE TX_Send(e, elapsed)
  <2>1. TX(e, elapsed, Append(retransmit_buffer[e], ElementOf(f)), <<f>>)
    BY <1>4 DEF TX_Send, f
  <2>2. Append(retransmit_buffer[e], ElementOf(f)) \in Seq(Element)
    BY <1>1, <1>2, AppendProperties
  <2>3. <<f>> \in Seq(Frame)
    BY <1>1, SMT
  <2>4. next_tx_seq' \in [Endpoint -> SeqNum]
    BY <1>4, NextPrev DEF TX_Send, TypeOK
  <2>5. request_tlmsg' \in [Endpoint -> TLMsg \cup {NoMsg}]
    BY <1>4 DEF TX_Send, TypeOK
  <2>6. MakeFrame(e) /\ UNCHANGED alloc_failed
    BY <1>4 DEF TX_Send
  <2> QED
    BY <2>1, <2>2, <2>3, <2>4, <2>5, <2>6, TypeTX, TypeMakeFrame DEF TypeOK
<1>5. CASE TX_AllocFailed(e, elapsed)
  <2>1. TX(e, elapsed, retransmit_buffer[e], <<>>)
    BY <1>5 DEF TX_AllocFailed
  <2>2. request_tlmsg' \in [Endpoint -> TLMsg \cup {NoMsg}]
    BY <1>5 DEF TX_AllocFailed, Carried, TypeOK
  <2>3. alloc_failed' \in Nat
    BY <1>5, SMT DEF TX_AllocFailed, TypeOK
  <2>4. MakeFrame(e) /\ UNCHANGED next_tx_seq
    BY <1>5 DEF TX_AllocFailed
  <2> QED
    BY <1>2, <2>1, <2>2, <2>3, <2>4, TypeTX, TypeMakeFrame DEF TypeOK
<1> QED
  BY <1>3, <1>4, <1>5 DEF Transmit

\* What is common to the frames RX takes from the fabric.
LEMMA TypeRX ==
  ASSUME TypeOK, NEW e \in Endpoint, RX(e)
  PROVE  /\ Arrived(e) \in Frame
         /\ retransmit_buffer' \in [Endpoint -> Seq(Element)]
         /\ fabric' \in [Endpoint -> Seq(Frame)]
         /\ ackonly_frame_sent' \in [Endpoint -> BOOLEAN]
         /\ UNCHANGED <<request_tlmsg, buffer_select_counter, response_buffer,
                        next_tx_seq, tx_flow_credits, mem_storage, served, answered,
                        message_buffer, issued, lost, early, alloc_failed, ahead>>
<1> DEFINE f == Arrived(e)
           left == slide_window(retransmit_buffer[e], f.seq_num_ack)
           again == IF f.ack = "NAK"
                    THEN retransmit(e, left, tloe_seqnum_next(f.seq_num_ack))
                    ELSE <<>>
<1>1. Arrived(e) \in Frame /\ Tail(fabric[e]) \in Seq(Frame)
  BY HeadTailProperties DEF RX, Arrived, TypeOK
<1>2. left \in Seq(Element)
  <2> DEFINE buffer == retransmit_buffer[e]
             I == {i \in DOMAIN buffer : tloe_seqnum_cmp(buffer[i].seq_num, f.seq_num_ack) > 0}
  <2>1. left = SuffixFrom(buffer, I)
    BY DEF slide_window
  <2>2. buffer \in Seq(Element) /\ I \subseteq DOMAIN buffer
    BY DEF TypeOK
  <2> HIDE DEF I, buffer, left
  <2> QED
    BY <2>1, <2>2, SuffixFromType
<1>3. again \in Seq(Frame)
  <2> HIDE DEF left
  <2> QED
    BY <1>2, RetransmitType, EmptySeq
<1>4. /\ retransmit_buffer' = [retransmit_buffer EXCEPT ![e] = left]
      /\ fabric' = [fabric EXCEPT ![e] = Tail(@), ![Peer(e)] = SendAll(@, again)]
  BY DEF RX
<1>5. retransmit_buffer' \in [Endpoint -> Seq(Element)]
  <2> HIDE DEF left
  <2> QED
    BY <1>2, <1>4 DEF TypeOK
<1>6. fabric' \in [Endpoint -> Seq(Frame)]
  <2>1. Peer(e) \in Endpoint /\ Peer(e) # e
    BY EndpointAssumption DEF Peer, Endpoint
  <2> HIDE DEF again
  <2>2. SendAll(fabric[Peer(e)], again) \in Seq(Frame)
    BY <1>3, <2>1, SendAllType DEF TypeOK
  <2>3. fabric' = [[fabric EXCEPT ![e] = Tail(@)]
                      EXCEPT ![Peer(e)] = SendAll(fabric[Peer(e)], again)]
    BY <1>4, <2>1 DEF TypeOK
  <2> QED
    BY <1>1, <2>1, <2>2, <2>3 DEF TypeOK
<1> QED
  BY <1>1, <1>5, <1>6 DEF RX, TypeOK, workVars, memVars, userVars, boundVars

\* Only a frame in sequence changes next_rx_seq and gains credit.
LEMMA TypeAccept ==
  ASSUME TypeOK, NEW e \in Endpoint, Accept(e)
  PROVE  /\ RX(e)
         /\ next_rx_seq' \in [Endpoint -> SeqNum]
         /\ credits' \in [Endpoint -> [Channel -> Nat]]
         /\ UNCHANGED ack_buffer
<1> DEFINE f == Arrived(e)
<1>1. RX(e) /\ f \in Frame
  BY TypeRX DEF Accept, RX_Class
<1>2. /\ next_rx_seq' = [next_rx_seq EXCEPT ![e] = tloe_seqnum_next(f.seq_num)]
      /\ credits' = IF f.chan = 0 THEN credits
                    ELSE [credits EXCEPT ![e][f.chan] = @ + f.credit]
      /\ UNCHANGED ack_buffer
  BY DEF Accept
<1> HIDE DEF f
<1>3. f.seq_num \in SeqNum /\ f.chan \in Channel \cup {0} /\ f.credit \in Nat
  BY <1>1 DEF Frame
<1>4. next_rx_seq' \in [Endpoint -> SeqNum]
  BY <1>2, <1>3, NextPrev DEF TypeOK
<1>5. credits' \in [Endpoint -> [Channel -> Nat]]
  <2>1. CASE f.chan = 0
    BY <1>2, <2>1 DEF TypeOK
  <2>2. CASE f.chan # 0
    <3>1. f.chan \in Channel /\ credits[e][f.chan] \in Nat
      BY <1>3, <2>2 DEF TypeOK
    <3>2. credits[e][f.chan] + f.credit \in Nat
      BY <1>3, <3>1, SMT
    <3> QED
      BY <1>2, <2>2, <3>1, <3>2 DEF TypeOK
  <2> QED
    BY <2>1, <2>2
<1> QED
  BY <1>1, <1>2, <1>4, <1>5

LEMMA TypeReport ==
  ASSUME TypeOK, NEW e \in Endpoint, NEW entry \in AckEntry, RX(e), Report(e, entry)
  PROVE  TypeOK'
<1>1. ack_buffer' \in [Endpoint -> Seq(AckEntry)]
  <2>1. Append(ack_buffer[e], entry) \in Seq(AckEntry)
    BY AppendProperties DEF TypeOK
  <2> QED
    BY <2>1 DEF Report, TypeOK
<1>2. pc' \in [Endpoint -> {"select", "tx", "rx", "tl", "exited", "ended"}]
  BY DEF Report, GoTo, TypeOK
<1> QED
  BY <1>1, <1>2, TypeRX DEF Report, TypeOK

LEMMA TypeReceive ==
  ASSUME TypeOK, NEW e \in Endpoint, Receive(e)
  PROVE  TypeOK'
<1> DEFINE f == Arrived(e)
<1>1. CASE RX_Empty(e)
  <2>1. pc' \in [Endpoint -> {"select", "tx", "rx", "tl", "exited", "ended"}]
    BY <1>1 DEF RX_Empty, GoTo, TypeOK
  <2> QED
    BY <1>1, <2>1 DEF RX_Empty, TypeOK, workVars, linkVars, creditVars, memVars,
                      userVars, boundVars
<1>2. CASE RX_AckOnly(e)
  <2>1. pc' \in [Endpoint -> {"select", "tx", "rx", "tl", "exited", "ended"}]
    BY <1>2 DEF RX_AckOnly, GoTo, TypeOK
  <2> QED
    BY <1>2, <2>1, TypeRX DEF RX_AckOnly, TypeOK
<1>3. CASE RX_Normal(e)
  <2>1. Accept(e) /\ UNCHANGED should_send_ackonly_frame /\ f.tlmsg # NoMsg
    BY <1>3 DEF RX_Normal
  <2>2. pc' \in [Endpoint -> {"select", "tx", "rx", "tl", "exited", "ended"}]
    BY <1>3 DEF RX_Normal, GoTo, TypeOK
  <2>3. tl_msg_buffer' \in [Endpoint -> Seq(TLMsg)]
    <3>1. f.tlmsg \in TLMsg
      BY <2>1, TypeAccept, TypeRX DEF Frame
    <3>2. Append(tl_msg_buffer[e], f.tlmsg) \in Seq(TLMsg)
      BY <3>1, AppendProperties DEF TypeOK
    <3> QED
      BY <1>3, <3>2 DEF RX_Normal, TypeOK
  <2> QED
    BY <2>1, <2>2, <2>3, TypeAccept, TypeRX DEF TypeOK
<1>4. CASE RX_Zero(e)
  <2>1. Accept(e) /\ UNCHANGED tl_msg_buffer
    BY <1>4 DEF RX_Zero
  <2>2. pc' \in [Endpoint -> {"select", "tx", "rx", "tl", "exited", "ended"}]
    BY <1>4 DEF RX_Zero, GoTo, TypeOK
  <2>3. should_send_ackonly_frame' \in [Endpoint -> BOOLEAN]
    BY <1>4 DEF RX_Zero, TypeOK
  <2> QED
    BY <2>1, <2>2, <2>3, TypeAccept, TypeRX DEF TypeOK
<1>5. CASE RX_Duplicate(e)
  <2>1. RX(e) /\ Report(e, [seq_num_ack |-> f.seq_num, ack |-> "ACK"])
    BY <1>5 DEF RX_Duplicate, RX_Class
  <2>2. [seq_num_ack |-> f.seq_num, ack |-> "ACK"] \in AckEntry
    BY <2>1, TypeRX DEF Frame, AckEntry
  <2> QED
    BY <2>1, <2>2, TypeReport
<1>6. CASE RX_OutOfSequence(e)
  <2>1. RX(e) /\ Report(e, [seq_num_ack |-> tloe_seqnum_prev(next_rx_seq[e]),
                            ack |-> "NAK"])
    BY <1>6 DEF RX_OutOfSequence, RX_Class
  <2>2. [seq_num_ack |-> tloe_seqnum_prev(next_rx_seq[e]), ack |-> "NAK"] \in AckEntry
    BY NextPrev DEF TypeOK, AckEntry
  <2> QED
    BY <2>1, <2>2, TypeReport
<1> QED
  BY <1>1, <1>2, <1>3, <1>4, <1>5, <1>6 DEF Receive

\* What is common to the messages tl_handler takes.
LEMMA TypeTLHandler ==
  ASSUME TypeOK, NEW e \in Endpoint, tl_handler(e)
  PROVE  /\ Oldest(e) \in TLMsg
         /\ pc' \in [Endpoint -> {"select", "tx", "rx", "tl", "exited", "ended"}]
         /\ tl_msg_buffer' \in [Endpoint -> Seq(TLMsg)]
         /\ tx_flow_credits' \in [Endpoint -> [Channel -> Nat]]
         /\ UNCHANGED <<request_tlmsg, buffer_select_counter, linkVars, credits,
                        message_buffer, issued, boundVars>>
<1> DEFINE m == Oldest(e)
<1>1. m \in TLMsg /\ Tail(tl_msg_buffer[e]) \in Seq(TLMsg)
  BY HeadTailProperties DEF tl_handler, Oldest, TypeOK
<1>2. tx_flow_credits' = [tx_flow_credits EXCEPT
                            ![e][tlmsg_get_chan(m)] = @ + tlmsg_get_flits_cnt(m)]
  BY DEF tl_handler
<1>3. tx_flow_credits' \in [Endpoint -> [Channel -> Nat]]
  <2>1. tlmsg_get_chan(m) \in Channel /\ tlmsg_get_flits_cnt(m) \in 1 .. 3
    BY <1>1, MsgTypes
  <2>2. tx_flow_credits[e][tlmsg_get_chan(m)] + tlmsg_get_flits_cnt(m) \in Nat
    <3>1. tx_flow_credits[e][tlmsg_get_chan(m)] \in Nat
      BY <2>1 DEF TypeOK
    <3> QED
      BY <2>1, <3>1, SMT
  <2> HIDE DEF m
  <2> QED
    BY <1>2, <2>1, <2>2 DEF TypeOK
<1>4. pc' \in [Endpoint -> {"select", "tx", "rx", "tl", "exited", "ended"}]
  BY DEF tl_handler, GoTo, TypeOK
<1>5. tl_msg_buffer' \in [Endpoint -> Seq(TLMsg)]
  BY <1>1 DEF tl_handler, TypeOK
<1> QED
  BY <1>1, <1>3, <1>4, <1>5 DEF tl_handler, userVars

LEMMA TypeRespond ==
  ASSUME TypeOK, NEW e \in Endpoint, NEW resp \in Response, tl_handler(e),
         Respond(e, resp), mem_storage' \in [Endpoint -> Nat]
  PROVE  TypeOK'
<1>1. Peer(e) \in Endpoint
  BY DEF Peer, Endpoint
<1>2. /\ Append(response_buffer[e], resp) \in Seq(Response)
      /\ Append(served[Peer(e)], resp) \in Seq(Response)
  BY <1>1, AppendProperties DEF TypeOK
<1>3. /\ response_buffer' \in [Endpoint -> Seq(Response)]
      /\ served' \in [Endpoint -> Seq(Response)]
      /\ UNCHANGED answered
  BY <1>1, <1>2 DEF Respond, TypeOK
<1> QED
  BY <1>3, TypeTLHandler DEF TypeOK, linkVars, boundVars

LEMMA TypeHandle ==
  ASSUME TypeOK, NEW e \in Endpoint, Handle(e)
  PROVE  TypeOK'
<1>1. CASE TL_Skip(e)
  <2>1. pc' \in [Endpoint -> {"select", "tx", "rx", "tl", "exited", "ended"}]
    BY <1>1 DEF TL_Skip, GoTo, TypeOK
  <2> QED
    BY <1>1, <2>1 DEF TL_Skip, TypeOK, workVars, linkVars, creditVars, memVars,
                      userVars, boundVars
<1>2. CASE handle_A_PUTFULLDATA_opcode(e)
  <2>1. tl_handler(e) /\ Respond(e, [op |-> "AccessAck", val |-> 0])
    BY <1>2 DEF handle_A_PUTFULLDATA_opcode
  <2>2. Oldest(e).val \in Nat
    BY <2>1, TypeTLHandler DEF TLMsg, Request, Response
  <2>3. mem_storage' \in [Endpoint -> Nat]
    BY <1>2, <2>2 DEF handle_A_PUTFULLDATA_opcode, TypeOK
  <2>4. [op |-> "AccessAck", val |-> 0] \in Response
    BY SMT DEF Response
  <2> QED
    BY <2>1, <2>3, <2>4, TypeRespond
<1>3. CASE handle_A_GET_opcode(e)
  <2>1. /\ tl_handler(e) /\ UNCHANGED mem_storage
        /\ Respond(e, [op |-> "AccessAckData", val |-> mem_storage[e]])
    BY <1>3 DEF handle_A_GET_opcode
  <2>2. [op |-> "AccessAckData", val |-> mem_storage[e]] \in Response
    BY DEF Response, TypeOK
  <2>3. mem_storage' \in [Endpoint -> Nat]
    BY <2>1 DEF TypeOK
  <2> QED
    BY <2>1, <2>2, <2>3, TypeRespond
<1>4. CASE handle_D_opcode(e)
  <2>1. /\ tl_handler(e) /\ Oldest(e).op \in {"AccessAck", "AccessAckData"}
        /\ answered' = [answered EXCEPT ![e] = Append(@, Oldest(e))]
        /\ UNCHANGED <<response_buffer, mem_storage, served>>
    BY <1>4 DEF handle_D_opcode
  <2>2. Oldest(e) \in Response
    BY <2>1, TypeTLHandler DEF TLMsg, Request, Response
  <2>3. Append(answered[e], Oldest(e)) \in Seq(Response)
    BY <2>2, AppendProperties DEF TypeOK
  <2>4. answered' \in [Endpoint -> Seq(Response)]
    BY <2>1, <2>3 DEF TypeOK
  <2> QED
    BY <2>1, <2>4, TypeTLHandler DEF TypeOK, linkVars, boundVars
<1> QED
  BY <1>1, <1>2, <1>3, <1>4 DEF Handle

LEMMA TypeLose ==
  ASSUME TypeOK, NEW e \in Endpoint, Lose(e)
  PROVE  TypeOK'
<1> DEFINE s == fabric[e]
<1>1. PICK i \in DOMAIN s :
         fabric' = [fabric EXCEPT ![e] = SubSeq(@, 1, i - 1) \o SubSeq(@, i + 1, Len(@))]
  BY DEF Lose
<1>2. s \in Seq(Frame) /\ Len(s) \in Nat /\ DOMAIN s = 1 .. Len(s)
  BY LenProperties DEF TypeOK
<1>3. \A j \in 1 .. Len(s) : s[j] \in Frame
  BY <1>2, ElementOfSeq
<1>4. fabric' = [fabric EXCEPT ![e] = SubSeq(s, 1, i - 1) \o SubSeq(s, i + 1, Len(s))]
  BY <1>1
<1> HIDE DEF s
<1>5. SubSeq(s, 1, i - 1) \in Seq(Frame)
  <2>1. 1 \in Int /\ i - 1 \in Int /\ \A j \in 1 .. i - 1 : s[j] \in Frame
    BY <1>2, <1>3, SMT
  <2> QED
    BY <2>1, SubSeqProperties
<1>6. SubSeq(s, i + 1, Len(s)) \in Seq(Frame)
  <2>1. i + 1 \in Int /\ Len(s) \in Int /\ \A j \in i + 1 .. Len(s) : s[j] \in Frame
    BY <1>2, <1>3, SMT
  <2> QED
    BY <2>1, SubSeqProperties
<1>7. SubSeq(s, 1, i - 1) \o SubSeq(s, i + 1, Len(s)) \in Seq(Frame)
  BY <1>5, <1>6, ConcatProperties
<1>8. fabric' \in [Endpoint -> Seq(Frame)]
  BY <1>4, <1>7 DEF TypeOK
<1>9. lost' \in Nat
  BY SMT DEF Lose, TypeOK
<1> QED
  BY <1>8, <1>9 DEF Lose, TypeOK, workVars, creditVars, memVars, userVars

LEMMA TypeStep ==
  ASSUME TypeOK, [Next]_vars
  PROVE  TypeOK'
<1>1. ASSUME NEW e \in Endpoint, Worker(e) PROVE TypeOK'
  BY <1>1, TypeSelect, TypeTransmit, TypeReceive, TypeHandle DEF Worker
<1>2. ASSUME NEW e \in Endpoint, Submit(e) PROVE TypeOK'
  BY <1>2, TypeSubmit
<1>3. ASSUME NEW e \in Endpoint, Lose(e) PROVE TypeOK'
  BY <1>3, TypeLose
<1>4. CASE UNCHANGED vars
  BY <1>4 DEF vars, workVars, linkVars, creditVars, memVars, userVars, boundVars, TypeOK
<1> QED
  BY <1>1, <1>2, <1>3, <1>4 DEF Next

\* Every variable always has its type and every queue holds what its code
\* stores there: for every ring, queue size, credit and bound.
THEOREM TypeCorrect == Spec => []TypeOK
BY TypeInit, TypeStep, PTL DEF Spec

-----------------------------------------------------------------------------
(***************************************************************************)
(* The retransmit buffer is a window                                        *)
(***************************************************************************)
\* Acknowledgements take a prefix away (slide_window) ...
LEMMA WindowSlides ==
  ASSUME NEW buffer \in Seq(Element), NEW next, IsWindow(buffer, next), NEW n
  PROVE  IsWindow(slide_window(buffer, n), next)
<1> DEFINE I == {i \in DOMAIN buffer : tloe_seqnum_cmp(buffer[i].seq_num, n) > 0}
           left == SuffixFrom(buffer, I)
<1>1. /\ left \in Seq(Element)
      /\ Len(left) <= Len(buffer)
      /\ \A i \in 1 .. Len(left) : left[i] = buffer[Len(buffer) - Len(left) + i]
  <2>1. I \subseteq DOMAIN buffer
    OBVIOUS
  <2> HIDE DEF I
  <2> QED
    BY <2>1, SuffixFromType
<1>2. slide_window(buffer, n) = left
  BY DEF slide_window
<1> HIDE DEF left
<1>3. /\ Len(left) \in Nat /\ DOMAIN left = 1 .. Len(left)
      /\ Len(buffer) \in Nat /\ DOMAIN buffer = 1 .. Len(buffer)
  BY <1>1, LenProperties
<1>4. ASSUME NEW i \in DOMAIN left
      PROVE  Dist(left[i].seq_num, next) = Len(left) - i + 1
  <2> DEFINE k == Len(buffer) - Len(left) + i
  <2>1. k \in DOMAIN buffer /\ left[i] = buffer[k]
    BY <1>1, <1>3, SMT
  <2>2. Dist(buffer[k].seq_num, next) = Len(buffer) - k + 1
    BY <2>1 DEF IsWindow
  <2> QED
    BY <1>3, <2>1, <2>2, SMT
<1> QED
  BY <1>1, <1>2, <1>3, <1>4, SizeAssumption, SMT DEF IsWindow

\* ... and a frame sent goes to its end, and moves next_tx_seq on (TX).
LEMMA WindowGrows ==
  ASSUME NEW buffer \in Seq(Element), NEW next \in SeqNum, IsWindow(buffer, next),
         Len(buffer) # WINDOW_SIZE, NEW x \in Element, x.seq_num = next
  PROVE  IsWindow(Append(buffer, x), tloe_seqnum_next(next))
<1> DEFINE longer == Append(buffer, x)
<1>1. /\ longer \in Seq(Element)
      /\ Len(longer) = Len(buffer) + 1
      /\ \A i \in 1 .. Len(buffer) : longer[i] = buffer[i]
      /\ longer[Len(buffer) + 1] = x
  BY AppendProperties
<1> HIDE DEF longer
<1>2. /\ Len(longer) \in Nat /\ DOMAIN longer = 1 .. Len(longer)
      /\ Len(buffer) \in Nat /\ DOMAIN buffer = 1 .. Len(buffer)
  BY <1>1, LenProperties
<1>3. /\ Len(buffer) + 1 <= WINDOW_SIZE /\ WINDOW_SIZE < SEQ_MOD - 1
      /\ WINDOW_SIZE \in Nat /\ SEQ_MOD \in Nat
  <2>1. Len(buffer) <= WINDOW_SIZE
    BY DEF IsWindow
  <2>2. WINDOW_SIZE \in Nat /\ WINDOW_SIZE < HALF_MAX_SEQ_NUM
    BY SizeAssumption, HalfRing, SMT
  <2>3. SEQ_MOD \in Nat
    BY SeqModAssumption
  <2>4. Len(buffer) + 1 <= WINDOW_SIZE
    <3>1. \A m, n \in Nat : m <= n => m = n \/ m + 1 <= n
      BY SMT
    <3> QED
      BY <1>2, <2>1, <2>2, <3>1
  <2>5. WINDOW_SIZE < SEQ_MOD - 1
    BY <2>2, <2>3, HalfRing, SMT
  <2> QED
    BY <2>2, <2>3, <2>4, <2>5
<1>4. ASSUME NEW i \in DOMAIN longer
      PROVE  Dist(longer[i].seq_num, tloe_seqnum_next(next)) = Len(longer) - i + 1
  <2>1. CASE i = Len(buffer) + 1
    <3>1. Dist(next, next) = 0
      BY SMT DEF SeqNum, Dist
    <3>2. Dist(next, tloe_seqnum_next(next)) = 1
      BY <3>1, DistStep, SeqModAssumption, SMT
    <3> QED
      BY <1>1, <2>1, <3>2, <1>2, SMT
  <2>2. CASE i # Len(buffer) + 1
    <3>1. i \in DOMAIN buffer /\ i \in 1 .. Len(buffer) /\ longer[i] = buffer[i]
      BY <1>1, <1>2, <2>2, SMT
    <3>2. Dist(buffer[i].seq_num, next) = Len(buffer) - i + 1
      BY <3>1 DEF IsWindow
    <3>3. buffer[i].seq_num \in SeqNum
      <4>1. buffer[i] \in Element
        BY <3>1, ElementOfSeq
      <4> QED
        BY <4>1 DEF Element
    <3>4. Dist(buffer[i].seq_num, next) < SEQ_MOD - 1
      BY <1>2, <1>3, <3>1, <3>2, SMT
    <3>5. Dist(buffer[i].seq_num, tloe_seqnum_next(next)) = Dist(buffer[i].seq_num, next) + 1
      BY <3>3, <3>4, DistStep
    <3> QED
      BY <1>1, <1>2, <3>1, <3>2, <3>5, SMT
  <2> QED
    BY <2>1, <2>2
<1> QED
  BY <1>1, <1>2, <1>3, <1>4 DEF IsWindow, longer

\* Nothing else touches it.
LEMMA WindowKept ==
  ASSUME WindowInv, UNCHANGED <<retransmit_buffer, next_tx_seq>>
  PROVE  WindowInv'
  BY DEF WindowInv, IsWindow

LEMMA WindowTransmit ==
  ASSUME TypeOK, WindowInv, NEW e \in Endpoint, NEW elapsed, Transmit(e, elapsed)
  PROVE  WindowInv'
<1>1. CASE TX_Nothing(e, elapsed)
  <2>1. UNCHANGED <<retransmit_buffer, next_tx_seq>>
    BY <1>1 DEF TX_Nothing, TX, TypeOK
  <2> QED
    BY <2>1, WindowKept
<1>2. CASE TX_AllocFailed(e, elapsed)
  <2>1. UNCHANGED <<retransmit_buffer, next_tx_seq>>
    BY <1>2 DEF TX_AllocFailed, TX, TypeOK
  <2> QED
    BY <2>1, WindowKept
<1>3. CASE TX_Send(e, elapsed)
  <2> DEFINE x == ElementOf(FrameToSend(e))
  <2>1. /\ retransmit_buffer' = [retransmit_buffer EXCEPT ![e] = Append(retransmit_buffer[e], x)]
        /\ next_tx_seq' = [next_tx_seq EXCEPT ![e] = tloe_seqnum_next(@)]
        /\ MakeFrame(e)
    BY <1>3 DEF TX_Send, TX
  <2>2. x \in Element /\ x.seq_num = next_tx_seq[e]
    BY FrameToSendType DEF ElementOf
  <2>3. Len(retransmit_buffer[e]) # WINDOW_SIZE
    BY <2>1 DEF MakeFrame, NothingToSend, WindowFull
  <2> HIDE DEF x
  <2>4. IsWindow(Append(retransmit_buffer[e], x), tloe_seqnum_next(next_tx_seq[e]))
    BY <2>2, <2>3, WindowGrows DEF WindowInv, TypeOK
  <2>5. ASSUME NEW d \in Endpoint
        PROVE  IsWindow(retransmit_buffer'[d], next_tx_seq'[d])
    <3>1. CASE d = e
      BY <2>1, <2>4, <3>1 DEF TypeOK
    <3>2. CASE d # e
      BY <2>1, <3>2 DEF WindowInv, TypeOK
    <3> QED
      BY <3>1, <3>2
  <2> QED
    BY <2>5 DEF WindowInv, IsWindow
<1> QED
  BY <1>1, <1>2, <1>3 DEF Transmit

LEMMA WindowReceive ==
  ASSUME TypeOK, WindowInv, NEW e \in Endpoint, Receive(e)
  PROVE  WindowInv'
<1>1. CASE RX_Empty(e)
  BY <1>1, WindowKept DEF RX_Empty, linkVars
<1>2. CASE RX(e)
  <2> DEFINE left == slide_window(retransmit_buffer[e], Arrived(e).seq_num_ack)
  <2>1. /\ retransmit_buffer' = [retransmit_buffer EXCEPT ![e] = left]
        /\ next_tx_seq' = next_tx_seq
    BY <1>2 DEF RX
  <2>2. IsWindow(left, next_tx_seq[e])
    BY WindowSlides DEF WindowInv, TypeOK
  <2> HIDE DEF left
  <2>3. ASSUME NEW d \in Endpoint
        PROVE  IsWindow(retransmit_buffer'[d], next_tx_seq'[d])
    BY <2>1, <2>2 DEF WindowInv, TypeOK
  <2> QED
    BY <2>3 DEF WindowInv, IsWindow
<1> QED
  BY <1>1, <1>2 DEF Receive, RX_AckOnly, RX_Normal, RX_Zero, RX_Duplicate,
                    RX_OutOfSequence, Accept, RX_Class

LEMMA WindowStep ==
  ASSUME TypeOK, WindowInv, [Next]_vars
  PROVE  WindowInv'
<1>1. ASSUME NEW e \in Endpoint, Select(e) \/ Handle(e) PROVE WindowInv'
  <2>1. UNCHANGED linkVars
    BY <1>1 DEF Select, Select_Pending, Select_Response, Select_Request, SelectBuffer,
                Handle, TL_Skip, handle_A_PUTFULLDATA_opcode, handle_A_GET_opcode,
                handle_D_opcode, tl_handler
  <2> QED
    BY <2>1, WindowKept DEF linkVars
<1>2. ASSUME NEW e \in Endpoint, Worker(e) PROVE WindowInv'
  BY <1>1, <1>2, WindowTransmit, WindowReceive DEF Worker
<1>3. ASSUME NEW e \in Endpoint, Submit(e) PROVE WindowInv'
  BY <1>3, WindowKept DEF Submit, linkVars
<1>4. ASSUME NEW e \in Endpoint, Lose(e) PROVE WindowInv'
  BY <1>4, WindowKept DEF Lose
<1>5. CASE UNCHANGED vars
  BY <1>5, WindowKept DEF vars, linkVars
<1> QED
  BY <1>2, <1>3, <1>4, <1>5 DEF Next

LEMMA EmptyWindow ==
  ASSUME NEW next
  PROVE  IsWindow(<<>>, next)
BY SizeAssumption, SMT DEF IsWindow

\* The retransmit buffer always holds at most WINDOW_SIZE frames, numbered
\* without a gap up to next_tx_seq (TX, slide_window): for every ring, window
\* and number of losses, timeouts and failed allocations.
THEOREM WindowCorrect == Spec => []WindowInv
<1>1. Init => WindowInv
  BY EmptyWindow DEF Init, WindowInv
<1> QED
  BY <1>1, WindowStep, TypeCorrect, PTL DEF Spec

-----------------------------------------------------------------------------
(***************************************************************************)
(* Losing frames                                                            *)
(***************************************************************************)
\* s is what is left of t when some elements are lost.
Thinned(s, t) ==
    \E f \in [DOMAIN s -> DOMAIN t] :
        /\ \A i \in DOMAIN s : s[i] = t[f[i]]
        /\ \A i, j \in DOMAIN s : i < j => f[i] < f[j]

LEMMA SameThins ==
  ASSUME NEW S, NEW s \in Seq(S)
  PROVE  Thinned(s, s)
<1> DEFINE f == [i \in DOMAIN s |-> i]
<1>1. f \in [DOMAIN s -> DOMAIN s]
  OBVIOUS
<1>2. \A i \in DOMAIN s : f[i] = i
  OBVIOUS
<1> HIDE DEF f
<1> QED
  BY <1>1, <1>2 DEF Thinned

\* The receiver takes the oldest frame (tloe_fabric_recv).
LEMMA TailThins ==
  ASSUME NEW S, NEW s \in Seq(S), s # <<>>
  PROVE  Thinned(Tail(s), s)
<1> DEFINE t == Tail(s)
           f == [i \in DOMAIN t |-> i + 1]
<1>1. /\ t \in Seq(S) /\ Len(t) = Len(s) - 1
      /\ \A i \in 1 .. Len(t) : t[i] = s[i + 1]
  BY HeadTailProperties
<1>2. Len(s) \in Nat /\ DOMAIN s = 1 .. Len(s) /\ DOMAIN t = 1 .. Len(t) /\ Len(t) \in Nat
  BY <1>1, LenProperties
<1> HIDE DEF t
<1>3. f \in [DOMAIN t -> DOMAIN s]
  BY <1>1, <1>2, SMT
<1>4. \A i \in DOMAIN t : t[i] = s[f[i]]
  BY <1>1, <1>2
<1>5. \A i, j \in DOMAIN t : i < j => f[i] < f[j]
  BY <1>2, SMT
<1> QED
  BY <1>3, <1>4, <1>5 DEF Thinned, t

\* Frames that do not fit are lost (mq_send).
LEMMA SendAllThins ==
  ASSUME NEW queue \in Seq(Frame), NEW frames \in Seq(Frame)
  PROVE  Thinned(SendAll(queue, frames), queue \o frames)
<1> DEFINE all == queue \o frames
<1>1. all \in Seq(Frame) /\ Len(all) \in Nat /\ DOMAIN all = 1 .. Len(all)
  BY ConcatProperties, LenProperties
<1>2. CASE Len(all) <= FABRIC_CAP
  BY <1>1, <1>2, SameThins DEF SendAll
<1>3. CASE ~(Len(all) <= FABRIC_CAP)
  <2> DEFINE s == SubSeq(all, 1, FABRIC_CAP)
             f == [i \in DOMAIN s |-> i]
  <2> HIDE DEF all
  <2>1. 1 \in Int /\ FABRIC_CAP \in Int /\ FABRIC_CAP \in Nat
    BY SizeAssumption, SMT
  <2>2. \A i \in 1 .. FABRIC_CAP : all[i] \in Frame
    BY <1>1, <1>3, <2>1, ElementOfSeq, SMT
  <2>3. /\ s \in Seq(Frame) /\ Len(s) = IF 1 <= FABRIC_CAP THEN FABRIC_CAP - 1 + 1 ELSE 0
        /\ \A i \in 1 .. FABRIC_CAP - 1 + 1 : s[i] = all[1 + i - 1]
    BY <2>1, <2>2, SubSeqProperties
  <2>4. DOMAIN s = 1 .. Len(s)
    BY <2>3, LenProperties
  <2> HIDE DEF s
  <2>5. DOMAIN s = 1 .. FABRIC_CAP /\ DOMAIN s \subseteq DOMAIN all
    BY <1>1, <1>3, <2>1, <2>3, <2>4, SMT
  <2>6. f \in [DOMAIN s -> DOMAIN all]
    BY <2>5
  <2>7. \A i \in DOMAIN s : f[i] = i /\ s[i] = all[i]
    BY <2>1, <2>3, <2>5, SMT
  <2> HIDE DEF f
  <2>8. Thinned(s, all)
    BY <2>6, <2>7 DEF Thinned
  <2> QED
    BY <1>3, <2>8 DEF SendAll, all, s
<1> QED
  BY <1>2, <1>3

\* The fabric loses a frame.
LEMMA LossThins ==
  ASSUME NEW S, NEW s \in Seq(S), NEW i \in DOMAIN s
  PROVE  /\ SubSeq(s, 1, i - 1) \o SubSeq(s, i + 1, Len(s)) \in Seq(S)
         /\ Thinned(SubSeq(s, 1, i - 1) \o SubSeq(s, i + 1, Len(s)), s)
<1> DEFINE a == SubSeq(s, 1, i - 1)
           b == SubSeq(s, i + 1, Len(s))
           t == a \o b
           f == [k \in DOMAIN t |-> IF k < i THEN k ELSE k + 1]
<1>1. Len(s) \in Nat /\ DOMAIN s = 1 .. Len(s) /\ i \in 1 .. Len(s)
  BY LenProperties
<1>2. \A k \in 1 .. Len(s) : s[k] \in S
  BY <1>1, ElementOfSeq
<1>3. /\ a \in Seq(S) /\ Len(a) = i - 1
      /\ \A k \in 1 .. i - 1 : a[k] = s[k]
  <2>1. 1 \in Int /\ i - 1 \in Int /\ \A k \in 1 .. i - 1 : s[k] \in S
    BY <1>1, <1>2, SMT
  <2>2. /\ a \in Seq(S) /\ Len(a) = IF 1 <= i - 1 THEN (i - 1) - 1 + 1 ELSE 0
        /\ \A k \in 1 .. (i - 1) - 1 + 1 : a[k] = s[1 + k - 1]
    BY <2>1, SubSeqProperties
  <2> HIDE DEF a
  <2> QED
    BY <1>1, <2>2, SMT
<1>4. /\ b \in Seq(S) /\ Len(b) = Len(s) - i
      /\ \A k \in 1 .. Len(s) - i : b[k] = s[i + k]
  <2>1. i + 1 \in Int /\ Len(s) \in Int /\ \A k \in i + 1 .. Len(s) : s[k] \in S
    <3>1. \A k \in i + 1 .. Len(s) : k \in 1 .. Len(s)
      BY <1>1, SMT
    <3> QED
      BY <1>1, <1>2, <3>1, SMT
  <2>2. /\ b \in Seq(S) /\ Len(b) = IF i + 1 <= Len(s) THEN Len(s) - (i + 1) + 1 ELSE 0
        /\ \A k \in 1 .. Len(s) - (i + 1) + 1 : b[k] = s[i + 1 + k - 1]
    BY <2>1, SubSeqProperties
  <2> HIDE DEF b
  <2>3. Len(b) = Len(s) - i
    BY <1>1, <2>2, SMT
  <2>4. ASSUME NEW k \in 1 .. Len(s) - i
        PROVE  b[k] = s[i + k]
    <3>1. k \in 1 .. Len(s) - (i + 1) + 1 /\ i + 1 + k - 1 = i + k
      BY <1>1, SMT
    <3> QED
      BY <2>2, <3>1
  <2> QED
    BY <2>2, <2>3, <2>4
<1> HIDE DEF a, b
<1>5. /\ t \in Seq(S) /\ Len(t) = Len(a) + Len(b)
      /\ \A k \in 1 .. Len(a) + Len(b) : t[k] = IF k <= Len(a) THEN a[k] ELSE b[k - Len(a)]
  BY <1>3, <1>4, ConcatProperties
<1>6. DOMAIN t = 1 .. Len(s) - 1
  <2>1. DOMAIN t = 1 .. Len(t)
    BY <1>5, LenProperties
  <2> HIDE DEF t
  <2> QED
    BY <1>1, <1>3, <1>4, <1>5, <2>1, SMT
<1> HIDE DEF t
<1>7. f \in [DOMAIN t -> DOMAIN s]
  BY <1>1, <1>6, SMT
<1>8. \A k \in DOMAIN t : t[k] = s[f[k]]
  <2> TAKE k \in DOMAIN t
  <2>1. CASE k < i
    <3>1. k \in 1 .. i - 1 /\ k \in 1 .. Len(a) + Len(b) /\ k <= Len(a)
      BY <1>1, <1>3, <1>4, <1>6, <2>1, SMT
    <3> QED
      BY <1>3, <1>5, <2>1, <3>1
  <2>2. CASE ~(k < i)
    <3> DEFINE n == k - Len(a)
    <3>1. /\ n \in 1 .. Len(s) - i /\ k \in 1 .. Len(a) + Len(b) /\ ~(k <= Len(a))
          /\ i + n = k + 1
      BY <1>1, <1>3, <1>4, <1>6, <2>2, SMT
    <3>2. t[k] = b[n]
      BY <1>5, <3>1
    <3>3. f[k] = k + 1
      BY <2>2
    <3> HIDE DEF n, f
    <3> QED
      BY <1>4, <3>1, <3>2, <3>3
  <2> QED
    BY <2>1, <2>2
<1>9. \A k, n \in DOMAIN t : k < n => f[k] < f[n]
  BY <1>1, <1>6, SMT
<1> HIDE DEF f
<1> QED
  BY <1>5, <1>7, <1>8, <1>9 DEF Thinned, t, a, b

-----------------------------------------------------------------------------
(***************************************************************************)
(* What the parts of an action do to the numbers of one direction.  next is *)
(* the next number its sender will use, of which the receiver misses the    *)
(* last missing ones, and queue holds frames under way.                     *)
(***************************************************************************)
\* The sizes that keep every comparison of numbers within half a ring.
LEMMA Sizes ==
  /\ WINDOW_SIZE \in Nat /\ WINDOW_SIZE >= 1
  /\ ACK_HORIZON \in Nat /\ ACK_HORIZON >= 1
  /\ WINDOW_SIZE + ACK_HORIZON = HALF_MAX_SEQ_NUM - 1
  /\ HALF_MAX_SEQ_NUM \in Nat /\ SEQ_MOD = HALF_MAX_SEQ_NUM + HALF_MAX_SEQ_NUM
  BY SizeAssumption, HalfRing, SMT DEF ACK_HORIZON

\* Numbers of frames under way, and their distances.
LEMMA FrameNumbers ==
  ASSUME NEW q \in Seq(Frame), NEW next \in SeqNum
  PROVE  \A i \in DOMAIN q : /\ q[i] \in Frame
                             /\ q[i].seq_num \in SeqNum /\ q[i].seq_num_ack \in SeqNum
                             /\ Dist(q[i].seq_num, next) \in Nat
                             /\ Dist(q[i].seq_num_ack, next) \in Nat
<1> TAKE i \in DOMAIN q
<1>1. q[i] \in Frame
  BY LenProperties, ElementOfSeq
<1>2. q[i].seq_num \in SeqNum /\ q[i].seq_num_ack \in SeqNum
  BY <1>1 DEF Frame
<1> QED
  BY <1>1, <1>2, DistStep, SeqModAssumption, SMT

\* A number of frames accepted or missing is one.
LEMMA MissingType ==
  ASSUME NEW expected \in SeqNum, NEW next \in SeqNum
  PROVE  Dist(expected, next) \in Nat /\ Dist(expected, next) < SEQ_MOD
BY DistStep, SeqModAssumption, SMT

\* The elements of a concatenation.
LEMMA ConcatElements ==
  ASSUME NEW S, NEW a \in Seq(S), NEW b \in Seq(S)
  PROVE  /\ a \o b \in Seq(S)
         /\ \A k \in DOMAIN (a \o b) :
               \/ k <= Len(a) /\ k \in DOMAIN a /\ (a \o b)[k] = a[k]
               \/ k > Len(a) /\ k - Len(a) \in DOMAIN b /\ (a \o b)[k] = b[k - Len(a)]
<1> DEFINE all == a \o b
<1>1. /\ Len(a) \in Nat /\ DOMAIN a = 1 .. Len(a)
      /\ Len(b) \in Nat /\ DOMAIN b = 1 .. Len(b)
  BY LenProperties
<1>2. /\ all \in Seq(S) /\ Len(all) = Len(a) + Len(b)
      /\ \A k \in 1 .. Len(a) + Len(b) : all[k] = IF k <= Len(a) THEN a[k] ELSE b[k - Len(a)]
  BY ConcatProperties
<1>3. DOMAIN all = 1 .. Len(all)
  BY <1>2, LenProperties
<1> HIDE DEF all
<1>4. ASSUME NEW k \in DOMAIN all
      PROVE  \/ k <= Len(a) /\ k \in DOMAIN a /\ all[k] = a[k]
             \/ k > Len(a) /\ k - Len(a) \in DOMAIN b /\ all[k] = b[k - Len(a)]
  <2>1. k \in 1 .. Len(a) + Len(b)
    BY <1>2, <1>3
  <2>2. \/ k <= Len(a) /\ k \in DOMAIN a
        \/ ~(k <= Len(a)) /\ k > Len(a) /\ k - Len(a) \in DOMAIN b
    BY <1>1, <2>1, SMT
  <2> QED
    BY <1>2, <2>1, <2>2
<1> QED
  BY <1>2, <1>4 DEF all

\* The elements of a tail.
LEMMA TailElements ==
  ASSUME NEW S, NEW s \in Seq(S), s # <<>>
  PROVE  /\ Tail(s) \in Seq(S) /\ 1 \in DOMAIN s /\ s[1] = Head(s)
         /\ \A i \in DOMAIN Tail(s) :
               i \in Nat /\ i + 1 \in DOMAIN s /\ 1 < i + 1 /\ Tail(s)[i] = s[i + 1]
<1> DEFINE rest == Tail(s)
<1>1. /\ rest \in Seq(S) /\ Len(rest) = Len(s) - 1
      /\ \A i \in 1 .. Len(rest) : rest[i] = s[i + 1]
  BY HeadTailProperties
<1>2. /\ DOMAIN rest = 1 .. Len(rest) /\ Len(rest) \in Nat
      /\ DOMAIN s = 1 .. Len(s) /\ Len(s) \in Nat
  BY <1>1, LenProperties
<1>3. Head(s) = s[1]
  OBVIOUS
<1> HIDE DEF rest
<1>4. 1 \in DOMAIN s /\ \A i \in DOMAIN rest : i \in Nat /\ i + 1 \in DOMAIN s /\ 1 < i + 1
  BY <1>1, <1>2, SMT
<1> QED
  BY <1>1, <1>2, <1>3, <1>4 DEF rest

\* Frames are lost.
LEMMA NumbersThin ==
  ASSUME NEW next, NEW missing, NEW span, NEW queue, NEW fewer, Thinned(fewer, queue),
         NumbersInOrder(queue, next, missing, span)
  PROVE  NumbersInOrder(fewer, next, missing, span)
<1>1. PICK f \in [DOMAIN fewer -> DOMAIN queue] :
        /\ \A i \in DOMAIN fewer : fewer[i] = queue[f[i]]
        /\ \A i, j \in DOMAIN fewer : i < j => f[i] < f[j]
  BY DEF Thinned
<1> QED
  BY <1>1 DEF NumbersInOrder

\* The sender repeats frames no older than span.
LEMMA NumbersSend ==
  ASSUME NEW next \in SeqNum, NEW missing \in Nat, NEW span \in Nat,
         NEW queue \in Seq(Frame), NumbersInOrder(queue, next, missing, span),
         NEW new \in Seq(Frame),
         \A k \in DOMAIN new : Numbered(new[k]) => Dist(new[k].seq_num, next) \in 1 .. span
  PROVE  NumbersInOrder(queue \o new, next, missing, span)
<1> DEFINE all == queue \o new
           Age(k) == Dist(all[k].seq_num, next)
<1>1. /\ all \in Seq(Frame)
      /\ \A k \in DOMAIN all :
            \/ k <= Len(queue) /\ k \in DOMAIN queue /\ all[k] = queue[k]
            \/ k > Len(queue) /\ k - Len(queue) \in DOMAIN new /\ all[k] = new[k - Len(queue)]
  BY ConcatElements
<1> HIDE DEF all
<1>2. ASSUME NEW k \in DOMAIN all, k > Len(queue), Numbered(all[k])
      PROVE  Age(k) \in 1 .. span
  <2>1. ~(k <= Len(queue))
    <3>1. k \in Nat /\ Len(queue) \in Nat
      BY <1>1, LenProperties, SMT
    <3> QED
      BY <1>2, <3>1, SMT
  <2> QED
    BY <1>1, <1>2, <2>1
<1>3. ASSUME NEW k \in DOMAIN all, ~(k > Len(queue))
      PROVE  k \in DOMAIN queue /\ all[k] = queue[k]
  BY <1>1, <1>3
<1> HIDE DEF Age
<1>4. ASSUME NEW k \in DOMAIN all, Numbered(all[k])
      PROVE  Age(k) \in 1 .. missing + span
  <2>1. CASE k > Len(queue)
    BY <1>2, <1>4, <2>1, SMT
  <2>2. CASE ~(k > Len(queue))
    BY <1>3, <1>4, <2>2 DEF NumbersInOrder, Age
  <2> QED
    BY <2>1, <2>2
<1>5. ASSUME NEW k \in DOMAIN all, NEW n \in DOMAIN all, k < n,
             Numbered(all[k]), Numbered(all[n])
      PROVE  Age(n) < Age(k) + span
  <2>1. CASE n > Len(queue)
    <3>1. Age(n) \in 1 .. span /\ Age(k) \in 1 .. missing + span
      BY <1>2, <1>4, <1>5, <2>1
    <3> QED
      BY <3>1, SMT
  <2>2. CASE ~(n > Len(queue))
    <3>1. ~(k > Len(queue))
      <4>1. k \in Nat /\ n \in Nat /\ Len(queue) \in Nat
        BY <1>1, LenProperties, SMT
      <4> QED
        BY <1>5, <2>2, <4>1, SMT
    <3> QED
      BY <1>3, <1>5, <2>2, <3>1 DEF NumbersInOrder, Age
  <2> QED
    BY <2>1, <2>2
<1> QED
  BY <1>4, <1>5 DEF NumbersInOrder, Age, all

\* The sender numbers a frame.
LEMMA NumbersNext ==
  ASSUME NEW next \in SeqNum, NEW missing \in Nat, NEW span \in Nat,
         missing + span < SEQ_MOD - 1,
         NEW queue \in Seq(Frame), NumbersInOrder(queue, next, missing, span)
  PROVE  NumbersInOrder(queue, tloe_seqnum_next(next), missing + 1, span)
<1> DEFINE nn == tloe_seqnum_next(next)
<1>1. ASSUME NEW i \in DOMAIN queue, Numbered(queue[i])
      PROVE  /\ Dist(queue[i].seq_num, next) \in 1 .. missing + span
             /\ Dist(queue[i].seq_num, nn) = Dist(queue[i].seq_num, next) + 1
  <2> DEFINE a == queue[i].seq_num
  <2>1. a \in SeqNum /\ Dist(a, next) \in 1 .. missing + span
    BY <1>1, FrameNumbers DEF NumbersInOrder
  <2>2. Dist(a, next) < SEQ_MOD - 1
    BY <2>1, SeqModAssumption, SMT
  <2> QED
    BY <2>1, <2>2, DistStep
<1> HIDE DEF nn
<1>2. \A i \in DOMAIN queue : Numbered(queue[i]) =>
         Dist(queue[i].seq_num, nn) \in 1 .. missing + 1 + span
  BY <1>1, SMT
<1>3. ASSUME NEW i \in DOMAIN queue, NEW j \in DOMAIN queue, i < j,
             Numbered(queue[i]), Numbered(queue[j])
      PROVE  Dist(queue[j].seq_num, nn) < Dist(queue[i].seq_num, nn) + span
  <2> DEFINE a == Dist(queue[i].seq_num, next)
             b == Dist(queue[j].seq_num, next)
  <2>1. b < a + span
    BY <1>3 DEF NumbersInOrder
  <2>2. a \in Nat /\ b \in Nat
    BY FrameNumbers
  <2>3. Dist(queue[i].seq_num, nn) = a + 1 /\ Dist(queue[j].seq_num, nn) = b + 1
    BY <1>1, <1>3
  <2> HIDE DEF a, b
  <2> QED
    BY <2>1, <2>2, <2>3, SMT
<1> QED
  BY <1>2, <1>3 DEF NumbersInOrder, nn

\* The receiver takes the oldest frame, which is the one it expects.
LEMMA NumbersAccept ==
  ASSUME NEW next \in SeqNum, NEW missing \in Nat, NEW span \in Nat,
         NEW queue \in Seq(Frame), queue # <<>>,
         NumbersInOrder(queue, next, missing, span),
         Numbered(Head(queue)), Dist(Head(queue).seq_num, next) = missing
  PROVE  missing >= 1 /\ NumbersInOrder(Tail(queue), next, missing - 1, span)
<1> DEFINE rest == Tail(queue)
<1>1. /\ rest \in Seq(Frame) /\ 1 \in DOMAIN queue /\ queue[1] = Head(queue)
      /\ \A i \in DOMAIN rest :
            i \in Nat /\ i + 1 \in DOMAIN queue /\ 1 < i + 1 /\ rest[i] = queue[i + 1]
  BY TailElements
<1> HIDE DEF rest
<1>2. missing >= 1
  <2>1. missing \in 1 .. missing + span
    BY <1>1 DEF NumbersInOrder
  <2> QED
    BY <2>1, SMT
<1>3. ASSUME NEW i \in DOMAIN rest, Numbered(rest[i])
      PROVE  Dist(rest[i].seq_num, next) \in 1 .. missing - 1 + span
  <2> DEFINE a == Dist(rest[i].seq_num, next)
  <2>1. rest[i] = queue[i + 1] /\ i + 1 \in DOMAIN queue /\ 1 < i + 1
    BY <1>1
  <2>2. a \in 1 .. missing + span
    BY <1>3, <2>1 DEF NumbersInOrder
  <2>3. a < missing + span
    BY <1>1, <1>3, <2>1 DEF NumbersInOrder
  <2> HIDE DEF a
  <2>4. a \in 1 .. missing - 1 + span
    BY <1>2, <2>2, <2>3, SMT
  <2> QED
    BY <2>4 DEF a
<1>4. ASSUME NEW i \in DOMAIN rest, NEW j \in DOMAIN rest, i < j,
             Numbered(rest[i]), Numbered(rest[j])
      PROVE  Dist(rest[j].seq_num, next) < Dist(rest[i].seq_num, next) + span
  <2>1. i + 1 < j + 1
    BY <1>1, <1>4, SMT
  <2> QED
    BY <1>1, <1>4, <2>1 DEF NumbersInOrder
<1> QED
  BY <1>2, <1>3, <1>4 DEF NumbersInOrder, rest

\* Frames are lost.
LEMMA AcksThin ==
  ASSUME NEW next, NEW missing, NEW kept, NEW queue, NEW fewer, Thinned(fewer, queue),
         AcksInOrder(queue, next, missing, kept)
  PROVE  AcksInOrder(fewer, next, missing, kept)
<1>1. PICK f \in [DOMAIN fewer -> DOMAIN queue] :
        /\ \A i \in DOMAIN fewer : fewer[i] = queue[f[i]]
        /\ \A i, j \in DOMAIN fewer : i < j => f[i] < f[j]
  BY DEF Thinned
<1> QED
  BY <1>1 DEF AcksInOrder

\* The receiver acknowledges frames it accepted at most horizon ago.
LEMMA AcksAdd ==
  ASSUME NEW next \in SeqNum, NEW expected \in SeqNum, NEW kept \in Nat, NEW horizon \in Nat,
         horizon <= ACK_HORIZON,
         Dist(expected, next) + horizon <= kept + ACK_HORIZON,
         kept + ACK_HORIZON < SEQ_MOD,
         NEW queue \in Seq(Frame), AcksInOrder(queue, next, Dist(expected, next), kept),
         NEW new \in Seq(Frame),
         \A k \in DOMAIN new : Dist(new[k].seq_num_ack, expected) \in 1 .. horizon
  PROVE  AcksInOrder(queue \o new, next, Dist(expected, next), kept)
<1> DEFINE missing == Dist(expected, next)
           all == queue \o new
           Age(k) == Dist(all[k].seq_num_ack, next)
<1>1. missing \in Nat
  BY MissingType
<1>2. /\ all \in Seq(Frame)
      /\ \A k \in DOMAIN all :
            \/ k <= Len(queue) /\ k \in DOMAIN queue /\ all[k] = queue[k]
            \/ k > Len(queue) /\ k - Len(queue) \in DOMAIN new /\ all[k] = new[k - Len(queue)]
  BY ConcatElements
<1> HIDE DEF all, missing
<1>3. missing + horizon <= kept + ACK_HORIZON /\ AcksInOrder(queue, next, missing, kept)
  BY DEF missing
<1>4. \A k \in DOMAIN all : k \in Nat /\ Len(queue) \in Nat
  BY <1>2, LenProperties, SMT
<1>5. ASSUME NEW k \in DOMAIN all, k > Len(queue)
      PROVE  Age(k) \in missing + 1 .. missing + horizon
  <2> DEFINE m == all[k].seq_num_ack
  <2>1. ~(k <= Len(queue))
    BY <1>4, <1>5, SMT
  <2>2. m \in SeqNum /\ Dist(m, expected) \in 1 .. horizon
    BY <1>2, <2>1, FrameNumbers
  <2>3. Dist(m, expected) + missing < SEQ_MOD
    BY <1>1, <1>3, <2>2, Sizes, SMT
  <2>4. Dist(m, next) = Dist(m, expected) + missing
    BY <2>2, <2>3, DistSum DEF missing
  <2> HIDE DEF m
  <2>5. Dist(m, next) \in missing + 1 .. missing + horizon
    BY <1>1, <2>2, <2>4, SMT
  <2> QED
    BY <2>5 DEF m
<1>6. ASSUME NEW k \in DOMAIN all, ~(k > Len(queue))
      PROVE  k \in DOMAIN queue /\ all[k] = queue[k]
  BY <1>2, <1>6
<1> HIDE DEF Age
<1>7. ASSUME NEW k \in DOMAIN all
      PROVE  Age(k) \in missing + 1 .. kept + ACK_HORIZON
  <2>1. CASE k > Len(queue)
    BY <1>1, <1>3, <1>5, <2>1, Sizes, SMT
  <2>2. CASE ~(k > Len(queue))
    BY <1>3, <1>6, <2>2 DEF AcksInOrder, Age
  <2> QED
    BY <2>1, <2>2
<1>8. ASSUME NEW k \in DOMAIN all, NEW n \in DOMAIN all, k < n
      PROVE  Age(n) < Age(k) + ACK_HORIZON
  <2>1. CASE n > Len(queue)
    <3>1. /\ Age(n) \in missing + 1 .. missing + horizon
          /\ Age(k) \in missing + 1 .. kept + ACK_HORIZON
      BY <1>5, <1>7, <2>1
    <3> QED
      BY <1>1, <3>1, Sizes, SMT
  <2>2. CASE ~(n > Len(queue))
    <3>1. ~(k > Len(queue))
      BY <1>4, <1>8, <2>2, SMT
    <3> QED
      BY <1>3, <1>6, <1>8, <2>2, <3>1 DEF AcksInOrder, Age
  <2> QED
    BY <2>1, <2>2
<1> QED
  BY <1>7, <1>8 DEF AcksInOrder, Age, missing, all

\* The sender of what is acknowledged numbers a frame and keeps it.
LEMMA AcksNext ==
  ASSUME NEW next \in SeqNum, NEW missing \in Nat, NEW kept \in Nat,
         kept + ACK_HORIZON < SEQ_MOD - 1,
         NEW queue \in Seq(Frame), AcksInOrder(queue, next, missing, kept)
  PROVE  AcksInOrder(queue, tloe_seqnum_next(next), missing + 1, kept + 1)
<1> DEFINE nn == tloe_seqnum_next(next)
<1>1. ASSUME NEW i \in DOMAIN queue
      PROVE  /\ Dist(queue[i].seq_num_ack, next) \in missing + 1 .. kept + ACK_HORIZON
             /\ Dist(queue[i].seq_num_ack, nn) = Dist(queue[i].seq_num_ack, next) + 1
  <2> DEFINE a == queue[i].seq_num_ack
  <2>1. a \in SeqNum /\ Dist(a, next) \in missing + 1 .. kept + ACK_HORIZON
    BY FrameNumbers DEF AcksInOrder
  <2>2. Dist(a, next) < SEQ_MOD - 1
    BY <2>1, Sizes, SMT
  <2> QED
    BY <2>1, <2>2, DistStep
<1> HIDE DEF nn
<1>2. \A i \in DOMAIN queue :
         Dist(queue[i].seq_num_ack, nn) \in missing + 1 + 1 .. kept + 1 + ACK_HORIZON
  BY <1>1, Sizes, SMT
<1>3. ASSUME NEW i \in DOMAIN queue, NEW j \in DOMAIN queue, i < j
      PROVE  Dist(queue[j].seq_num_ack, nn) < Dist(queue[i].seq_num_ack, nn) + ACK_HORIZON
  <2> DEFINE a == Dist(queue[i].seq_num_ack, next)
             b == Dist(queue[j].seq_num_ack, next)
  <2>1. b < a + ACK_HORIZON
    BY <1>3 DEF AcksInOrder
  <2>2. a \in Nat /\ b \in Nat
    BY FrameNumbers
  <2>3. Dist(queue[i].seq_num_ack, nn) = a + 1 /\ Dist(queue[j].seq_num_ack, nn) = b + 1
    BY <1>1
  <2> HIDE DEF a, b
  <2> QED
    BY <2>1, <2>2, <2>3, Sizes, SMT
<1> QED
  BY <1>2, <1>3 DEF AcksInOrder, nn

\* One frame less is missing.
LEMMA AcksAccept ==
  ASSUME NEW next, NEW missing \in Nat, missing >= 1, NEW kept \in Nat, NEW queue,
         AcksInOrder(queue, next, missing, kept)
  PROVE  AcksInOrder(queue, next, missing - 1, kept)
<1>1. ASSUME NEW i \in DOMAIN queue
      PROVE  Dist(queue[i].seq_num_ack, next) \in missing - 1 + 1 .. kept + ACK_HORIZON
  <2> DEFINE a == Dist(queue[i].seq_num_ack, next)
  <2>1. a \in missing + 1 .. kept + ACK_HORIZON
    BY DEF AcksInOrder
  <2> HIDE DEF a
  <2>2. a \in missing - 1 + 1 .. kept + ACK_HORIZON
    BY <2>1, Sizes, SMT
  <2> QED
    BY <2>2 DEF a
<1> QED
  BY <1>1 DEF AcksInOrder

\* No entry of ack_buffer becomes the number expected next.
LEMMA ReportsAccept ==
  ASSUME NEW expected \in SeqNum, NEW reports \in Seq(AckEntry),
         \A i \in DOMAIN reports : /\ reports[i].seq_num_ack # expected
                                   /\ Dist(reports[i].seq_num_ack, expected) <= ACK_HORIZON
  PROVE  \A i \in DOMAIN reports : reports[i].seq_num_ack # tloe_seqnum_next(expected)
<1> TAKE i \in DOMAIN reports
<1> DEFINE ne == tloe_seqnum_next(expected)
           a == reports[i].seq_num_ack
<1>1. a \in SeqNum /\ a # expected /\ Dist(a, expected) <= ACK_HORIZON
  <2>1. reports[i] \in AckEntry
    BY LenProperties, ElementOfSeq
  <2> QED
    BY <2>1 DEF AckEntry
<1>2. Dist(a, expected) \in Nat
  BY <1>1, DistStep, SeqModAssumption, SMT
<1>3. Dist(a, ne) = Dist(a, expected) + 1
  <2>1. Dist(a, expected) < SEQ_MOD - 1
    BY <1>1, <1>2, Sizes, SMT
  <2> QED
    BY <1>1, <2>1, DistStep
<1>4. ne \in SeqNum
  BY NextPrev
<1>5. Dist(a, ne) # 0
  BY <1>2, <1>3, SMT
<1> QED
  BY <1>1, <1>4, <1>5, DistSum

\* The sender takes the oldest acknowledgement and keeps left frames, those
\* after the acknowledged one.
LEMMA AcksSlide ==
  ASSUME NEW next \in SeqNum, NEW missing \in Nat, NEW kept \in Nat,
         NEW queue \in Seq(Frame), queue # <<>>,
         AcksInOrder(queue, next, missing, kept), NEW left \in Nat,
         left = IF Dist(Head(queue).seq_num_ack, next) <= kept
                THEN Dist(Head(queue).seq_num_ack, next) - 1 ELSE kept
  PROVE  AcksInOrder(Tail(queue), next, missing, left)
<1> DEFINE rest == Tail(queue)
           c == Dist(Head(queue).seq_num_ack, next)
<1>1. /\ rest \in Seq(Frame) /\ 1 \in DOMAIN queue /\ queue[1] = Head(queue)
      /\ \A i \in DOMAIN rest :
            i \in Nat /\ i + 1 \in DOMAIN queue /\ 1 < i + 1 /\ rest[i] = queue[i + 1]
  BY TailElements
<1>2. c \in Nat
  BY <1>1, FrameNumbers
<1>3. left = IF c <= kept THEN c - 1 ELSE kept
  OBVIOUS
<1> HIDE DEF rest, c
<1>4. ASSUME NEW i \in DOMAIN rest
      PROVE  Dist(rest[i].seq_num_ack, next) \in missing + 1 .. left + ACK_HORIZON
  <2> DEFINE a == Dist(rest[i].seq_num_ack, next)
  <2>1. rest[i] = queue[i + 1] /\ i + 1 \in DOMAIN queue /\ 1 < i + 1
    BY <1>1
  <2>2. a \in missing + 1 .. kept + ACK_HORIZON
    BY <2>1 DEF AcksInOrder
  <2>3. a < c + ACK_HORIZON
    <3>1. c = Dist(queue[1].seq_num_ack, next)
      BY <1>1 DEF c
    <3>2. Dist(queue[i + 1].seq_num_ack, next) < Dist(queue[1].seq_num_ack, next) + ACK_HORIZON
      BY <1>1, <2>1 DEF AcksInOrder
    <3> QED
      BY <2>1, <3>1, <3>2
  <2> HIDE DEF a
  <2>4. a \in missing + 1 .. left + ACK_HORIZON
    BY <1>2, <1>3, <2>2, <2>3, Sizes, SMT
  <2> QED
    BY <2>4 DEF a
<1>5. ASSUME NEW i \in DOMAIN rest, NEW j \in DOMAIN rest, i < j
      PROVE  Dist(rest[j].seq_num_ack, next) < Dist(rest[i].seq_num_ack, next) + ACK_HORIZON
  <2>1. i + 1 < j + 1
    BY <1>1, <1>5, SMT
  <2> QED
    BY <1>1, <1>5, <2>1 DEF AcksInOrder
<1> QED
  BY <1>4, <1>5 DEF AcksInOrder, rest

-----------------------------------------------------------------------------
(***************************************************************************)
(* What the parts of an action do to one direction                          *)
(***************************************************************************)
\* Losing frames, in either direction, changes nothing.
LEMMA LinkThins ==
  ASSUME NEW next, NEW expected, NEW buffer, NEW frames, NEW acks, NEW reports,
         Link(next, expected, buffer, frames, acks, reports),
         NEW fewer, Thinned(fewer, frames), NEW fewerAcks, Thinned(fewerAcks, acks)
  PROVE  Link(next, expected, buffer, fewer, fewerAcks, reports)
<1> DEFINE missing == Dist(expected, next)
<1>1. /\ missing <= Len(buffer)
      /\ NumbersInOrder(frames, next, missing, WINDOW_SIZE)
      /\ Copies(frames, next, missing, buffer)
      /\ AcksInOrder(acks, next, missing, Len(buffer))
      /\ \A i \in DOMAIN reports : reports[i].seq_num_ack # expected
  BY DEF Link
<1> HIDE DEF missing
<1>2. PICK f \in [DOMAIN fewer -> DOMAIN frames] :
        \A i \in DOMAIN fewer : fewer[i] = frames[f[i]]
  BY DEF Thinned
<1>3. Copies(fewer, next, missing, buffer)
  BY <1>1, <1>2 DEF Copies
<1>4. /\ NumbersInOrder(fewer, next, missing, WINDOW_SIZE)
      /\ AcksInOrder(fewerAcks, next, missing, Len(buffer))
  BY <1>1, NumbersThin, AcksThin
<1> QED
  BY <1>1, <1>3, <1>4 DEF Link, missing

\* What the sender adds: any frames of its window (retransmit, TX), and frames
\* without a number (send_ackonly_frame).
LEMMA LinkSends ==
  ASSUME NEW next \in SeqNum, NEW expected \in SeqNum, NEW buffer \in Seq(Element),
         NEW frames \in Seq(Frame), NEW acks \in Seq(Frame), NEW reports,
         Link(next, expected, buffer, frames, acks, reports),
         IsWindow(buffer, next), NEW new \in Seq(Frame),
         \A k \in DOMAIN new : Numbered(new[k]) =>
             \E i \in DOMAIN buffer : ElementOf(new[k]) = buffer[i]
  PROVE  Link(next, expected, buffer, frames \o new, acks, reports)
<1> DEFINE missing == Dist(expected, next)
           all == frames \o new
           Age(k) == Dist(all[k].seq_num, next)
<1>1. /\ NumbersInOrder(frames, next, missing, WINDOW_SIZE)
      /\ Copies(frames, next, missing, buffer)
  BY DEF Link
<1>2. missing \in Nat /\ WINDOW_SIZE \in Nat
  BY MissingType, Sizes
<1>3. /\ Len(buffer) \in Nat /\ DOMAIN buffer = 1 .. Len(buffer)
      /\ Len(buffer) <= WINDOW_SIZE
  BY LenProperties DEF IsWindow
<1>4. ASSUME NEW k \in DOMAIN new, Numbered(new[k])
      PROVE  LET age == Dist(new[k].seq_num, next)
             IN  age \in 1 .. WINDOW_SIZE /\ ElementOf(new[k]) = buffer[Len(buffer) - age + 1]
  <2> DEFINE age == Dist(new[k].seq_num, next)
  <2>1. PICK i \in DOMAIN buffer : ElementOf(new[k]) = buffer[i]
    BY <1>4
  <2>2. age = Len(buffer) - i + 1
    BY <2>1 DEF IsWindow, ElementOf
  <2>3. age \in 1 .. WINDOW_SIZE /\ Len(buffer) - age + 1 = i
    BY <1>3, <2>2, Sizes, SMT
  <2> HIDE DEF age
  <2>4. age \in 1 .. WINDOW_SIZE /\ ElementOf(new[k]) = buffer[Len(buffer) - age + 1]
    BY <2>1, <2>3
  <2> QED
    BY <2>4 DEF age
<1>5. \A k \in DOMAIN all :
         \/ k \in DOMAIN frames /\ all[k] = frames[k]
         \/ k - Len(frames) \in DOMAIN new /\ all[k] = new[k - Len(frames)]
  BY ConcatElements
<1> HIDE DEF missing
<1>6. NumbersInOrder(all, next, missing, WINDOW_SIZE)
  BY <1>1, <1>2, <1>4, NumbersSend
<1> HIDE DEF all
<1>7. ASSUME NEW k \in DOMAIN all, Numbered(all[k]), Age(k) <= missing
      PROVE  ElementOf(all[k]) = buffer[Len(buffer) - Age(k) + 1]
  BY <1>1, <1>4, <1>5, <1>7 DEF Copies
<1>8. Copies(all, next, missing, buffer)
  BY <1>7 DEF Copies
<1> QED
  BY <1>6, <1>8 DEF Link, missing, all

\* What the receiver adds: frames that acknowledge one it accepted lately.
LEMMA LinkAcks ==
  ASSUME NEW next \in SeqNum, NEW expected \in SeqNum, NEW buffer,
         Len(buffer) \in Nat, Len(buffer) <= WINDOW_SIZE,
         NEW frames, NEW acks \in Seq(Frame), NEW reports,
         Link(next, expected, buffer, frames, acks, reports),
         NEW new \in Seq(Frame),
         \A k \in DOMAIN new : Dist(new[k].seq_num_ack, expected) \in 1 .. ACK_HORIZON
  PROVE  Link(next, expected, buffer, frames, acks \o new, reports)
<1> DEFINE missing == Dist(expected, next)
<1>1. missing <= Len(buffer) /\ AcksInOrder(acks, next, missing, Len(buffer))
  BY DEF Link
<1>2. missing \in Nat
  BY MissingType
<1>3. /\ ACK_HORIZON \in Nat /\ ACK_HORIZON <= ACK_HORIZON
      /\ missing + ACK_HORIZON <= Len(buffer) + ACK_HORIZON
      /\ Len(buffer) + ACK_HORIZON < SEQ_MOD
  <2> HIDE DEF missing
  <2> QED
    BY <1>1, <1>2, Sizes, SMT
<1>4. AcksInOrder(acks \o new, next, missing, Len(buffer))
  BY <1>1, <1>3, AcksAdd
<1> QED
  BY <1>4 DEF Link

\* The sender numbers a frame and keeps it (TX).
LEMMA LinkNext ==
  ASSUME NEW next \in SeqNum, NEW expected \in SeqNum, NEW buffer \in Seq(Element),
         Len(buffer) < WINDOW_SIZE, NEW x \in Element,
         NEW frames \in Seq(Frame), NEW acks \in Seq(Frame), NEW reports,
         Link(next, expected, buffer, frames, acks, reports)
  PROVE  Link(tloe_seqnum_next(next), expected, Append(buffer, x), frames, acks, reports)
<1> DEFINE missing == Dist(expected, next)
           longer == Append(buffer, x)
           nn == tloe_seqnum_next(next)
<1>1. /\ missing <= Len(buffer)
      /\ NumbersInOrder(frames, next, missing, WINDOW_SIZE)
      /\ Copies(frames, next, missing, buffer)
      /\ AcksInOrder(acks, next, missing, Len(buffer))
  BY DEF Link
<1>2. missing \in Nat
  BY MissingType
<1>3. /\ Len(longer) = Len(buffer) + 1 /\ Len(buffer) \in Nat
      /\ \A i \in 1 .. Len(buffer) : longer[i] = buffer[i]
  BY AppendProperties, LenProperties
<1> HIDE DEF missing, longer
<1>4. /\ missing < SEQ_MOD - 1 /\ missing + WINDOW_SIZE < SEQ_MOD - 1
      /\ Len(buffer) + ACK_HORIZON < SEQ_MOD - 1 /\ WINDOW_SIZE \in Nat
  BY <1>1, <1>2, <1>3, Sizes, SMT
<1>5. Dist(expected, nn) = missing + 1
  BY <1>4, DistStep DEF missing
<1>6. /\ NumbersInOrder(frames, nn, missing + 1, WINDOW_SIZE)
      /\ AcksInOrder(acks, nn, missing + 1, Len(longer))
  BY <1>1, <1>2, <1>3, <1>4, NumbersNext, AcksNext
<1>7. ASSUME NEW i \in DOMAIN frames, Numbered(frames[i]), Dist(frames[i].seq_num, nn) <= missing + 1
      PROVE  ElementOf(frames[i]) = longer[Len(longer) - Dist(frames[i].seq_num, nn) + 1]
  <2> DEFINE a == Dist(frames[i].seq_num, next)
             k == Len(buffer) - a + 1
  <2>1. frames[i].seq_num \in SeqNum /\ a \in 1 .. missing + WINDOW_SIZE
    BY <1>1, <1>7, FrameNumbers DEF NumbersInOrder
  <2>2. a \in Nat /\ a >= 1 /\ a < SEQ_MOD - 1
    BY <1>2, <1>4, <2>1, SeqModAssumption, SMT
  <2>3. Dist(frames[i].seq_num, nn) = a + 1
    BY <2>1, <2>2, DistStep
  <2> HIDE DEF a, nn
  <2>4. a <= missing
    BY <1>2, <1>7, <2>2, <2>3, SMT
  <2>5. ElementOf(frames[i]) = buffer[k]
    BY <1>1, <1>7, <2>4 DEF Copies, a
  <2>6. k \in 1 .. Len(buffer)
    BY <1>1, <1>2, <1>3, <2>2, <2>4, SMT
  <2>7. Len(longer) - Dist(frames[i].seq_num, nn) + 1 = k
    BY <1>3, <2>2, <2>3, SMT
  <2> HIDE DEF k
  <2> QED
    BY <1>3, <2>5, <2>6, <2>7
<1>8. Copies(frames, nn, missing + 1, longer)
  BY <1>7 DEF Copies
<1>9. missing + 1 <= Len(longer)
  BY <1>1, <1>2, <1>3, SMT
<1> QED
  BY <1>5, <1>6, <1>8, <1>9 DEF Link, nn, longer

\* The receiver takes the oldest frame, which is the one it expects (Accept).
LEMMA LinkAccepts ==
  ASSUME NEW next \in SeqNum, NEW expected \in SeqNum, NEW buffer,
         Len(buffer) \in Nat, Len(buffer) <= WINDOW_SIZE,
         NEW frames \in Seq(Frame), frames # <<>>, NEW acks \in Seq(Frame),
         NEW reports \in Seq(AckEntry),
         Link(next, expected, buffer, frames, acks, reports),
         Numbered(Head(frames)), Head(frames).seq_num = expected,
         \A i \in DOMAIN reports : Dist(reports[i].seq_num_ack, expected) <= ACK_HORIZON
  PROVE  Link(next, tloe_seqnum_next(expected), buffer, Tail(frames), acks, reports)
<1> DEFINE missing == Dist(expected, next)
           rest == Tail(frames)
           ne == tloe_seqnum_next(expected)
<1>1. /\ missing <= Len(buffer)
      /\ NumbersInOrder(frames, next, missing, WINDOW_SIZE)
      /\ Copies(frames, next, missing, buffer)
      /\ AcksInOrder(acks, next, missing, Len(buffer))
      /\ \A i \in DOMAIN reports : reports[i].seq_num_ack # expected
  BY DEF Link
<1>2. missing \in Nat /\ WINDOW_SIZE \in Nat
  BY MissingType, Sizes
<1>3. missing >= 1 /\ NumbersInOrder(rest, next, missing - 1, WINDOW_SIZE)
  BY <1>1, <1>2, NumbersAccept
<1>4. Dist(ne, next) = missing - 1
  BY <1>2, <1>3, DistStep, SMT
<1>5. AcksInOrder(acks, next, missing - 1, Len(buffer))
  BY <1>1, <1>2, <1>3, AcksAccept
<1>6. \A i \in DOMAIN rest : i + 1 \in DOMAIN frames /\ rest[i] = frames[i + 1]
  BY TailElements
<1> HIDE DEF missing, rest, ne
<1>7. Copies(rest, next, missing - 1, buffer)
  <2>1. ASSUME NEW i \in DOMAIN rest, Dist(rest[i].seq_num, next) <= missing - 1
        PROVE  Dist(frames[i + 1].seq_num, next) <= missing
    <3> DEFINE a == Dist(frames[i + 1].seq_num, next)
    <3>1. a \in Nat /\ a <= missing - 1
      BY <1>6, <2>1, FrameNumbers
    <3> HIDE DEF a
    <3>2. a <= missing
      BY <1>2, <3>1, SMT
    <3> QED
      BY <3>2 DEF a
  <2> QED
    BY <1>1, <1>6, <2>1 DEF Copies
<1>8. \A i \in DOMAIN reports : reports[i].seq_num_ack # ne
  BY <1>1, ReportsAccept DEF ne
<1>9. missing - 1 <= Len(buffer)
  BY <1>1, <1>2, SMT
<1> QED
  BY <1>3, <1>4, <1>5, <1>7, <1>8, <1>9 DEF Link, ne, rest

\* The number of frames an acknowledgement leaves in the window: those after
\* the acknowledged one, and never one more or less (slide_window).
LEMMA SlidesExactly ==
  ASSUME NEW next \in SeqNum, NEW buffer \in Seq(Element), IsWindow(buffer, next),
         NEW n \in SeqNum, Dist(n, next) >= 1,
         Dist(n, next) <= Len(buffer) + ACK_HORIZON
  PROVE  LET left == slide_window(buffer, n)
         IN  /\ left \in Seq(Element)
             /\ Len(left) = IF Dist(n, next) <= Len(buffer) THEN Dist(n, next) - 1
                                                            ELSE Len(buffer)
             /\ \A i \in 1 .. Len(left) : left[i] = buffer[Len(buffer) - Len(left) + i]
<1> DEFINE I == {i \in DOMAIN buffer : tloe_seqnum_cmp(buffer[i].seq_num, n) > 0}
           left == SuffixFrom(buffer, I)
           c == Dist(n, next)
           L == Len(buffer)
<1>1. left = slide_window(buffer, n)
  BY DEF slide_window
<1>2. L \in Nat /\ DOMAIN buffer = 1 .. L /\ L <= WINDOW_SIZE
  BY LenProperties DEF IsWindow
<1>3. c \in Nat /\ c >= 1 /\ c <= L + ACK_HORIZON
  BY DistStep, SeqModAssumption, SMT
<1>4. ASSUME NEW i \in 1 .. L
      PROVE  i \in I <=> L - i + 1 < c
  <2> DEFINE m == buffer[i].seq_num
             a == Dist(m, next)
  <2>1. m \in SeqNum /\ a = L - i + 1
    <3>1. buffer[i] \in Element
      BY <1>2, ElementOfSeq
    <3> QED
      BY <1>2, <3>1 DEF Element, IsWindow
  <2>2. i \in I <=> tloe_seqnum_cmp(m, n) > 0
    BY <1>2
  <2>3. a \in Nat /\ a >= 1 /\ a <= L
    BY <1>2, <2>1, SMT
  <2> HIDE DEF m, I
  <2>4. CASE a < c
    <3>1. Dist(n, m) = c - a
      BY <1>3, <2>1, <2>3, <2>4, DistSum, SMT
    <3>2. Dist(n, m) \in 1 .. HALF_MAX_SEQ_NUM - 1
      BY <1>2, <1>3, <2>3, <2>4, <3>1, Sizes, SMT
    <3>3. tloe_seqnum_cmp(m, n) = 1
      BY <2>1, <3>2, CmpIsOrder
    <3> QED
      BY <2>1, <2>2, <2>4, <3>3, SMT
  <2>5. CASE a = c
    <3>1. Dist(m, n) = 0
      BY <1>3, <2>1, <2>3, <2>5, DistSum, SMT
    <3>2. tloe_seqnum_cmp(m, n) = 0
      BY <2>1, <3>1, CmpIsOrder
    <3> QED
      BY <1>3, <2>1, <2>2, <2>5, <3>2, SMT
  <2>6. CASE a > c
    <3>1. Dist(m, n) = a - c
      BY <1>3, <2>1, <2>3, <2>6, DistSum, SMT
    <3>2. Dist(m, n) \in 1 .. HALF_MAX_SEQ_NUM - 1
      BY <1>2, <1>3, <2>3, <2>6, <3>1, Sizes, SMT
    <3>3. tloe_seqnum_cmp(m, n) = -1
      BY <2>1, <3>2, CmpIsOrder
    <3> QED
      BY <1>3, <2>1, <2>2, <2>3, <2>6, <3>3, SMT
  <2> QED
    BY <1>3, <2>3, <2>4, <2>5, <2>6, SMT
<1>5. I \subseteq 1 .. L
  BY <1>2
<1>6. left \in Seq(Element)
      /\ \A i \in 1 .. Len(left) : left[i] = buffer[Len(buffer) - Len(left) + i]
  <2>1. I \subseteq DOMAIN buffer
    OBVIOUS
  <2> HIDE DEF I
  <2> QED
    BY <2>1, SuffixFromType
<1>7. Len(left) = IF c <= L THEN c - 1 ELSE L
  <2> HIDE DEF c, I
  <2>1. CASE I = {}
    <3>1. Len(left) = 0
      BY <2>1 DEF SuffixFrom
    <3>2. L = 0 \/ L \notin I
      BY <2>1
    <3>3. L = 0 \/ ~(L - L + 1 < c)
      <4>1. L # 0 => L \in 1 .. L
        BY <1>2, SMT
      <4> QED
        BY <1>4, <3>2, <4>1
    <3> QED
      BY <1>2, <1>3, <3>1, <3>3, SMT
  <2>2. CASE I # {}
    <3> DEFINE m == CHOOSE i \in I : \A j \in I : i <= j
    <3>1. m \in I /\ \A j \in I : m <= j
      <4>1. I \subseteq Nat
        BY <1>2, <1>5, SMT
      <4> QED
        BY <2>2, <4>1, NatMin
    <3>2. left = SubSeq(buffer, m, L)
      BY <2>2 DEF SuffixFrom
    <3> HIDE DEF m
    <3>3. m \in 1 .. L /\ L - m + 1 < c
      BY <1>4, <1>5, <3>1
    <3>4. Len(left) = L - m + 1
      <4>1. m \in Int /\ L \in Int /\ m <= L
        BY <1>2, <3>3, SMT
      <4>2. \A i \in m .. L : buffer[i] \in Element
        BY <1>2, <3>3, ElementOfSeq, SMT
      <4>3. Len(SubSeq(buffer, m, L)) = IF m <= L THEN L - m + 1 ELSE 0
        BY <4>1, <4>2, SubSeqProperties
      <4> QED
        BY <3>2, <4>1, <4>3
    <3>5. m = 1 \/ ~(L - (m - 1) + 1 < c)
      <4>1. m # 1 => m - 1 \in 1 .. L /\ ~(m <= m - 1)
        BY <1>2, <3>3, SMT
      <4>2. m # 1 => m - 1 \notin I
        BY <3>1, <4>1
      <4> QED
        BY <1>4, <4>1, <4>2
    <3> QED
      BY <1>2, <1>3, <3>3, <3>4, <3>5, SMT
  <2> QED
    BY <2>1, <2>2
<1> QED
  BY <1>1, <1>6, <1>7

\* The sender takes the oldest acknowledgement and slides its window.
LEMMA LinkSlides ==
  ASSUME NEW next \in SeqNum, NEW expected \in SeqNum, NEW buffer \in Seq(Element),
         IsWindow(buffer, next), NEW frames \in Seq(Frame),
         NEW acks \in Seq(Frame), acks # <<>>, NEW reports,
         Link(next, expected, buffer, frames, acks, reports)
  PROVE  Link(next, expected, slide_window(buffer, Head(acks).seq_num_ack),
              frames, Tail(acks), reports)
<1> DEFINE missing == Dist(expected, next)
           n == Head(acks).seq_num_ack
           c == Dist(n, next)
           left == slide_window(buffer, n)
<1>1. /\ missing <= Len(buffer)
      /\ NumbersInOrder(frames, next, missing, WINDOW_SIZE)
      /\ Copies(frames, next, missing, buffer)
      /\ AcksInOrder(acks, next, missing, Len(buffer))
      /\ \A i \in DOMAIN reports : reports[i].seq_num_ack # expected
  BY DEF Link
<1>2. missing \in Nat
  BY MissingType
<1>3. n \in SeqNum /\ c \in Nat /\ c \in missing + 1 .. Len(buffer) + ACK_HORIZON
  BY <1>1, TailElements, FrameNumbers DEF AcksInOrder
<1>4. Len(buffer) \in Nat /\ Len(buffer) <= WINDOW_SIZE
  BY LenProperties DEF IsWindow
<1> HIDE DEF n
<1>5. /\ left \in Seq(Element)
      /\ Len(left) = IF c <= Len(buffer) THEN c - 1 ELSE Len(buffer)
      /\ \A i \in 1 .. Len(left) : left[i] = buffer[Len(buffer) - Len(left) + i]
  <2>1. c >= 1 /\ c <= Len(buffer) + ACK_HORIZON
    BY <1>2, <1>3, <1>4, Sizes, SMT
  <2> QED
    BY <1>3, <2>1, SlidesExactly
<1>6. Len(left) \in Nat
  BY <1>5, LenProperties
<1>7. AcksInOrder(Tail(acks), next, missing, Len(left))
  BY <1>1, <1>2, <1>4, <1>5, <1>6, AcksSlide DEF n
<1> HIDE DEF left, missing, c
<1>8. missing <= Len(left) /\ Len(left) <= Len(buffer)
  BY <1>1, <1>2, <1>3, <1>4, <1>5, Sizes, SMT
<1>9. Copies(frames, next, missing, left)
  <2>1. ASSUME NEW i \in DOMAIN frames, Numbered(frames[i]),
               Dist(frames[i].seq_num, next) <= missing
        PROVE  ElementOf(frames[i]) = left[Len(left) - Dist(frames[i].seq_num, next) + 1]
    <3> DEFINE a == Dist(frames[i].seq_num, next)
               k == Len(left) - a + 1
    <3>1. ElementOf(frames[i]) = buffer[Len(buffer) - a + 1]
      BY <1>1, <2>1 DEF Copies
    <3>2. a \in Nat /\ a >= 1
      <4>1. a \in 1 .. missing + WINDOW_SIZE
        BY <1>1, <2>1 DEF NumbersInOrder
      <4> HIDE DEF a
      <4> QED
        BY <1>2, <4>1, Sizes, SMT
    <3>3. a <= missing
      BY <2>1
    <3> HIDE DEF a
    <3>4. k \in 1 .. Len(left) /\ Len(buffer) - Len(left) + k = Len(buffer) - a + 1
      BY <1>2, <1>4, <1>6, <1>8, <3>2, <3>3, SMT
    <3> HIDE DEF k
    <3>5. ElementOf(frames[i]) = left[k]
      BY <1>5, <3>1, <3>4
    <3> QED
      BY <3>5 DEF a, k
  <2> QED
    BY <2>1 DEF Copies
<1> QED
  BY <1>1, <1>7, <1>8, <1>9 DEF Link, missing, left, n

-----------------------------------------------------------------------------
(***************************************************************************)
(* The frames TX and RX send                                                *)
(***************************************************************************)
\* Frames a process may send: numbered ones are in its window, and all
\* acknowledge a frame it accepted lately.
Proper(frames, buffer, expected) ==
    /\ frames \in Seq(Frame)
    /\ \A k \in DOMAIN frames :
          /\ Numbered(frames[k]) => \E i \in DOMAIN buffer : ElementOf(frames[k]) = buffer[i]
          /\ Dist(frames[k].seq_num_ack, expected) \in 1 .. ACK_HORIZON

LEMMA ProperConcat ==
  ASSUME NEW buffer, NEW expected, NEW a, NEW b,
         Proper(a, buffer, expected), Proper(b, buffer, expected)
  PROVE  Proper(a \o b, buffer, expected)
<1> DEFINE all == a \o b
<1>1. a \in Seq(Frame) /\ b \in Seq(Frame)
  BY DEF Proper
<1>2. /\ Len(a) \in Nat /\ DOMAIN a = 1 .. Len(a)
      /\ Len(b) \in Nat /\ DOMAIN b = 1 .. Len(b)
  BY <1>1, LenProperties
<1>3. /\ all \in Seq(Frame) /\ Len(all) = Len(a) + Len(b)
      /\ \A k \in 1 .. Len(a) + Len(b) :
            all[k] = IF k <= Len(a) THEN a[k] ELSE b[k - Len(a)]
  BY <1>1, ConcatProperties
<1>4. DOMAIN all = 1 .. Len(all)
  BY <1>3, LenProperties
<1> HIDE DEF all
<1>5. ASSUME NEW k \in DOMAIN all
      PROVE  \/ k \in DOMAIN a /\ all[k] = a[k]
             \/ k - Len(a) \in DOMAIN b /\ all[k] = b[k - Len(a)]
  <2>1. k \in 1 .. Len(a) + Len(b)
    BY <1>3, <1>4
  <2>2. (k <= Len(a) => k \in 1 .. Len(a)) /\ (~(k <= Len(a)) => k - Len(a) \in 1 .. Len(b))
    BY <1>2, <2>1, SMT
  <2> QED
    BY <1>2, <1>3, <2>1, <2>2
<1> QED
  BY <1>3, <1>5 DEF Proper, all

LEMMA ProperOne ==
  ASSUME NEW buffer, NEW expected, NEW f \in Frame,
         Numbered(f) => \E i \in DOMAIN buffer : ElementOf(f) = buffer[i],
         Dist(f.seq_num_ack, expected) \in 1 .. ACK_HORIZON
  PROVE  Proper(<<f>>, buffer, expected)
<1>1. <<f>> \in Seq(Frame) /\ DOMAIN <<f>> = {1} /\ <<f>>[1] = f
  BY SMT
<1> QED
  BY <1>1, Zenon DEF Proper

LEMMA ProperNone ==
  ASSUME NEW buffer, NEW expected
  PROVE  Proper(<<>>, buffer, expected)
<1>1. <<>> \in Seq(Frame) /\ DOMAIN <<>> = {}
  BY EmptySeq, SMT
<1> QED
  BY <1>1 DEF Proper

\* The last number accepted.
LEMMA LastAccepted ==
  ASSUME NEW expected \in SeqNum
  PROVE  Dist(tloe_seqnum_prev(expected), expected) = 1 /\ 1 \in 1 .. ACK_HORIZON
<1>1. Dist(tloe_seqnum_prev(expected), expected) = 1
  BY SeqModAssumption, SMT DEF SeqNum, Dist, MAX_SEQ_NUM, tloe_seqnum_prev
<1> QED
  BY <1>1, Sizes, SMT

\* Retransmission sends elements of the window (retransmit).
LEMMA ProperRetransmit ==
  ASSUME TypeOK, NEW e \in Endpoint, NEW buffer \in Seq(Element), NEW n
  PROVE  Proper(retransmit(e, buffer, n), buffer, next_rx_seq[e])
<1> DEFINE I == {i \in DOMAIN buffer : tloe_seqnum_cmp(buffer[i].seq_num, n) >= 0}
           again == SuffixFrom(buffer, I)
           frames == retransmit(e, buffer, n)
           frame(k) == [type |-> "NORMAL", seq_num |-> again[k].seq_num,
                        seq_num_ack |-> tloe_seqnum_prev(next_rx_seq[e]), ack |-> "ACK",
                        tlmsg |-> again[k].tlmsg, chan |-> again[k].chan,
                        credit |-> again[k].credit]
<1>1. frames \in Seq(Frame)
  BY RetransmitType
<1>2. /\ again \in Seq(Element) /\ Len(again) <= Len(buffer)
      /\ \A i \in 1 .. Len(again) : again[i] = buffer[Len(buffer) - Len(again) + i]
  <2>1. I \subseteq DOMAIN buffer
    OBVIOUS
  <2> HIDE DEF I
  <2> QED
    BY <2>1, SuffixFromType
<1>3. frames = [k \in DOMAIN again |-> frame(k)]
  BY DEF retransmit
<1> HIDE DEF again, frames
<1>4. /\ Len(again) \in Nat /\ DOMAIN again = 1 .. Len(again)
      /\ Len(buffer) \in Nat /\ DOMAIN buffer = 1 .. Len(buffer)
  BY <1>2, LenProperties
<1>5. ASSUME NEW k \in DOMAIN frames
      PROVE  /\ \E i \in DOMAIN buffer : ElementOf(frames[k]) = buffer[i]
             /\ Dist(frames[k].seq_num_ack, next_rx_seq[e]) \in 1 .. ACK_HORIZON
  <2> DEFINE i == Len(buffer) - Len(again) + k
  <2>1. k \in DOMAIN again /\ frames[k] = frame(k)
    BY <1>3
  <2>2. i \in DOMAIN buffer /\ again[k] = buffer[i]
    BY <1>2, <1>4, <2>1, SMT
  <2>3. again[k] \in Element
    BY <1>2, <1>4, <2>1, ElementOfSeq
  <2>4. ElementOf(frames[k]) = again[k]
    BY <2>1, <2>3, SMT DEF ElementOf, Element
  <2>5. frames[k].seq_num_ack = tloe_seqnum_prev(next_rx_seq[e])
    BY <2>1
  <2> HIDE DEF frame, i
  <2>6. Dist(frames[k].seq_num_ack, next_rx_seq[e]) \in 1 .. ACK_HORIZON
    <3>1. next_rx_seq[e] \in SeqNum
      BY DEF TypeOK
    <3> QED
      BY <2>5, <3>1, LastAccepted
  <2> QED
    BY <2>2, <2>4, <2>6
<1> QED
  BY <1>1, <1>5 DEF Proper, frames

\* Everything a path through TX sends.
LEMMA ProperTX ==
  ASSUME TypeOK, NEW e \in Endpoint, NEW elapsed, NEW buffer \in Seq(Element),
         NEW frames, Proper(frames, buffer, next_rx_seq[e])
  PROVE  Proper(AckOnlyFrames(e, elapsed) \o frames \o TimeoutFrames(e, elapsed, buffer),
                buffer, next_rx_seq[e])
<1> DEFINE R == next_rx_seq[e]
<1>1. R \in SeqNum /\ next_tx_seq[e] \in SeqNum
  BY DEF TypeOK
<1>2. Proper(<<AckOnlyFrame(e)>>, buffer, R)
  <2> DEFINE f == AckOnlyFrame(e)
  <2>1. f \in Frame
    BY <1>1, NextPrev, SMT DEF AckOnlyFrame, Frame
  <2>2. ~Numbered(f) /\ f.seq_num_ack = tloe_seqnum_prev(R)
    BY DEF AckOnlyFrame, Numbered
  <2>3. Dist(f.seq_num_ack, R) \in 1 .. ACK_HORIZON
    BY <1>1, <2>2, LastAccepted
  <2> QED
    BY <2>1, <2>2, <2>3, ProperOne
<1>3. Proper(<<>>, buffer, R)
  BY ProperNone
<1>4. Proper(AckOnlyFrames(e, elapsed), buffer, R)
  BY <1>2, <1>3, ProperConcat DEF AckOnlyFrames
<1>5. Proper(TimeoutFrames(e, elapsed, buffer), buffer, R)
  BY <1>3, ProperRetransmit DEF TimeoutFrames
<1> QED
  BY <1>4, <1>5, ProperConcat

-----------------------------------------------------------------------------
(***************************************************************************)
(* Each action keeps both directions                                        *)
(***************************************************************************)
LinkFrom(e) ==
    Link(next_tx_seq[e], next_rx_seq[Peer(e)], retransmit_buffer[e],
         fabric[Peer(e)], fabric[e], ack_buffer[Peer(e)])

LEMMA Peers ==
  ASSUME NEW e \in Endpoint
  PROVE  /\ Peer(e) \in Endpoint /\ Peer(e) # e /\ Peer(Peer(e)) = e
         /\ \A d \in Endpoint : d = e \/ d = Peer(e)
  BY EndpointAssumption DEF Peer, Endpoint

\* An endpoint's part of the state, typed.
LEMMA LinkTypes ==
  ASSUME TypeOK, WindowInv, NEW e \in Endpoint
  PROVE  /\ next_tx_seq[e] \in SeqNum /\ next_rx_seq[e] \in SeqNum
         /\ retransmit_buffer[e] \in Seq(Element) /\ fabric[e] \in Seq(Frame)
         /\ ack_buffer[e] \in Seq(AckEntry)
         /\ IsWindow(retransmit_buffer[e], next_tx_seq[e])
         /\ Len(retransmit_buffer[e]) \in Nat
         /\ Len(retransmit_buffer[e]) <= WINDOW_SIZE
<1>1. retransmit_buffer[e] \in Seq(Element)
  BY DEF TypeOK
<1> QED
  BY <1>1, LenProperties DEF TypeOK, WindowInv, IsWindow

\* The two directions of e make up LinkInv.
LEMMA BothDirections ==
  ASSUME NEW e \in Endpoint, LinkFrom(e)', LinkFrom(Peer(e))'
  PROVE  LinkInv'
<1>1. ASSUME NEW d \in Endpoint PROVE LinkFrom(d)'
  BY Peers
<1> QED
  BY <1>1 DEF LinkInv, LinkFrom

\* What a path through TX sends reaches both directions at once: the peer gets
\* frames, and acknowledgements of its own.
LEMMA LinkTX ==
  ASSUME TypeOK, WindowInv, LinkInv, NEW e \in Endpoint, NEW elapsed,
         NEW next \in SeqNum, NEW buffer \in Seq(Element), NEW frames, NEW reports,
         IsWindow(buffer, next),
         Link(next, next_rx_seq[Peer(e)], buffer, fabric[Peer(e)], fabric[e],
              ack_buffer[Peer(e)]),
         \A i \in DOMAIN reports : reports[i].seq_num_ack # next_rx_seq[e],
         Proper(frames, buffer, next_rx_seq[e]),
         TX(e, elapsed, buffer, frames),
         next_tx_seq' = [next_tx_seq EXCEPT ![e] = next],
         ack_buffer' = [ack_buffer EXCEPT ![e] = reports]
  PROVE  LinkInv'
<1> DEFINE p == Peer(e)
           sent == AckOnlyFrames(e, elapsed) \o frames \o TimeoutFrames(e, elapsed, buffer)
<1>1. p \in Endpoint /\ p # e /\ Peer(p) = e
  BY Peers
<1>2. /\ fabric[p] \in Seq(Frame) /\ fabric[e] \in Seq(Frame)
      /\ next_rx_seq[p] \in SeqNum /\ next_rx_seq[e] \in SeqNum /\ next_tx_seq[p] \in SeqNum
      /\ Len(retransmit_buffer[p]) \in Nat /\ Len(retransmit_buffer[p]) <= WINDOW_SIZE
  BY <1>1, LinkTypes
<1>3. Proper(sent, buffer, next_rx_seq[e])
  BY ProperTX
<1>4. /\ retransmit_buffer' = [retransmit_buffer EXCEPT ![e] = buffer]
      /\ fabric' = [fabric EXCEPT ![p] = SendAll(fabric[p], sent)]
      /\ next_rx_seq' = next_rx_seq
  BY DEF TX
<1> HIDE DEF sent, p
<1>5. /\ retransmit_buffer'[e] = buffer /\ retransmit_buffer'[p] = retransmit_buffer[p]
      /\ fabric'[p] = SendAll(fabric[p], sent) /\ fabric'[e] = fabric[e]
      /\ next_tx_seq'[e] = next /\ next_tx_seq'[p] = next_tx_seq[p]
      /\ ack_buffer'[e] = reports /\ ack_buffer'[p] = ack_buffer[p]
  BY <1>1, <1>4 DEF TypeOK
<1>6. sent \in Seq(Frame) /\ fabric[p] \o sent \in Seq(Frame)
  BY <1>2, <1>3, ConcatProperties DEF Proper
<1>7. Thinned(SendAll(fabric[p], sent), fabric[p] \o sent) /\ Thinned(fabric[e], fabric[e])
  BY <1>2, <1>6, SendAllThins, SameThins
<1>8. LinkFrom(e)'
  <2>1. Link(next, next_rx_seq[p], buffer, fabric[p], fabric[e], ack_buffer[p])
    BY DEF p
  <2>2. \A k \in DOMAIN sent : Numbered(sent[k]) =>
           \E i \in DOMAIN buffer : ElementOf(sent[k]) = buffer[i]
    BY <1>3 DEF Proper
  <2>3. Link(next, next_rx_seq[p], buffer, fabric[p] \o sent, fabric[e], ack_buffer[p])
    BY <1>2, <1>6, <2>1, <2>2, LinkSends
  <2>4. Link(next, next_rx_seq[p], buffer, SendAll(fabric[p], sent), fabric[e], ack_buffer[p])
    BY <1>7, <2>3, LinkThins
  <2> QED
    BY <1>4, <1>5, <2>4 DEF LinkFrom, p
<1>9. LinkFrom(p)'
  <2>1. Link(next_tx_seq[p], next_rx_seq[e], retransmit_buffer[p], fabric[e], fabric[p],
             reports)
    <3>1. Link(next_tx_seq[p], next_rx_seq[e], retransmit_buffer[p], fabric[e], fabric[p],
               ack_buffer[e])
      BY <1>1 DEF LinkInv
    <3> QED
      BY <3>1 DEF Link
  <2>2. \A k \in DOMAIN sent : Dist(sent[k].seq_num_ack, next_rx_seq[e]) \in 1 .. ACK_HORIZON
    BY <1>3 DEF Proper
  <2>3. Link(next_tx_seq[p], next_rx_seq[e], retransmit_buffer[p], fabric[e],
             fabric[p] \o sent, reports)
    BY <1>2, <1>6, <2>1, <2>2, LinkAcks
  <2>4. Link(next_tx_seq[p], next_rx_seq[e], retransmit_buffer[p], fabric[e],
             SendAll(fabric[p], sent), reports)
    BY <1>7, <2>3, LinkThins
  <2> QED
    BY <1>1, <1>4, <1>5, <2>4 DEF LinkFrom
<1> QED
  BY <1>8, <1>9, BothDirections DEF p

\* The acknowledgement in the frame TX makes, and what is left of ack_buffer.
LEMMA FrameAcknowledges ==
  ASSUME TypeOK, WindowInv, LinkInv, AckBufferFresh, NEW e \in Endpoint
  PROVE  LET entries == ack_buffer[e]
             reports == IF entries = <<>> THEN entries ELSE Tail(entries)
         IN  /\ Dist(FrameToSend(e).seq_num_ack, next_rx_seq[e]) \in 1 .. ACK_HORIZON
             /\ \A i \in DOMAIN reports : reports[i].seq_num_ack # next_rx_seq[e]
<1> DEFINE entries == ack_buffer[e]
           reports == IF entries = <<>> THEN entries ELSE Tail(entries)
           R == next_rx_seq[e]
<1>1. R \in SeqNum /\ entries \in Seq(AckEntry)
  BY LinkTypes
<1>2. ASSUME NEW i \in DOMAIN entries
      PROVE  /\ entries[i].seq_num_ack # R
             /\ Dist(entries[i].seq_num_ack, R) \in 1 .. ACK_HORIZON
  <2> DEFINE n == entries[i].seq_num_ack
  <2>1. n \in SeqNum
    <3>1. entries[i] \in AckEntry
      BY <1>1, LenProperties, ElementOfSeq
    <3> QED
      BY <3>1 DEF AckEntry
  <2>2. n # R
    BY Peers DEF LinkInv, Link
  <2>3. Dist(n, R) <= ACK_HORIZON
    BY DEF AckBufferFresh
  <2>4. Dist(n, R) # 0 /\ Dist(n, R) \in Nat
    BY <1>1, <2>1, <2>2, DistSum, DistStep, SeqModAssumption, SMT
  <2>5. Dist(n, R) \in 1 .. ACK_HORIZON
    BY <2>3, <2>4, Sizes, SMT
  <2> QED
    BY <2>2, <2>5
<1>3. FrameToSend(e).seq_num_ack =
         IF entries = <<>> THEN tloe_seqnum_prev(R) ELSE Head(entries).seq_num_ack
  BY DEF FrameToSend
<1> HIDE DEF entries, R
<1>4. CASE entries = <<>>
  <2>1. Dist(FrameToSend(e).seq_num_ack, R) \in 1 .. ACK_HORIZON
    BY <1>1, <1>3, <1>4, LastAccepted
  <2> QED
    BY <1>2, <1>4, <2>1 DEF entries, R
<1>5. CASE entries # <<>>
  <2> DEFINE t == Tail(entries)
  <2>1. /\ Head(entries) = entries[1]
        /\ t \in Seq(AckEntry) /\ Len(t) = Len(entries) - 1
        /\ \A i \in 1 .. Len(t) : t[i] = entries[i + 1]
    BY <1>1, <1>5, HeadTailProperties
  <2>2. /\ DOMAIN entries = 1 .. Len(entries) /\ Len(entries) \in Nat
        /\ DOMAIN t = 1 .. Len(t) /\ Len(t) \in Nat
    BY <1>1, <2>1, LenProperties
  <2> HIDE DEF t
  <2>3. 1 \in DOMAIN entries /\ \A i \in DOMAIN t : i + 1 \in DOMAIN entries
    BY <2>1, <2>2, SMT
  <2>4. Dist(FrameToSend(e).seq_num_ack, R) \in 1 .. ACK_HORIZON
    BY <1>2, <1>3, <1>5, <2>1, <2>3
  <2>5. \A i \in DOMAIN t : t[i].seq_num_ack # R
    BY <1>2, <2>1, <2>2, <2>3
  <2> QED
    BY <1>5, <2>4, <2>5 DEF entries, R, t
<1> QED
  BY <1>4, <1>5

LEMMA LinkTransmit ==
  ASSUME TypeOK, WindowInv, LinkInv, AckBufferFresh, NEW e \in Endpoint, NEW elapsed,
         Transmit(e, elapsed)
  PROVE  LinkInv'
<1> DEFINE N == next_tx_seq[e]
           B == retransmit_buffer[e]
           f == FrameToSend(e)
           entries == ack_buffer[e]
           reports == IF entries = <<>> THEN entries ELSE Tail(entries)
<1>1. /\ N \in SeqNum /\ B \in Seq(Element) /\ IsWindow(B, N) /\ Len(B) \in Nat
      /\ next_rx_seq[e] \in SeqNum /\ next_rx_seq[Peer(e)] \in SeqNum
      /\ fabric[e] \in Seq(Frame) /\ fabric[Peer(e)] \in Seq(Frame)
  BY LinkTypes, Peers
<1>2. Link(N, next_rx_seq[Peer(e)], B, fabric[Peer(e)], fabric[e], ack_buffer[Peer(e)])
  BY DEF LinkInv
<1>3. \A i \in DOMAIN entries : entries[i].seq_num_ack # next_rx_seq[e]
  BY Peers DEF LinkInv, Link
<1>4. /\ Dist(f.seq_num_ack, next_rx_seq[e]) \in 1 .. ACK_HORIZON
      /\ \A i \in DOMAIN reports : reports[i].seq_num_ack # next_rx_seq[e]
  BY FrameAcknowledges
<1>5. f \in Frame /\ ElementOf(f) \in Element /\ ElementOf(f).seq_num = N
  BY FrameToSendType DEF ElementOf
<1>6. Proper(<<>>, B, next_rx_seq[e])
  BY ProperNone
<1> HIDE DEF f
<1>7. CASE TX_Nothing(e, elapsed)
  <2>1. /\ TX(e, elapsed, B, <<>>)
        /\ next_tx_seq' = [next_tx_seq EXCEPT ![e] = N]
        /\ ack_buffer' = [ack_buffer EXCEPT ![e] = entries]
    BY <1>7 DEF TX_Nothing, TypeOK
  <2> HIDE DEF N, B, entries
  <2> QED
    BY <1>1, <1>2, <1>3, <1>6, <2>1, LinkTX
<1>8. CASE TX_AllocFailed(e, elapsed)
  <2>1. /\ TX(e, elapsed, B, <<>>)
        /\ next_tx_seq' = [next_tx_seq EXCEPT ![e] = N]
        /\ ack_buffer' = [ack_buffer EXCEPT ![e] = reports]
    BY <1>8 DEF TX_AllocFailed, MakeFrame, TypeOK
  <2> HIDE DEF N, B, reports
  <2> QED
    BY <1>1, <1>2, <1>4, <1>6, <2>1, LinkTX
<1>9. CASE TX_Send(e, elapsed)
  <2> DEFINE x == ElementOf(f)
             longer == Append(B, x)
             next == tloe_seqnum_next(N)
  <2>1. /\ TX(e, elapsed, longer, <<f>>)
        /\ next_tx_seq' = [next_tx_seq EXCEPT ![e] = next]
        /\ ack_buffer' = [ack_buffer EXCEPT ![e] = reports]
        /\ Len(B) # WINDOW_SIZE
    BY <1>9 DEF TX_Send, MakeFrame, NothingToSend, WindowFull, f
  <2>2. Len(B) < WINDOW_SIZE
    <3>1. Len(B) <= WINDOW_SIZE
      BY <1>1 DEF IsWindow
    <3> HIDE DEF B
    <3> QED
      BY <1>1, <2>1, <3>1, Sizes, SMT
  <2>3. next \in SeqNum
    BY <1>1, NextPrev
  <2>4. /\ longer \in Seq(Element) /\ Len(longer) = Len(B) + 1
        /\ longer[Len(B) + 1] = x
    BY <1>1, <1>5, AppendProperties
  <2> HIDE DEF N, B, reports, x
  <2>5. IsWindow(longer, next)
    BY <1>1, <1>5, <2>1, WindowGrows DEF x
  <2>6. Link(next, next_rx_seq[Peer(e)], longer, fabric[Peer(e)], fabric[e],
             ack_buffer[Peer(e)])
    BY <1>1, <1>2, <1>5, <2>2, LinkNext DEF x
  <2>7. Proper(<<f>>, longer, next_rx_seq[e])
    <3>1. Len(B) + 1 \in DOMAIN longer
      <4>1. DOMAIN longer = 1 .. Len(longer)
        BY <2>4, LenProperties
      <4> HIDE DEF longer
      <4> QED
        BY <1>1, <2>4, <4>1, SMT
    <3> HIDE DEF longer
    <3>2. \E i \in DOMAIN longer : ElementOf(f) = longer[i]
      BY <2>4, <3>1 DEF x
    <3> QED
      BY <1>4, <1>5, <3>2, ProperOne
  <2> HIDE DEF longer, next
  <2> QED
    BY <1>4, <2>1, <2>3, <2>4, <2>5, <2>6, <2>7, LinkTX
<1> QED
  BY <1>7, <1>8, <1>9 DEF Transmit

\* What RX does before it looks at the number of the frame: the window of e
\* slides, and what is retransmitted goes to the peer.
LEMMA LinkRX ==
  ASSUME TypeOK, WindowInv, LinkInv, NEW e \in Endpoint, RX(e)
  PROVE  LET p == Peer(e)
         IN  /\ Link(next_tx_seq[e], next_rx_seq[p], retransmit_buffer'[e], fabric'[p],
                     fabric'[e], ack_buffer[p])
             /\ Link(next_tx_seq[p], next_rx_seq[e], retransmit_buffer[p], fabric[e],
                     fabric'[p], ack_buffer[e])
             /\ fabric[e] # <<>> /\ fabric'[e] = Tail(fabric[e])
             /\ fabric'[e] \in Seq(Frame) /\ fabric'[p] \in Seq(Frame)
             /\ retransmit_buffer'[p] = retransmit_buffer[p]
             /\ next_tx_seq' = next_tx_seq
<1> DEFINE p == Peer(e)
           f == Arrived(e)
           left == slide_window(retransmit_buffer[e], f.seq_num_ack)
           again == IF f.ack = "NAK"
                    THEN retransmit(e, left, tloe_seqnum_next(f.seq_num_ack))
                    ELSE <<>>
<1>1. p \in Endpoint /\ p # e /\ Peer(p) = e
  BY Peers
<1>2. /\ next_tx_seq[e] \in SeqNum /\ next_rx_seq[p] \in SeqNum
      /\ next_tx_seq[p] \in SeqNum /\ next_rx_seq[e] \in SeqNum
      /\ retransmit_buffer[e] \in Seq(Element) /\ retransmit_buffer[p] \in Seq(Element)
      /\ IsWindow(retransmit_buffer[e], next_tx_seq[e])
      /\ fabric[e] \in Seq(Frame) /\ fabric[p] \in Seq(Frame)
      /\ Len(retransmit_buffer[p]) \in Nat /\ Len(retransmit_buffer[p]) <= WINDOW_SIZE
  BY <1>1, LinkTypes
<1>3. /\ fabric[e] # <<>> /\ next_tx_seq' = next_tx_seq
      /\ retransmit_buffer' = [retransmit_buffer EXCEPT ![e] = left]
      /\ fabric' = [fabric EXCEPT ![e] = Tail(@), ![p] = SendAll(@, again)]
  BY DEF RX
<1>4. left \in Seq(Element)
  <2> DEFINE buffer == retransmit_buffer[e]
             I == {i \in DOMAIN buffer : tloe_seqnum_cmp(buffer[i].seq_num, f.seq_num_ack) > 0}
  <2>1. left = SuffixFrom(buffer, I)
    BY DEF slide_window
  <2>2. buffer \in Seq(Element) /\ I \subseteq DOMAIN buffer
    BY <1>2
  <2> HIDE DEF I, buffer, left
  <2> QED
    BY <2>1, <2>2, SuffixFromType
<1>5. IsWindow(left, next_tx_seq[e])
  BY <1>2, WindowSlides
<1>6. Link(next_tx_seq[e], next_rx_seq[p], left, fabric[p], Tail(fabric[e]), ack_buffer[p])
  <2>1. Link(next_tx_seq[e], next_rx_seq[p], retransmit_buffer[e], fabric[p], fabric[e],
             ack_buffer[p])
    BY DEF LinkInv
  <2>2. left = slide_window(retransmit_buffer[e], Head(fabric[e]).seq_num_ack)
    BY DEF Arrived
  <2> HIDE DEF left, p
  <2> QED
    BY <1>2, <1>3, <2>1, <2>2, LinkSlides
<1> HIDE DEF left
<1>7. Proper(again, left, next_rx_seq[e])
  BY <1>4, ProperRetransmit, ProperNone
<1> HIDE DEF again, p
<1>8. /\ retransmit_buffer'[e] = left /\ retransmit_buffer'[p] = retransmit_buffer[p]
      /\ fabric'[e] = Tail(fabric[e]) /\ fabric'[p] = SendAll(fabric[p], again)
  BY <1>1, <1>3 DEF TypeOK
<1>9. /\ again \in Seq(Frame) /\ fabric[p] \o again \in Seq(Frame)
      /\ Tail(fabric[e]) \in Seq(Frame) /\ SendAll(fabric[p], again) \in Seq(Frame)
  BY <1>2, <1>3, <1>7, ConcatProperties, HeadTailProperties, SendAllType DEF Proper
<1>10. /\ Thinned(SendAll(fabric[p], again), fabric[p] \o again)
       /\ Thinned(Tail(fabric[e]), Tail(fabric[e])) /\ Thinned(fabric[e], fabric[e])
  BY <1>2, <1>9, SendAllThins, SameThins
<1>11. Link(next_tx_seq[e], next_rx_seq[p], left, SendAll(fabric[p], again),
            Tail(fabric[e]), ack_buffer[p])
  <2>1. \A k \in DOMAIN again : Numbered(again[k]) =>
           \E i \in DOMAIN left : ElementOf(again[k]) = left[i]
    BY <1>7 DEF Proper
  <2>2. Link(next_tx_seq[e], next_rx_seq[p], left, fabric[p] \o again, Tail(fabric[e]),
             ack_buffer[p])
    BY <1>2, <1>4, <1>5, <1>6, <1>9, <2>1, LinkSends DEF p
  <2> QED
    BY <1>10, <2>2, LinkThins
<1>12. Link(next_tx_seq[p], next_rx_seq[e], retransmit_buffer[p], fabric[e],
            SendAll(fabric[p], again), ack_buffer[e])
  <2>1. Link(next_tx_seq[p], next_rx_seq[e], retransmit_buffer[p], fabric[e], fabric[p],
             ack_buffer[e])
    BY <1>1 DEF LinkInv
  <2>2. \A k \in DOMAIN again : Dist(again[k].seq_num_ack, next_rx_seq[e]) \in 1 .. ACK_HORIZON
    BY <1>7 DEF Proper
  <2>3. Link(next_tx_seq[p], next_rx_seq[e], retransmit_buffer[p], fabric[e],
             fabric[p] \o again, ack_buffer[e])
    BY <1>2, <1>9, <2>1, <2>2, LinkAcks
  <2> QED
    BY <1>10, <2>3, LinkThins
<1> QED
  BY <1>3, <1>8, <1>9, <1>11, <1>12 DEF p

\* The frame was not the expected one, and the last of the reports may be new.
LEMMA LinkNotAccepted ==
  ASSUME TypeOK, WindowInv, LinkInv, NEW e \in Endpoint, RX(e),
         UNCHANGED next_rx_seq, NEW reports,
         ack_buffer' = [ack_buffer EXCEPT ![e] = reports],
         \A i \in DOMAIN reports : reports[i].seq_num_ack # next_rx_seq[e]
  PROVE  LinkInv'
<1> DEFINE p == Peer(e)
<1>1. p \in Endpoint /\ p # e /\ Peer(p) = e
  BY Peers
<1>2. /\ Link(next_tx_seq[e], next_rx_seq[p], retransmit_buffer'[e], fabric'[p],
              fabric'[e], ack_buffer[p])
      /\ Link(next_tx_seq[p], next_rx_seq[e], retransmit_buffer[p], fabric[e],
              fabric'[p], ack_buffer[e])
      /\ fabric[e] # <<>> /\ fabric'[e] = Tail(fabric[e]) /\ fabric'[p] \in Seq(Frame)
      /\ retransmit_buffer'[p] = retransmit_buffer[p] /\ next_tx_seq' = next_tx_seq
  BY LinkRX
<1> HIDE DEF p
<1>3. ack_buffer'[p] = ack_buffer[p] /\ ack_buffer'[e] = reports
  BY <1>1 DEF TypeOK
<1>4. LinkFrom(e)'
  BY <1>2, <1>3 DEF LinkFrom, p
<1>5. LinkFrom(p)'
  <2>1. Link(next_tx_seq[p], next_rx_seq[e], retransmit_buffer[p], fabric[e], fabric'[p],
             reports)
    BY <1>2 DEF Link
  <2>2. Thinned(Tail(fabric[e]), fabric[e]) /\ Thinned(fabric'[p], fabric'[p])
    BY <1>2, TailThins, SameThins DEF TypeOK
  <2>3. Link(next_tx_seq[p], next_rx_seq[e], retransmit_buffer[p], Tail(fabric[e]), fabric'[p],
             reports)
    BY <2>1, <2>2, LinkThins
  <2> QED
    BY <1>1, <1>2, <1>3, <2>3 DEF LinkFrom
<1> QED
  BY <1>4, <1>5, BothDirections DEF p

\* An entry names a number that has gone by.
LEMMA LinkReport ==
  ASSUME TypeOK, WindowInv, LinkInv, NEW e \in Endpoint, RX(e), NEW entry \in AckEntry,
         entry.seq_num_ack # next_rx_seq[e], Report(e, entry)
  PROVE  LinkInv'
<1> DEFINE entries == ack_buffer[e]
<1>1. \A i \in DOMAIN entries : entries[i].seq_num_ack # next_rx_seq[e]
  BY Peers DEF LinkInv, Link
<1>2. UNCHANGED next_rx_seq
  BY DEF Report
<1>3. CASE UNCHANGED ack_buffer
  <2>1. ack_buffer' = [ack_buffer EXCEPT ![e] = entries]
    BY <1>3 DEF TypeOK
  <2> QED
    BY <1>1, <1>2, <2>1, LinkNotAccepted
<1>4. CASE ack_buffer' = [ack_buffer EXCEPT ![e] = Append(entries, entry)]
  <2> DEFINE longer == Append(entries, entry)
  <2>1. entries \in Seq(AckEntry)
    BY DEF TypeOK
  <2>2. /\ longer \in Seq(AckEntry) /\ Len(longer) = Len(entries) + 1
        /\ \A i \in 1 .. Len(entries) : longer[i] = entries[i]
        /\ longer[Len(entries) + 1] = entry
    BY <2>1, AppendProperties
  <2>3. /\ DOMAIN entries = 1 .. Len(entries) /\ Len(entries) \in Nat
        /\ DOMAIN longer = 1 .. Len(longer)
    BY <2>1, <2>2, LenProperties
  <2> HIDE DEF longer, entries
  <2>4. \A i \in DOMAIN longer : i \in DOMAIN entries \/ i = Len(entries) + 1
    BY <2>2, <2>3, SMT
  <2>5. \A i \in DOMAIN longer : longer[i].seq_num_ack # next_rx_seq[e]
    BY <1>1, <2>2, <2>3, <2>4
  <2> QED
    BY <1>2, <1>4, <2>5, LinkNotAccepted DEF longer
<1> QED
  BY <1>3, <1>4 DEF Report

\* Only the expected frame is accepted, and next_rx_seq moves on by one.
LEMMA AcceptsExpected ==
  ASSUME TypeOK, NEW e \in Endpoint, Accept(e)
  PROVE  /\ RX(e) /\ Numbered(Arrived(e)) /\ Arrived(e).seq_num = next_rx_seq[e]
         /\ UNCHANGED ack_buffer
         /\ next_rx_seq' = [next_rx_seq EXCEPT ![e] = tloe_seqnum_next(next_rx_seq[e])]
<1> DEFINE R == next_rx_seq[e]
           cmp == tloe_seqnum_cmp(Arrived(e).seq_num, R)
<1>1. /\ RX(e) /\ Numbered(Arrived(e))
      /\ tloe_rx_get_req_type(Arrived(e).seq_num, R) = "REQ_NORMAL"
      /\ next_rx_seq' = [next_rx_seq EXCEPT ![e] = tloe_seqnum_next(Arrived(e).seq_num)]
      /\ UNCHANGED ack_buffer
  BY DEF Accept, RX_Class, Numbered
<1>2. Arrived(e).seq_num \in SeqNum /\ R \in SeqNum
  BY <1>1, TypeRX DEF Frame, TypeOK
<1>3. cmp \in {-1, 0, 1}
  BY <1>2, SMT DEF tloe_seqnum_cmp
<1>4. tloe_rx_get_req_type(Arrived(e).seq_num, R)
         = CASE cmp = 0 -> "REQ_NORMAL" [] cmp < 0 -> "REQ_DUPLICATE" [] cmp > 0 -> "REQ_OOS"
  BY DEF tloe_rx_get_req_type
<1> HIDE DEF cmp
<1>5. cmp = 0
  BY <1>1, <1>3, <1>4, SMT
<1>6. Arrived(e).seq_num = R
  BY <1>2, <1>5, CmpIsOrder, DistSum DEF cmp
<1> QED
  BY <1>1, <1>6

LEMMA LinkAccept ==
  ASSUME TypeOK, WindowInv, LinkInv, AckBufferFresh, NEW e \in Endpoint, Accept(e)
  PROVE  LinkInv'
<1> DEFINE p == Peer(e)
           R == next_rx_seq[e]
<1>1. p \in Endpoint /\ p # e /\ Peer(p) = e
  BY Peers
<1>2. RX(e) /\ Numbered(Arrived(e)) /\ Arrived(e).seq_num = R /\ UNCHANGED ack_buffer
      /\ next_rx_seq' = [next_rx_seq EXCEPT ![e] = tloe_seqnum_next(R)]
  BY AcceptsExpected
<1>3. /\ Link(next_tx_seq[e], next_rx_seq[p], retransmit_buffer'[e], fabric'[p],
              fabric'[e], ack_buffer[p])
      /\ Link(next_tx_seq[p], R, retransmit_buffer[p], fabric[e], fabric'[p], ack_buffer[e])
      /\ fabric[e] # <<>> /\ fabric'[e] = Tail(fabric[e]) /\ fabric'[p] \in Seq(Frame)
      /\ retransmit_buffer'[p] = retransmit_buffer[p] /\ next_tx_seq' = next_tx_seq
  BY <1>2, LinkRX
<1>4. /\ next_tx_seq[p] \in SeqNum /\ R \in SeqNum /\ fabric[e] \in Seq(Frame)
      /\ ack_buffer[e] \in Seq(AckEntry)
      /\ Len(retransmit_buffer[p]) \in Nat /\ Len(retransmit_buffer[p]) <= WINDOW_SIZE
  BY <1>1, LinkTypes
<1>5. \A i \in DOMAIN ack_buffer[e] :
         Dist(ack_buffer[e][i].seq_num_ack, R) <= ACK_HORIZON
  BY DEF AckBufferFresh
<1> HIDE DEF p
<1>6. next_rx_seq'[e] = tloe_seqnum_next(R) /\ next_rx_seq'[p] = next_rx_seq[p]
  BY <1>1, <1>2 DEF TypeOK
<1> HIDE DEF R
<1>7. LinkFrom(e)'
  BY <1>2, <1>3, <1>6 DEF LinkFrom, p
<1>8. LinkFrom(p)'
  <2>1. Link(next_tx_seq[p], tloe_seqnum_next(R), retransmit_buffer[p], Tail(fabric[e]),
             fabric'[p], ack_buffer[e])
    BY <1>2, <1>3, <1>4, <1>5, LinkAccepts DEF Arrived
  <2> QED
    BY <1>1, <1>2, <1>3, <1>6, <2>1 DEF LinkFrom
<1> QED
  BY <1>7, <1>8, BothDirections DEF p

LEMMA LinkReceive ==
  ASSUME TypeOK, WindowInv, LinkInv, AckBufferFresh, NEW e \in Endpoint, Receive(e)
  PROVE  LinkInv'
<1> DEFINE f == Arrived(e)
           R == next_rx_seq[e]
<1>1. R \in SeqNum
  BY DEF TypeOK
<1>2. CASE RX_Empty(e)
  BY <1>2 DEF RX_Empty, linkVars, LinkInv
<1>3. CASE RX_AckOnly(e)
  <2>1. RX(e) /\ UNCHANGED <<ack_buffer, next_rx_seq>>
    BY <1>3 DEF RX_AckOnly
  <2>2. ack_buffer' = [ack_buffer EXCEPT ![e] = ack_buffer[e]]
    BY <2>1 DEF TypeOK
  <2>3. \A i \in DOMAIN ack_buffer[e] : ack_buffer[e][i].seq_num_ack # R
    BY Peers DEF LinkInv, Link
  <2> QED
    BY <2>1, <2>2, <2>3, LinkNotAccepted
<1>4. CASE RX_Normal(e) \/ RX_Zero(e)
  BY <1>4, LinkAccept DEF RX_Normal, RX_Zero
<1>5. CASE RX_Duplicate(e)
  <2>1. /\ RX(e) /\ Report(e, [seq_num_ack |-> f.seq_num, ack |-> "ACK"])
        /\ tloe_rx_get_req_type(f.seq_num, R) = "REQ_DUPLICATE"
    BY <1>5 DEF RX_Duplicate, RX_Class
  <2>2. f.seq_num \in SeqNum /\ [seq_num_ack |-> f.seq_num, ack |-> "ACK"] \in AckEntry
    BY <2>1, TypeRX DEF Frame, AckEntry
  <2>3. f.seq_num # R
    <3>1. tloe_rx_get_req_type(R, R) = "REQ_NORMAL"
      BY <1>1, SMT DEF tloe_rx_get_req_type, tloe_seqnum_cmp, SeqNum
    <3> QED
      BY <2>1, <3>1
  <2> QED
    BY <2>1, <2>2, <2>3, LinkReport
<1>6. CASE RX_OutOfSequence(e)
  <2> DEFINE n == tloe_seqnum_prev(R)
  <2>1. RX(e) /\ Report(e, [seq_num_ack |-> n, ack |-> "NAK"])
    BY <1>6 DEF RX_OutOfSequence, RX_Class
  <2>2. n \in SeqNum /\ [seq_num_ack |-> n, ack |-> "NAK"] \in AckEntry
    BY <1>1, NextPrev DEF AckEntry
  <2>3. n # R
    BY <1>1, LastAccepted, DistSum, SMT
  <2> HIDE DEF n
  <2> QED
    BY <2>1, <2>2, <2>3, LinkReport
<1> QED
  BY <1>2, <1>3, <1>4, <1>5, <1>6 DEF Receive

LEMMA LinkLose ==
  ASSUME TypeOK, LinkInv, NEW e \in Endpoint, Lose(e)
  PROVE  LinkInv'
<1> DEFINE p == Peer(e)
           s == fabric[e]
<1>1. p \in Endpoint /\ p # e /\ Peer(p) = e
  BY Peers
<1>2. PICK i \in DOMAIN s :
         fabric' = [fabric EXCEPT ![e] = SubSeq(s, 1, i - 1) \o SubSeq(s, i + 1, Len(s))]
  BY DEF Lose
<1>3. UNCHANGED <<retransmit_buffer, ack_buffer, next_tx_seq, next_rx_seq>>
  BY DEF Lose
<1>4. s \in Seq(Frame) /\ fabric[p] \in Seq(Frame)
  BY <1>1 DEF TypeOK
<1> HIDE DEF s, p
<1>5. fabric'[e] = SubSeq(s, 1, i - 1) \o SubSeq(s, i + 1, Len(s)) /\ fabric'[p] = fabric[p]
  BY <1>1, <1>2 DEF TypeOK
<1>6. Thinned(fabric'[e], s) /\ Thinned(fabric'[p], fabric[p])
  BY <1>4, <1>5, LossThins, SameThins
<1>7. LinkFrom(e)'
  <2>1. Link(next_tx_seq[e], next_rx_seq[p], retransmit_buffer[e], fabric[p], s, ack_buffer[p])
    BY DEF LinkInv, s, p
  <2>2. Link(next_tx_seq[e], next_rx_seq[p], retransmit_buffer[e], fabric'[p], fabric'[e],
             ack_buffer[p])
    BY <1>6, <2>1, LinkThins
  <2> QED
    BY <1>3, <2>2 DEF LinkFrom, p
<1>8. LinkFrom(p)'
  <2>1. Link(next_tx_seq[p], next_rx_seq[e], retransmit_buffer[p], s, fabric[p], ack_buffer[e])
    BY <1>1 DEF LinkInv, s
  <2>2. Link(next_tx_seq[p], next_rx_seq[e], retransmit_buffer[p], fabric'[e], fabric'[p],
             ack_buffer[e])
    BY <1>6, <2>1, LinkThins
  <2> QED
    BY <1>1, <1>3, <2>2 DEF LinkFrom
<1> QED
  BY <1>7, <1>8, BothDirections DEF p

LEMMA LinkInit == Init => LinkInv
<1> SUFFICES ASSUME Init, NEW e \in Endpoint PROVE LinkFrom(e)
  BY DEF LinkInv, LinkFrom
<1> DEFINE p == Peer(e)
<1>1. p \in Endpoint /\ p # e
  BY Peers
<1>2. /\ next_tx_seq[e] = IF e = Master THEN tloe_seqnum_next(FIRST_SEQ) ELSE FIRST_SEQ
      /\ next_rx_seq[p] = IF p = Slave THEN tloe_seqnum_next(FIRST_SEQ) ELSE FIRST_SEQ
      /\ retransmit_buffer[e] = <<>> /\ fabric[p] = <<>> /\ fabric[e] = <<>>
      /\ ack_buffer[p] = <<>>
  BY <1>1 DEF Init
<1>3. next_rx_seq[p] = next_tx_seq[e] /\ next_tx_seq[e] \in SeqNum
  BY <1>1, <1>2, SizeAssumption, NextPrev, EndpointAssumption DEF Peer, Endpoint
<1>4. Dist(next_rx_seq[p], next_tx_seq[e]) = 0
  BY <1>3, DistSum
<1>5. Len(<<>>) = 0 /\ DOMAIN <<>> = {}
  BY SMT
<1> QED
  BY <1>2, <1>4, <1>5 DEF LinkFrom, Link, NumbersInOrder, Copies, AcksInOrder

LEMMA LinkStep ==
  ASSUME TypeOK, WindowInv, LinkInv, AckBufferFresh, [Next]_vars
  PROVE  LinkInv'
<1>1. ASSUME UNCHANGED linkVars PROVE LinkInv'
  BY <1>1 DEF linkVars, LinkInv
<1>2. ASSUME NEW e \in Endpoint, Select(e) \/ Handle(e) PROVE LinkInv'
  <2>1. UNCHANGED linkVars
    BY <1>2 DEF Select, Select_Pending, Select_Response, Select_Request, SelectBuffer,
                Handle, TL_Skip, handle_A_PUTFULLDATA_opcode, handle_A_GET_opcode,
                handle_D_opcode, tl_handler
  <2> QED
    BY <1>1, <2>1
<1>3. ASSUME NEW e \in Endpoint, Worker(e) PROVE LinkInv'
  BY <1>2, <1>3, LinkTransmit, LinkReceive DEF Worker
<1>4. ASSUME NEW e \in Endpoint, Submit(e) PROVE LinkInv'
  BY <1>1, <1>4 DEF Submit
<1>5. ASSUME NEW e \in Endpoint, Lose(e) PROVE LinkInv'
  BY <1>5, LinkLose
<1>6. CASE UNCHANGED vars
  BY <1>1, <1>6 DEF vars
<1> QED
  BY <1>3, <1>4, <1>5, <1>6 DEF Next

-----------------------------------------------------------------------------
(***************************************************************************)
(* Theorems.  []AckBufferFresh is assumed: the code has nothing that keeps  *)
(* an entry of ack_buffer from growing half a ring old, and an entry that   *)
(* old does acknowledge frames still to be sent.                            *)
(***************************************************************************)
\* Both directions stay in order whatever is lost, repeated, retransmitted or
\* not allocated (TX, RX, slide_window, retransmit).
THEOREM LinkCorrect == Spec /\ []AckBufferFresh => []LinkInv
BY LinkInit, LinkStep, TypeCorrect, WindowCorrect, PTL DEF Spec

\* What the receiver waits for is still in the sender's window, or is the next
\* frame to be sent (slide_window against next_rx_seq of the other process).
THEOREM NothingDroppedEarly == Spec /\ []AckBufferFresh => []RetainedUntilReceived
<1>1. LinkInv => RetainedUntilReceived
  BY DEF LinkInv, Link, RetainedUntilReceived
<1> QED
  BY <1>1, LinkCorrect, PTL

\* Every acknowledgement, under way or waiting in ack_buffer, names a frame its
\* sender has accepted, less than half a ring ago (send_ackonly_frame,
\* prepare_normal_frame, serve_duplicate_request, serve_oos_request).
THEOREM AcksAreTrue == Spec /\ []AckBufferFresh => []AckTruthful
<1>1. ASSUME TypeOK, WindowInv, LinkInv, AckBufferFresh PROVE AckTruthful
  <2> SUFFICES ASSUME NEW e \in Endpoint
               PROVE  /\ \A i \in DOMAIN ack_buffer[e] :
                            tloe_seqnum_cmp(ack_buffer[e][i].seq_num_ack, next_rx_seq[e]) = -1
                      /\ \A i \in DOMAIN fabric[Peer(e)] :
                            tloe_seqnum_cmp(fabric[Peer(e)][i].seq_num_ack, next_rx_seq[e]) = -1
    BY DEF AckTruthful
  <2> DEFINE p == Peer(e)
             R == next_rx_seq[e]
             N == next_tx_seq[p]
             kept == Len(retransmit_buffer[p])
             missing == Dist(R, N)
  <2>1. p \in Endpoint /\ Peer(p) = e
    BY Peers
  <2>2. /\ R \in SeqNum /\ N \in SeqNum /\ kept \in Nat /\ kept <= WINDOW_SIZE
        /\ ack_buffer[e] \in Seq(AckEntry) /\ fabric[p] \in Seq(Frame)
    BY <1>1, <2>1, LinkTypes
  <2>3. missing \in Nat
    BY <2>2, MissingType
  <2>4. /\ AcksInOrder(fabric[p], N, missing, kept)
        /\ \A i \in DOMAIN ack_buffer[e] : ack_buffer[e][i].seq_num_ack # R
    <3>1. Link(N, R, retransmit_buffer[p], fabric[e], fabric[p], ack_buffer[e])
      BY <1>1, <2>1 DEF LinkInv
    <3> QED
      BY <3>1 DEF Link
  <2>5. ASSUME NEW n \in SeqNum, Dist(n, R) \in 1 .. HALF_MAX_SEQ_NUM - 1
        PROVE  tloe_seqnum_cmp(n, R) = -1
    BY <2>2, <2>5, CmpIsOrder
  <2>6. ASSUME NEW i \in DOMAIN ack_buffer[e]
        PROVE  tloe_seqnum_cmp(ack_buffer[e][i].seq_num_ack, R) = -1
    <3> DEFINE n == ack_buffer[e][i].seq_num_ack
    <3>1. n \in SeqNum
      <4>1. ack_buffer[e][i] \in AckEntry
        BY <2>2, LenProperties, ElementOfSeq
      <4> QED
        BY <4>1 DEF AckEntry
    <3>2. n # R /\ Dist(n, R) <= ACK_HORIZON
      BY <1>1, <2>4 DEF AckBufferFresh
    <3>3. Dist(n, R) # 0 /\ Dist(n, R) \in Nat
      BY <2>2, <3>1, <3>2, DistSum, MissingType
    <3> HIDE DEF n, R
    <3>4. Dist(n, R) \in 1 .. HALF_MAX_SEQ_NUM - 1
      BY <3>2, <3>3, Sizes, SMT
    <3> QED
      BY <2>5, <3>1, <3>4 DEF n
  <2>7. ASSUME NEW i \in DOMAIN fabric[p]
        PROVE  tloe_seqnum_cmp(fabric[p][i].seq_num_ack, R) = -1
    <3> DEFINE n == fabric[p][i].seq_num_ack
    <3>1. n \in SeqNum /\ Dist(n, N) \in Nat
      BY <2>2, FrameNumbers
    <3>2. Dist(n, N) \in missing + 1 .. kept + ACK_HORIZON
      BY <2>4 DEF AcksInOrder
    <3> HIDE DEF n, N, R, kept, missing
    <3>3. Dist(n, R) = Dist(n, N) - missing
      <4>1. Dist(n, N) >= missing
        BY <2>3, <3>1, <3>2, SMT
      <4> QED
        BY <2>2, <3>1, <4>1, DistSum DEF missing
    <3>4. Dist(n, R) \in 1 .. HALF_MAX_SEQ_NUM - 1
      BY <2>2, <2>3, <3>1, <3>2, <3>3, Sizes, SMT
    <3> QED
      BY <2>5, <3>1, <3>4 DEF n
  <2> QED
    BY <2>6, <2>7
<1> QED
  BY <1>1, LinkCorrect, TypeCorrect, WindowCorrect, PTL
=============================================================================

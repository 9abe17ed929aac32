---------------------------- MODULE TLoEEndpoint ----------------------------
(***************************************************************************)
(* Two connected OmniXtend endpoints and the fabric between them            *)
(* (omnixtend-c: tloe_endpoint.c, tloe_transmitter.c, tloe_receiver.c,      *)
(* retransmission.c, flowcontrol.c, tilelink_handler.c).                    *)
(*                                                                          *)
(* Each endpoint is a process with two threads.  The main thread turns      *)
(* read and write commands into TileLink requests in message_buffer; the    *)
(* worker thread loops over select_buffer, TX, RX and tl_handler.  One      *)
(* action models one of these calls, and pc says which one comes next.      *)
(***************************************************************************)
EXTENDS TLoESeq, Sequences

CONSTANTS
    Master, Slave,          \* the two endpoints
    \* Sizes of the circular queues: one less than create_queue's argument.
    WINDOW_SIZE,            \* retransmit_buffer, 4
    ACK_BUFFER_CAP,         \* ack_buffer, 2047
    MESSAGE_BUFFER_CAP,     \* message_buffer, 9999
    TL_MSG_BUFFER_CAP,      \* tl_msg_buffer, 9999
    RESPONSE_BUFFER_CAP,    \* response_buffer, 99
    FABRIC_CAP,             \* frames a direction of the fabric holds, mq_maxmsg
    CREDIT,                 \* flits a channel starts with, 2^CREDIT_DEFAULT
    FIRST_SEQ,              \* frames numbered before the last one of the handshake
    \* Bounds of the model
    REQUESTS,               \* [Endpoint -> Nat], requests each user issues
    REQUEST_OPS,            \* the kinds of request issued
    MAX_LOST,               \* frames the fabric loses
    MAX_EARLY,              \* timers that expire although a frame is under way
    MAX_ALLOC_FAILED        \* failing allocations of a retransmit element

ASSUME EndpointAssumption == Master # Slave

ASSUME SizeAssumption ==
    /\ WINDOW_SIZE \in Nat \ {0}
    /\ WINDOW_SIZE + 1 < HALF_MAX_SEQ_NUM
    /\ ACK_BUFFER_CAP \in Nat /\ MESSAGE_BUFFER_CAP \in Nat
    /\ TL_MSG_BUFFER_CAP \in Nat /\ RESPONSE_BUFFER_CAP \in Nat
    /\ FABRIC_CAP \in Nat
    /\ CREDIT \in Nat
    /\ FIRST_SEQ \in SeqNum

Endpoint == {Master, Slave}
Peer(e) == IF e = Master THEN Slave ELSE Master

ASSUME BoundAssumption ==
    /\ REQUESTS \in [Endpoint -> Nat]
    /\ REQUEST_OPS \subseteq {"Get", "PutFullData"}
    /\ MAX_LOST \in Nat /\ MAX_EARLY \in Nat /\ MAX_ALLOC_FAILED \in Nat

-----------------------------------------------------------------------------
(***************************************************************************)
(* TileLink messages.  Requests travel on channel A, responses on channel D.*)
(* All requests name one memory word; val is the value written, or read.    *)
(***************************************************************************)
CHANNEL_A == 1
CHANNEL_D == 4
Channel == {CHANNEL_A, CHANNEL_D}

Request == [op : {"Get", "PutFullData"}, val : Nat]
Response == [op : {"AccessAck", "AccessAckData"}, val : Nat]
TLMsg == Request \cup Response

NoMsg == [op |-> "none", val |-> 0]    \* a NULL tlmsg, a frame with mask 0

tlmsg_get_chan(m) == IF m.op \in {"Get", "PutFullData"} THEN CHANNEL_A ELSE CHANNEL_D

\* Flits of a message with its header; 8-byte payloads (header.size = 3).
\* For messages without data the code shifts by -1, which gives 0.
tlmsg_get_flits_cnt(m) == CASE m.op = "Get" -> 2
                            [] m.op = "PutFullData" -> 3
                            [] m.op = "AccessAck" -> 1
                            [] m.op = "AccessAckData" -> 2

\* header.credit is the exponent of a power of two; the model keeps the
\* credit it grants, 1 << header.credit, and 0 in a frame without channel.
Grant == {1, 2, 4, 8, 16, 32, 64, 128, 256, 512, 1024}

get_largest_pow(v) ==
    CHOOSE g \in Grant : g <= v /\ \A h \in Grant : h <= v => h <= g

Frame == [type : {"NORMAL", "ACKONLY", "OPEN_CONNECTION", "CLOSE_CONNECTION"},
          seq_num : SeqNum, seq_num_ack : SeqNum, ack : {"ACK", "NAK"},
          tlmsg : TLMsg \cup {NoMsg}, chan : Channel \cup {0}, credit : Nat]

\* A frame kept for retransmission: its acknowledgement is not kept, because
\* retransmit overwrites it with a current one.
Element == [seq_num : SeqNum, tlmsg : TLMsg \cup {NoMsg},
            chan : Channel \cup {0}, credit : Nat]

\* What TX reads of a frame in ack_buffer.
AckEntry == [seq_num_ack : SeqNum, ack : {"ACK", "NAK"}]

-----------------------------------------------------------------------------
VARIABLES
    pc,                         \* next call of the worker, or "exited" (BUG_ON),
                                \* or "ended" (the command q, in TLoEConnection)
    \* tloe_endpoint_t
    request_tlmsg, message_buffer, response_buffer, tl_msg_buffer,
    retransmit_buffer, ack_buffer,
    next_tx_seq, next_rx_seq,
    should_send_ackonly_frame, ackonly_frame_sent,
    credits, tx_flow_credits,
    \* file-scope variables of the process
    buffer_select_counter, mem_storage,
    \* frames under way to each endpoint
    fabric,
    \* counters of the model's bounds
    lost, early, alloc_failed,
    \* the endpoint whose timer has run out once more than the other's, or none
    ahead,
    \* history: requests issued, results computed by the peer, results obtained
    issued, served, answered

workVars == <<request_tlmsg, buffer_select_counter, response_buffer>>
linkVars == <<retransmit_buffer, ack_buffer, next_tx_seq, next_rx_seq,
              should_send_ackonly_frame, ackonly_frame_sent, fabric>>
creditVars == <<credits, tx_flow_credits>>
memVars == <<mem_storage, served, answered>>
userVars == <<message_buffer, issued>>
boundVars == <<lost, early, alloc_failed, ahead>>
vars == <<pc, workVars, tl_msg_buffer, linkVars, creditVars, memVars, userVars,
          boundVars>>

\* The state open_conn_master and open_conn_slave leave when nothing is lost,
\* once the slave's RX has taken the master's last handshake frame, numbered
\* FIRST_SEQ (5); see TLoEConnection.  Both workers are about to iterate.
Init ==
    /\ pc = [e \in Endpoint |-> "select"]
    /\ request_tlmsg = [e \in Endpoint |-> NoMsg]
    /\ buffer_select_counter = [e \in Endpoint |-> 4]
    /\ message_buffer = [e \in Endpoint |-> <<>>]
    /\ response_buffer = [e \in Endpoint |-> <<>>]
    /\ tl_msg_buffer = [e \in Endpoint |-> <<>>]
    /\ retransmit_buffer = [e \in Endpoint |-> <<>>]
    /\ ack_buffer = [e \in Endpoint |-> <<>>]
    /\ next_tx_seq = [e \in Endpoint |-> IF e = Master THEN tloe_seqnum_next(FIRST_SEQ)
                                                       ELSE FIRST_SEQ]
    /\ next_rx_seq = [e \in Endpoint |-> IF e = Slave THEN tloe_seqnum_next(FIRST_SEQ)
                                                      ELSE FIRST_SEQ]
    /\ should_send_ackonly_frame = [e \in Endpoint |-> e = Slave]
    /\ ackonly_frame_sent = [e \in Endpoint |-> FALSE]
    /\ credits = [e \in Endpoint |-> [c \in Channel |-> CREDIT]]
    /\ tx_flow_credits = [e \in Endpoint |-> [c \in Channel |-> 0]]
    /\ mem_storage = [e \in Endpoint |-> 0]
    /\ fabric = [e \in Endpoint |-> <<>>]
    /\ lost = 0 /\ early = 0 /\ alloc_failed = 0
    /\ ahead = "none"
    /\ issued = [e \in Endpoint |-> <<>>]
    /\ served = [e \in Endpoint |-> <<>>]
    /\ answered = [e \in Endpoint |-> <<>>]

-----------------------------------------------------------------------------
(***************************************************************************)
(* Helpers                                                                  *)
(***************************************************************************)
\* mq_send does not block: frames that do not fit are lost.
SendAll(queue, frames) ==
    LET all == queue \o frames
    IN  IF Len(all) <= FABRIC_CAP THEN all ELSE SubSeq(all, 1, FABRIC_CAP)

\* The end of s from the least index in I on, empty when I is.
SuffixFrom(s, I) ==
    IF I = {} THEN <<>>
    ELSE SubSeq(s, CHOOSE i \in I : \A j \in I : i <= j, Len(s))

\* Faulty variant: drops one frame too many.
slide_window_OffByOne(buffer, seq_num_ack) ==
    SuffixFrom(buffer, {i \in DOMAIN buffer :
        tloe_seqnum_cmp(buffer[i].seq_num, tloe_seqnum_next(seq_num_ack)) > 0})

\* The elements left after an acknowledgement: the front is dequeued as long
\* as it is not ahead of the acknowledged number.
slide_window(buffer, seq_num_ack) ==
    SuffixFrom(buffer, {i \in DOMAIN buffer :
                           tloe_seqnum_cmp(buffer[i].seq_num, seq_num_ack) > 0})

\* Faulty variant: a frame gives its credit only the first time.
retransmit_NoCredit(e, buffer, seq_num) ==
    LET again == SuffixFrom(buffer, {i \in DOMAIN buffer :
                                        tloe_seqnum_cmp(buffer[i].seq_num, seq_num) >= 0})
    IN  [i \in DOMAIN again |->
            [type |-> "NORMAL", seq_num |-> again[i].seq_num,
             seq_num_ack |-> tloe_seqnum_prev(next_rx_seq[e]), ack |-> "ACK",
             tlmsg |-> again[i].tlmsg, chan |-> again[i].chan, credit |-> 0]]

\* The frames retransmit sends: every element from seq_num on, with a current
\* acknowledgement.  (Elements are in sequence order, see WindowInv, so those
\* the code's loop skips are a prefix.)
retransmit(e, buffer, seq_num) ==
    LET again == SuffixFrom(buffer, {i \in DOMAIN buffer :
                                        tloe_seqnum_cmp(buffer[i].seq_num, seq_num) >= 0})
    IN  [i \in DOMAIN again |->
            [type |-> "NORMAL", seq_num |-> again[i].seq_num,
             seq_num_ack |-> tloe_seqnum_prev(next_rx_seq[e]), ack |-> "ACK",
             tlmsg |-> again[i].tlmsg, chan |-> again[i].chan,
             credit |-> again[i].credit]]

\* Faulty variant: acknowledges the frame still expected.
AckOnlyFrame_Next(e) ==
    [type |-> "ACKONLY", seq_num |-> next_tx_seq[e],
     seq_num_ack |-> next_rx_seq[e], ack |-> "ACK",
     tlmsg |-> NoMsg, chan |-> 0, credit |-> 0]

AckOnlyFrame(e) ==
    [type |-> "ACKONLY", seq_num |-> next_tx_seq[e],
     seq_num_ack |-> tloe_seqnum_prev(next_rx_seq[e]), ack |-> "ACK",
     tlmsg |-> NoMsg, chan |-> 0, credit |-> 0]

\* The channel with most credit to give back, the lower one first; 0 if none.
select_max_credit_channel(flow) ==
    IF flow[CHANNEL_A] = 0 /\ flow[CHANNEL_D] = 0 THEN 0
    ELSE IF flow[CHANNEL_A] >= flow[CHANNEL_D] THEN CHANNEL_A ELSE CHANNEL_D

WindowFull(e) == Len(retransmit_buffer[e]) = WINDOW_SIZE

\* Faulty variant: credit is not checked.
CreditShort_Never(e) == FALSE

CreditShort(e) ==
    credits[e][tlmsg_get_chan(request_tlmsg[e])] < tlmsg_get_flits_cnt(request_tlmsg[e])

GoTo(e, next) == pc' = [pc EXCEPT ![e] = next]

-----------------------------------------------------------------------------
(***************************************************************************)
(* Main thread: read_memory and write_memory wait for room, then enqueue.   *)
(***************************************************************************)
Submit(e) ==
    /\ pc[e] # "exited"
    /\ Len(issued[e]) < REQUESTS[e]
    /\ Len(message_buffer[e]) < MESSAGE_BUFFER_CAP
    /\ \E op \in REQUEST_OPS :
         LET req == [op |-> op, val |-> IF op = "PutFullData" THEN Len(issued[e]) + 1 ELSE 0]
         IN  /\ message_buffer' = [message_buffer EXCEPT ![e] = Append(@, req)]
             /\ issued' = [issued EXCEPT ![e] = Append(@, req)]
    /\ UNCHANGED <<pc, workVars, tl_msg_buffer, linkVars, creditVars, memVars, boundVars>>

-----------------------------------------------------------------------------
(***************************************************************************)
(* Worker thread: choosing the message to send                              *)
(***************************************************************************)
SelectBuffer(e) ==
    /\ pc[e] = "select"
    /\ GoTo(e, "tx")
    /\ UNCHANGED <<tl_msg_buffer, linkVars, creditVars, memVars, issued, boundVars>>

\* A message TX gave back is tried again.
Select_Pending(e) ==
    /\ SelectBuffer(e)
    /\ request_tlmsg[e] # NoMsg
    /\ UNCHANGED <<workVars, message_buffer>>

\* Responses go first, up to three in a row ...
Select_Response(e) ==
    /\ SelectBuffer(e)
    /\ request_tlmsg[e] = NoMsg
    /\ buffer_select_counter[e] > 1 /\ response_buffer[e] # <<>>
    /\ request_tlmsg' = [request_tlmsg EXCEPT ![e] = Head(response_buffer[e])]
    /\ response_buffer' = [response_buffer EXCEPT ![e] = Tail(@)]
    /\ buffer_select_counter' = [buffer_select_counter EXCEPT ![e] = @ - 1]
    /\ UNCHANGED message_buffer

\* ... then, or when there is none, a request if there is one.
Select_Request(e) ==
    /\ SelectBuffer(e)
    /\ request_tlmsg[e] = NoMsg
    /\ ~(buffer_select_counter[e] > 1 /\ response_buffer[e] # <<>>)
    /\ \/ /\ message_buffer[e] # <<>>
          /\ request_tlmsg' = [request_tlmsg EXCEPT ![e] = Head(message_buffer[e])]
          /\ message_buffer' = [message_buffer EXCEPT ![e] = Tail(@)]
       \/ /\ message_buffer[e] = <<>>
          /\ UNCHANGED <<request_tlmsg, message_buffer>>
    /\ buffer_select_counter' = [buffer_select_counter EXCEPT ![e] = 4]
    /\ UNCHANGED response_buffer

-----------------------------------------------------------------------------
(***************************************************************************)
(* Worker thread: TX                                                        *)
(*                                                                          *)
(* elapsed is what the clock says of the oldest unacknowledged frame when   *)
(* the iteration starts: less than half of TIMEOUT_TIME, at least half, or  *)
(* all of it.  TIMEOUT_TIME is long (100 ms) against an iteration and a     *)
(* crossing of the fabric, and the clocks keep pace: timers run out for     *)
(* free, one endpoint's and the other's in turn, once nothing but a timer   *)
(* can happen any more.  In any other state a timer that runs out is early, *)
(* and MAX_EARLY bounds how often that is.                                  *)
(***************************************************************************)
\* Faulty variant: the window is not checked.
NothingToSend_NoWindow(e) ==
    \/ /\ request_tlmsg[e] = NoMsg /\ ack_buffer[e] = <<>>
       /\ select_max_credit_channel(tx_flow_credits[e]) = 0
    \/ request_tlmsg[e] # NoMsg /\ CreditShort(e) /\ ack_buffer[e] = <<>>

\* Nothing new can or need be sent: the window is full, there is neither
\* message, acknowledgement nor credit to send, or the message lacks credit.
NothingToSend(e) ==
    \/ WindowFull(e)
    \/ /\ request_tlmsg[e] = NoMsg /\ ack_buffer[e] = <<>>
       /\ select_max_credit_channel(tx_flow_credits[e]) = 0
    \/ request_tlmsg[e] # NoMsg /\ CreditShort(e) /\ ack_buffer[e] = <<>>

\* The worker of e iterates without effect, or no more.
StalledAt(e) ==
    \/ pc[e] \in {"exited", "ended"}
    \/ /\ fabric[e] = <<>>
       /\ ~should_send_ackonly_frame[e] /\ NothingToSend(e)
       /\ \/ request_tlmsg[e] # NoMsg
          \/ message_buffer[e] = <<>> /\ response_buffer[e] = <<>>
       /\ tl_msg_buffer[e] = <<>> \/ Len(response_buffer[e]) = RESPONSE_BUFFER_CAP

Stalled == \A e \in Endpoint : StalledAt(e)

\* The timer of e runs out in its turn: an endpoint that waits for nothing has
\* no timer to keep pace with.
InTurn(e) ==
    /\ Stalled
    /\ ahead # e \/ retransmit_buffer[Peer(e)] = <<>>
    /\ ahead' = IF ahead = Peer(e) \/ retransmit_buffer[Peer(e)] = <<>> THEN "none" ELSE e

Elapsed(e, elapsed) ==
    \/ elapsed = "fresh" /\ UNCHANGED <<early, ahead>>
    \/ /\ elapsed = "half" /\ WindowFull(e) /\ ~ackonly_frame_sent[e]
       /\ \/ Stalled /\ UNCHANGED early
          \/ ~Stalled /\ early < MAX_EARLY /\ early' = early + 1
       /\ UNCHANGED ahead
    \/ /\ elapsed = "full" /\ retransmit_buffer[e] # <<>>
       /\ \/ InTurn(e) /\ UNCHANGED early
          \/ early < MAX_EARLY /\ early' = early + 1 /\ UNCHANGED ahead

\* The acknowledgement of a zero-TileLink frame, and one more per silence when
\* the window is full and half of the time has passed.
HalfTimeAckOnly(e, elapsed) ==
    WindowFull(e) /\ ~ackonly_frame_sent[e] /\ elapsed \in {"half", "full"}

AckOnlyFrames(e, elapsed) ==
    (IF should_send_ackonly_frame[e] THEN <<AckOnlyFrame(e)>> ELSE <<>>)
    \o (IF HalfTimeAckOnly(e, elapsed) THEN <<AckOnlyFrame(e)>> ELSE <<>>)

\* Faulty variant: no retransmission on a timeout.
TimeoutFrames_None(e, elapsed, buffer) == <<>>

\* The whole window again, when its oldest frame has timed out.
TimeoutFrames(e, elapsed, buffer) ==
    IF elapsed = "full" THEN retransmit(e, buffer, buffer[1].seq_num) ELSE <<>>

\* What every path through TX does around its own part, which leaves buffer
\* as retransmit_buffer and sends frames: the acknowledgements before it, and
\* after it (label out) the retransmission of the whole window on a timeout.
TX(e, elapsed, buffer, frames) ==
    /\ pc[e] = "tx"
    /\ Elapsed(e, elapsed)
    /\ retransmit_buffer' = [retransmit_buffer EXCEPT ![e] = buffer]
    /\ fabric' = [fabric EXCEPT ![Peer(e)] =
                     SendAll(@, AckOnlyFrames(e, elapsed) \o frames
                                   \o TimeoutFrames(e, elapsed, buffer))]
    /\ should_send_ackonly_frame' = [should_send_ackonly_frame EXCEPT ![e] = FALSE]
    /\ ackonly_frame_sent' = [ackonly_frame_sent EXCEPT
                                 ![e] = @ \/ HalfTimeAckOnly(e, elapsed)]
    /\ GoTo(e, "rx")
    /\ UNCHANGED <<next_rx_seq, buffer_select_counter, response_buffer,
                   tl_msg_buffer, memVars, userVars, lost>>

TX_Nothing(e, elapsed) ==
    /\ NothingToSend(e)
    /\ TX(e, elapsed, retransmit_buffer[e], <<>>)
    /\ UNCHANGED <<request_tlmsg, ack_buffer, next_tx_seq, creditVars, alloc_failed>>

\* The frame TX makes: the message it can pay for, or none; the oldest entry
\* of ack_buffer as acknowledgement, or the last number received; the largest
\* power of two of the credit to give back.  The ack bit is always TLOE_ACK.
Carried(e) == IF request_tlmsg[e] = NoMsg \/ CreditShort(e) THEN NoMsg
                                                           ELSE request_tlmsg[e]

FrameToSend(e) ==
    LET chan == select_max_credit_channel(tx_flow_credits[e])
    IN  [type |-> "NORMAL", seq_num |-> next_tx_seq[e],
         seq_num_ack |-> IF ack_buffer[e] = <<>> THEN tloe_seqnum_prev(next_rx_seq[e])
                                                 ELSE Head(ack_buffer[e]).seq_num_ack,
         ack |-> "ACK", tlmsg |-> Carried(e), chan |-> chan,
         credit |-> IF chan = 0 THEN 0 ELSE get_largest_pow(tx_flow_credits[e][chan])]

ElementOf(f) == [seq_num |-> f.seq_num, tlmsg |-> f.tlmsg,
                 chan |-> f.chan, credit |-> f.credit]

\* What making that frame consumes, even when it is then not sent.
MakeFrame(e) ==
    LET f == FrameToSend(e)
    IN  /\ ~NothingToSend(e)
        /\ ack_buffer' = [ack_buffer EXCEPT ![e] = IF @ = <<>> THEN @ ELSE Tail(@)]
        /\ tx_flow_credits' = IF f.chan = 0 THEN tx_flow_credits
                              ELSE [tx_flow_credits EXCEPT ![e][f.chan] = @ - f.credit]
        /\ credits' = IF f.tlmsg = NoMsg THEN credits
                      ELSE [credits EXCEPT ![e][tlmsg_get_chan(f.tlmsg)] =
                                               @ - tlmsg_get_flits_cnt(f.tlmsg)]

TX_Send(e, elapsed) ==
    /\ MakeFrame(e)
    /\ TX(e, elapsed, Append(retransmit_buffer[e], ElementOf(FrameToSend(e))),
          <<FrameToSend(e)>>)
    /\ next_tx_seq' = [next_tx_seq EXCEPT ![e] = tloe_seqnum_next(@)]
    /\ request_tlmsg' = [request_tlmsg EXCEPT ![e] = IF Carried(e) = NoMsg THEN @ ELSE NoMsg]
    /\ UNCHANGED alloc_failed

\* malloc of the retransmit element fails: TX returns what the frame carried,
\* and the worker frees its message if that is NULL.
TX_AllocFailed(e, elapsed) ==
    /\ alloc_failed < MAX_ALLOC_FAILED
    /\ alloc_failed' = alloc_failed + 1
    /\ MakeFrame(e)
    /\ TX(e, elapsed, retransmit_buffer[e], <<>>)
    /\ request_tlmsg' = [request_tlmsg EXCEPT ![e] = Carried(e)]
    /\ UNCHANGED next_tx_seq

-----------------------------------------------------------------------------
(***************************************************************************)
(* Worker thread: RX                                                        *)
(***************************************************************************)
RX_Empty(e) ==
    /\ pc[e] = "rx" /\ fabric[e] = <<>>
    /\ GoTo(e, "tl")
    /\ UNCHANGED <<workVars, tl_msg_buffer, linkVars, creditVars, memVars,
                   userVars, boundVars>>

Arrived(e) == Head(fabric[e])

\* A frame arrives.  Its acknowledgement is served first, whatever else it is:
\* serve_ack slides the window, and a NAK retransmits what is left from the
\* number after the acknowledged one.
RX(e) ==
    /\ pc[e] = "rx" /\ fabric[e] # <<>>
    /\ LET f == Arrived(e)
           left == slide_window(retransmit_buffer[e], f.seq_num_ack)
           again == IF f.ack = "NAK"
                    THEN retransmit(e, left, tloe_seqnum_next(f.seq_num_ack))
                    ELSE <<>>
       IN  /\ retransmit_buffer' = [retransmit_buffer EXCEPT ![e] = left]
           /\ fabric' = [fabric EXCEPT ![e] = Tail(@), ![Peer(e)] = SendAll(@, again)]
    /\ ackonly_frame_sent' = [ackonly_frame_sent EXCEPT ![e] = FALSE]
    /\ UNCHANGED <<workVars, next_tx_seq, tx_flow_credits, memVars, userVars, boundVars>>

RX_AckOnly(e) ==
    /\ RX(e)
    /\ Arrived(e).type = "ACKONLY"
    /\ GoTo(e, "tl")
    /\ UNCHANGED <<tl_msg_buffer, ack_buffer, next_rx_seq,
                   should_send_ackonly_frame, credits>>

RX_Class(e, class) ==
    /\ RX(e)
    /\ Arrived(e).type # "ACKONLY"
    /\ tloe_rx_get_req_type(Arrived(e).seq_num, next_rx_seq[e]) = class

\* The expected frame: its credit is gained and next_rx_seq moves on.
Accept(e) ==
    /\ RX_Class(e, "REQ_NORMAL")
    /\ LET f == Arrived(e)
       IN  /\ next_rx_seq' = [next_rx_seq EXCEPT ![e] = tloe_seqnum_next(f.seq_num)]
           /\ credits' = IF f.chan = 0 THEN credits
                         ELSE [credits EXCEPT ![e][f.chan] = @ + f.credit]
    /\ UNCHANGED ack_buffer

\* A frame with a message, kept in tl_msg_buffer; the process exits when there
\* is no room.  It is acknowledged only by the next frame sent.
RX_Normal(e) ==
    /\ Accept(e)
    /\ Arrived(e).tlmsg # NoMsg
    /\ \/ /\ Len(tl_msg_buffer[e]) < TL_MSG_BUFFER_CAP
          /\ tl_msg_buffer' = [tl_msg_buffer EXCEPT ![e] = Append(@, Arrived(e).tlmsg)]
          /\ GoTo(e, "tl")
       \/ /\ Len(tl_msg_buffer[e]) = TL_MSG_BUFFER_CAP
          /\ UNCHANGED tl_msg_buffer
          /\ GoTo(e, "exited")
    /\ UNCHANGED should_send_ackonly_frame

\* A frame without a message: the next TX acknowledges it.
RX_Zero(e) ==
    /\ Accept(e)
    /\ Arrived(e).tlmsg = NoMsg
    /\ should_send_ackonly_frame' = [should_send_ackonly_frame EXCEPT ![e] = TRUE]
    /\ GoTo(e, "tl")
    /\ UNCHANGED tl_msg_buffer

\* Faulty variant: a repeated frame gives its credit again.
Report_GainsCredit(e, entry) ==
    /\ ack_buffer' = [ack_buffer EXCEPT ![e] = Append(@, entry)]
    /\ credits' = IF Arrived(e).chan = 0 THEN credits
                  ELSE [credits EXCEPT ![e][Arrived(e).chan] = @ + Arrived(e).credit]
    /\ GoTo(e, "tl")
    /\ UNCHANGED <<tl_msg_buffer, next_rx_seq, should_send_ackonly_frame>>

\* A frame behind or ahead of the expected one leaves an entry in ack_buffer;
\* BUG_ON exits when that is full.
Report(e, entry) ==
    /\ \/ /\ Len(ack_buffer[e]) < ACK_BUFFER_CAP
          /\ ack_buffer' = [ack_buffer EXCEPT ![e] = Append(@, entry)]
          /\ GoTo(e, "tl")
       \/ /\ Len(ack_buffer[e]) = ACK_BUFFER_CAP
          /\ UNCHANGED ack_buffer
          /\ GoTo(e, "exited")
    /\ UNCHANGED <<tl_msg_buffer, next_rx_seq, should_send_ackonly_frame, credits>>

RX_Duplicate(e) ==
    /\ RX_Class(e, "REQ_DUPLICATE")
    /\ Report(e, [seq_num_ack |-> Arrived(e).seq_num, ack |-> "ACK"])

\* Faulty variant: names the number received.
RX_OutOfSequence_Received(e) ==
    /\ RX_Class(e, "REQ_OOS")
    /\ Report(e, [seq_num_ack |-> Arrived(e).seq_num, ack |-> "NAK"])

RX_OutOfSequence(e) ==
    /\ RX_Class(e, "REQ_OOS")
    /\ Report(e, [seq_num_ack |-> tloe_seqnum_prev(next_rx_seq[e]), ack |-> "NAK"])

-----------------------------------------------------------------------------
(***************************************************************************)
(* Worker thread: tl_handler and the credit it earns                        *)
(***************************************************************************)
TL_Skip(e) ==
    /\ pc[e] = "tl"
    /\ \/ tl_msg_buffer[e] = <<>>
       \/ Len(response_buffer[e]) = RESPONSE_BUFFER_CAP
    /\ GoTo(e, "select")
    /\ UNCHANGED <<workVars, tl_msg_buffer, linkVars, creditVars, memVars,
                   userVars, boundVars>>

\* The oldest message is handled, and its flits are credit to give back.
Oldest(e) == Head(tl_msg_buffer[e])

\* Faulty variant: a handled message frees no credit.
tl_handler_NoCredit(e) ==
    /\ pc[e] = "tl"
    /\ Len(response_buffer[e]) < RESPONSE_BUFFER_CAP /\ tl_msg_buffer[e] # <<>>
    /\ tl_msg_buffer' = [tl_msg_buffer EXCEPT ![e] = Tail(@)]
    /\ GoTo(e, "select")
    /\ UNCHANGED <<request_tlmsg, buffer_select_counter, linkVars, creditVars,
                   userVars, boundVars>>

tl_handler(e) ==
    /\ pc[e] = "tl"
    /\ Len(response_buffer[e]) < RESPONSE_BUFFER_CAP /\ tl_msg_buffer[e] # <<>>
    /\ tl_msg_buffer' = [tl_msg_buffer EXCEPT ![e] = Tail(@)]
    /\ tx_flow_credits' = [tx_flow_credits EXCEPT
                              ![e][tlmsg_get_chan(Oldest(e))] =
                                  @ + tlmsg_get_flits_cnt(Oldest(e))]
    /\ GoTo(e, "select")
    /\ UNCHANGED <<request_tlmsg, buffer_select_counter, linkVars, credits,
                   userVars, boundVars>>

Respond(e, resp) ==
    /\ response_buffer' = [response_buffer EXCEPT ![e] = Append(@, resp)]
    /\ served' = [served EXCEPT ![Peer(e)] = Append(@, resp)]
    /\ UNCHANGED answered

handle_A_PUTFULLDATA_opcode(e) ==
    /\ tl_handler(e)
    /\ Oldest(e).op = "PutFullData"
    /\ mem_storage' = [mem_storage EXCEPT ![e] = Oldest(e).val]
    /\ Respond(e, [op |-> "AccessAck", val |-> 0])

handle_A_GET_opcode(e) ==
    /\ tl_handler(e)
    /\ Oldest(e).op = "Get"
    /\ Respond(e, [op |-> "AccessAckData", val |-> mem_storage[e]])
    /\ UNCHANGED mem_storage

\* Responses: the user sees the data, the counters count.
handle_D_opcode(e) ==
    /\ tl_handler(e)
    /\ Oldest(e).op \in {"AccessAck", "AccessAckData"}
    /\ answered' = [answered EXCEPT ![e] = Append(@, Oldest(e))]
    /\ UNCHANGED <<response_buffer, mem_storage, served>>

-----------------------------------------------------------------------------
(***************************************************************************)
(* Fabric: any frame under way may be lost; order is kept.                  *)
(***************************************************************************)
Lose(e) ==
    /\ lost < MAX_LOST
    /\ \E i \in DOMAIN fabric[e] :
         fabric' = [fabric EXCEPT ![e] = SubSeq(@, 1, i - 1) \o SubSeq(@, i + 1, Len(@))]
    /\ lost' = lost + 1
    /\ UNCHANGED <<pc, workVars, tl_msg_buffer, retransmit_buffer, ack_buffer,
                   next_tx_seq, next_rx_seq, should_send_ackonly_frame,
                   ackonly_frame_sent, creditVars, memVars, userVars, early,
                   alloc_failed, ahead>>

-----------------------------------------------------------------------------
Select(e) == Select_Pending(e) \/ Select_Response(e) \/ Select_Request(e)

Transmit(e, elapsed) ==
    TX_Nothing(e, elapsed) \/ TX_Send(e, elapsed) \/ TX_AllocFailed(e, elapsed)

Receive(e) == \/ RX_Empty(e) \/ RX_AckOnly(e) \/ RX_Normal(e) \/ RX_Zero(e)
              \/ RX_Duplicate(e) \/ RX_OutOfSequence(e)

Handle(e) == \/ TL_Skip(e) \/ handle_A_PUTFULLDATA_opcode(e)
             \/ handle_A_GET_opcode(e) \/ handle_D_opcode(e)

\* One call of the worker thread of e.
Worker(e) == \/ Select(e)
             \/ \E elapsed \in {"fresh", "half", "full"} : Transmit(e, elapsed)
             \/ Receive(e)
             \/ Handle(e)

Next == \E e \in Endpoint : Worker(e) \/ Submit(e) \/ Lose(e)

Spec == Init /\ [][Next]_vars

\* Each worker is a thread that never blocks.  A frame that stays
\* unacknowledged while the worker iterates again and again is timed out in
\* the end.  Nothing obliges users to issue or the fabric to lose.
Fairness ==
    \A e \in Endpoint : /\ WF_vars(Worker(e))
                        /\ SF_vars(Transmit(e, "full"))

FairSpec == Spec /\ Fairness

-----------------------------------------------------------------------------
(***************************************************************************)
(* Properties                                                               *)
(***************************************************************************)
\* Every variable has its type, and every queue its size.
TypeOK ==
    /\ pc \in [Endpoint -> {"select", "tx", "rx", "tl", "exited", "ended"}]
    /\ request_tlmsg \in [Endpoint -> TLMsg \cup {NoMsg}]
    /\ buffer_select_counter \in [Endpoint -> 1 .. 4]
    /\ message_buffer \in [Endpoint -> Seq(Request)]
    /\ response_buffer \in [Endpoint -> Seq(Response)]
    /\ tl_msg_buffer \in [Endpoint -> Seq(TLMsg)]
    /\ retransmit_buffer \in [Endpoint -> Seq(Element)]
    /\ ack_buffer \in [Endpoint -> Seq(AckEntry)]
    /\ next_tx_seq \in [Endpoint -> SeqNum]
    /\ next_rx_seq \in [Endpoint -> SeqNum]
    /\ should_send_ackonly_frame \in [Endpoint -> BOOLEAN]
    /\ ackonly_frame_sent \in [Endpoint -> BOOLEAN]
    /\ credits \in [Endpoint -> [Channel -> Nat]]
    /\ tx_flow_credits \in [Endpoint -> [Channel -> Nat]]
    /\ mem_storage \in [Endpoint -> Nat]
    /\ fabric \in [Endpoint -> Seq(Frame)]
    /\ lost \in Nat /\ early \in Nat /\ alloc_failed \in Nat
    /\ ahead \in Endpoint \cup {"none"}
    /\ issued \in [Endpoint -> Seq(Request)]
    /\ served \in [Endpoint -> Seq(Response)]
    /\ answered \in [Endpoint -> Seq(Response)]

\* The retransmit buffer is a window: it never holds more than WINDOW_SIZE
\* frames, and they carry the numbers just before next_tx_seq, in order and
\* without a gap, also when the numbers wrap.  Retransmission "from a number
\* on" and the dequeuing of acknowledged frames rely on it.  (TX,
\* slide_window, retransmit)
IsWindow(buffer, next) ==
    /\ Len(buffer) <= WINDOW_SIZE
    /\ \A i \in DOMAIN buffer : Dist(buffer[i].seq_num, next) = Len(buffer) - i + 1

WindowInv == \A e \in Endpoint : IsWindow(retransmit_buffer[e], next_tx_seq[e])

\* No acknowledgement lies: whatever number one endpoint acknowledges, in a
\* frame under way or in an entry of ack_buffer still to be sent, that endpoint
\* has accepted the frame of that number, and recently enough for the
\* comparison of numbers not to turn round.  (send_ackonly_frame,
\* prepare_normal_frame, serve_duplicate_request, serve_oos_request)
AckTruthful ==
    \A e \in Endpoint :
        LET Behind(n) == tloe_seqnum_cmp(n, next_rx_seq[e]) = -1
        IN  /\ \A i \in DOMAIN ack_buffer[e] : Behind(ack_buffer[e][i].seq_num_ack)
            /\ \A i \in DOMAIN fabric[Peer(e)] : Behind(fabric[Peer(e)][i].seq_num_ack)

\* No frame leaves the sender's window before the receiver has accepted it,
\* and none is accepted that was not sent: what the receiver waits for is
\* still in the window, or is the next frame to be sent.  Late, duplicated and
\* stale acknowledgements included.  (slide_window against next_rx_seq of the
\* other process)
RetainedUntilReceived ==
    \A e \in Endpoint :
        Dist(next_rx_seq[Peer(e)], next_tx_seq[e]) <= Len(retransmit_buffer[e])

\* An entry of ack_buffer is sent before half a ring, less a window, of further
\* frames has been accepted: at WINDOW_SIZE 4 about two million frames, and only
\* a full window keeps TX from sending one entry per iteration.  No code sees to
\* it; later, the entry would count as an acknowledgement of frames still to be
\* sent.  (TX against serve_duplicate_request, serve_oos_request)
ACK_HORIZON == HALF_MAX_SEQ_NUM - WINDOW_SIZE - 1

AckBufferFresh ==
    \A e \in Endpoint : \A i \in DOMAIN ack_buffer[e] :
        Dist(ack_buffer[e][i].seq_num_ack, next_rx_seq[e]) <= ACK_HORIZON

\* The strengthening from which AckTruthful and RetainedUntilReceived follow.
\* queue holds frames under way, next is the next number their sender (or, for
\* acknowledgements, the sender of what they acknowledge) will use, and the
\* receiver has yet to accept the last missing numbers before it.
Numbered(f) == f.type # "ACKONLY"

\* Numbered frames are at most span (here a window) behind what the receiver
\* expects, and none is span or more behind one that travels ahead of it: the
\* receiver takes none of an earlier turn of the ring for the one it expects.
NumbersInOrder(queue, next, missing, span) ==
    /\ \A i \in DOMAIN queue : Numbered(queue[i]) =>
          Dist(queue[i].seq_num, next) \in 1 .. missing + span
    /\ \A i, j \in DOMAIN queue :
          i < j /\ Numbered(queue[i]) /\ Numbered(queue[j]) =>
             Dist(queue[j].seq_num, next) < Dist(queue[i].seq_num, next) + span

\* Those the receiver has not accepted are copies of what is in the window.
Copies(queue, next, missing, buffer) ==
    \A i \in DOMAIN queue :
        LET age == Dist(queue[i].seq_num, next)
        IN  Numbered(queue[i]) /\ age <= missing =>
               ElementOf(queue[i]) = buffer[Len(buffer) - age + 1]

\* Acknowledgements name accepted frames, and lag behind the window, and behind
\* those that travel ahead of them, by less than slide_window would misread.
AcksInOrder(queue, next, missing, kept) ==
    /\ \A i \in DOMAIN queue :
          Dist(queue[i].seq_num_ack, next) \in missing + 1 .. kept + ACK_HORIZON
    /\ \A i, j \in DOMAIN queue :
          i < j => Dist(queue[j].seq_num_ack, next)
                      < Dist(queue[i].seq_num_ack, next) + ACK_HORIZON

\* One direction: next is the sender's next_tx_seq and buffer its retransmit
\* buffer, expected the receiver's next_rx_seq and reports its ack_buffer;
\* frames travel to the receiver and acks, its own frames, to the sender.
Link(next, expected, buffer, frames, acks, reports) ==
    LET missing == Dist(expected, next)
    IN  /\ missing <= Len(buffer)
        /\ NumbersInOrder(frames, next, missing, WINDOW_SIZE)
        /\ Copies(frames, next, missing, buffer)
        /\ AcksInOrder(acks, next, missing, Len(buffer))
        /\ \A i \in DOMAIN reports : reports[i].seq_num_ack # expected

LinkInv ==
    \A e \in Endpoint :
        Link(next_tx_seq[e], next_rx_seq[Peer(e)], retransmit_buffer[e],
             fabric[Peer(e)], fabric[e], ack_buffer[Peer(e)])

\* Sum of a sequence of numbers.
SumSeq(s) == LET sum[n \in 0 .. Len(s)] == IF n = 0 THEN 0 ELSE sum[n - 1] + s[n]
             IN  sum[Len(s)]

\* What the frames e has sent and its peer has not yet accepted weigh.
Unaccepted(e, Weight(_)) ==
    SumSeq([i \in DOMAIN retransmit_buffer[e] |->
        IF tloe_seqnum_cmp(retransmit_buffer[e][i].seq_num, next_rx_seq[Peer(e)]) >= 0
        THEN Weight(retransmit_buffer[e][i]) ELSE 0])

FlitsOn(c, m) == IF m # NoMsg /\ tlmsg_get_chan(m) = c THEN tlmsg_get_flits_cnt(m) ELSE 0

Buffered(e, c) ==
    SumSeq([i \in DOMAIN tl_msg_buffer[e] |-> FlitsOn(c, tl_msg_buffer[e][i])])

\* Credit of a channel is neither lost nor made, whatever is lost, repeated or
\* retransmitted: it is held by the sender, spent on a message the receiver has
\* not yet accepted, taken up by a message the receiver has not yet handled,
\* waiting there to be given back, or under way back.  (fc_credit_dec, TX,
\* add_channel_flow_credits, get_outgoing_credits, fc_credit_inc)
CreditOf(e, c) ==
    LET p == Peer(e)
        Spent(x) == FlitsOn(c, x.tlmsg)
        Given(x) == IF x.chan = c THEN x.credit ELSE 0
    IN  credits[e][c] + Unaccepted(e, Spent) + Buffered(p, c)
          + tx_flow_credits[p][c] + Unaccepted(p, Given)

CreditConservation ==
    \A e \in Endpoint : \A c \in Channel : CreditOf(e, c) = CREDIT

\* When allocations fail or a process exits, credit may be lost, but still none
\* is made: a sender never believes in room the receiver does not have.
CreditNeverMade ==
    \A e \in Endpoint : \A c \in Channel : CreditOf(e, c) <= CREDIT

\* No process exits: neither tl_msg_buffer nor ack_buffer overflows.  For
\* tl_msg_buffer this is what flow control is for.  (RX)
NoExit == \A e \in Endpoint : pc[e] # "exited"

\* The pair of endpoints is a remote memory: every request takes effect once,
\* in order, and is answered once, in order, with the right data; and, with
\* fairness, every request is answered.
RM == INSTANCE RemoteMemory
RemoteMemorySafe == RM!SafeSpec
RemoteMemoryLive == RM!Spec

\* Once the users stop, the traffic does: every frame gets acknowledged, and
\* acknowledgements are not acknowledged in turn for ever.
Idle == \A e \in Endpoint :
           fabric[e] = <<>> /\ retransmit_buffer[e] = <<>> /\ ack_buffer[e] = <<>>
EventuallyQuiet == <>[]Idle

(***************************************************************************)
(* What comments and assertions of the code say, and it does not do         *)
(***************************************************************************)
\* "A negative acknowledgment (NACK) is sent using the last properly received
\* sequence number" (serve_oos_request): when TX takes a NAK out of ack_buffer
\* and sends a frame, that frame is a NAK.
NakIsSent ==
    [][\A e \in Endpoint :
          (/\ ack_buffer[e] # <<>> /\ Head(ack_buffer[e]).ack = "NAK"
           /\ ack_buffer'[e] = Tail(ack_buffer[e])
           /\ next_tx_seq'[e] # next_tx_seq[e])
          => \E i \in DOMAIN fabric'[Peer(e)] : fabric'[Peer(e)][i].ack = "NAK"]_vars

\* BUG_ON(!enqueued, "failed to enqueue ack frame."): ack_buffer has room for
\* every duplicate and every frame out of sequence.
AckFrameEnqueued ==
    \A e \in Endpoint : pc[e] = "exited" => Len(ack_buffer[e]) < ACK_BUFFER_CAP
=============================================================================

------------------------ MODULE TLoEConnection_proofs ------------------------
(***************************************************************************)
(* Connections opened and closed any number of times: types, the window,    *)
(* and the worker at rest during a handshake.  The first connection: no     *)
(* frame under way is old, and no credit is made or lost, whatever frames   *)
(* are lost; and it can go on where none is.                                *)
(***************************************************************************)
EXTENDS TLoEConnection, TLoECredit_proofs

-----------------------------------------------------------------------------
(***************************************************************************)
(* Types                                                                    *)
(***************************************************************************)
\* Frames of the handshakes.
LEMMA ConnFrameType ==
  ASSUME NEW type \in {"NORMAL", "ACKONLY", "OPEN_CONNECTION", "CLOSE_CONNECTION"},
         NEW seq_num \in SeqNum, NEW next_rx \in SeqNum,
         NEW chan \in Channel \cup {0}, NEW credit \in Nat
  PROVE  ConnFrame(type, seq_num, next_rx, chan, credit) \in Frame
BY NextPrev DEF ConnFrame, Frame

LEMMA ChannelOrderType ==
  /\ DOMAIN ChannelOrder = 1 .. 2 /\ Len(ChannelOrder) = 2
  /\ \A i \in 1 .. 2 : ChannelOrder[i] \in Channel
BY SMT DEF ChannelOrder, Channel

\* The numbers of the handshake: one for each channel, and the next.
LEMMA HandshakeNumbers ==
  0 \in SeqNum /\ 1 \in SeqNum /\ 2 \in SeqNum /\ FIRST_SEQ = 2
<1>1. FIRST_SEQ = 2 /\ FIRST_SEQ \in SeqNum
  BY ConnectionAssumption, SizeAssumption, ChannelOrderType
<1> QED
  BY <1>1, SeqModAssumption, SMT DEF SeqNum, MAX_SEQ_NUM

LEMMA ServeFramesType ==
  ASSUME TypeOK, NEW e \in Endpoint
  PROVE  ServeFrames(e) \in Seq(Frame)
<1> DEFINE frame(i) == ConnFrame(IF e = Master /\ i = 1 THEN "OPEN_CONNECTION" ELSE "NORMAL",
                                 i - 1, next_rx_seq[e], ChannelOrder[i], CREDIT)
<1>1. ASSUME NEW i \in 1 .. 2 PROVE frame(i) \in Frame
  <2>1. i - 1 \in SeqNum
    BY HandshakeNumbers, SMT
  <2>2. next_rx_seq[e] \in SeqNum /\ CREDIT \in Nat /\ ChannelOrder[i] \in Channel
    BY SizeAssumption, ChannelOrderType DEF TypeOK
  <2> QED
    BY <2>1, <2>2, ConnFrameType
<1>2. ServeFrames(e) = [i \in 1 .. 2 |-> frame(i)]
  BY ChannelOrderType DEF ServeFrames
<1> HIDE DEF frame
<1>3. ServeFrames(e) \in [1 .. 2 -> Frame]
  BY <1>1, <1>2
<1>4. 2 \in Nat
  BY SMT
<1> QED
  BY <1>3, <1>4, SeqDef

LEMMA OneFrame ==
  ASSUME NEW f \in Frame
  PROVE  <<f>> \in Seq(Frame)
  OBVIOUS

\* Sending and taking keep the fabric.
LEMMA FabricTypes ==
  ASSUME TypeOK, NEW e \in Endpoint
  PROVE  /\ \A frames \in Seq(Frame) :
              /\ ToPeer(e, frames) \in [Endpoint -> Seq(Frame)]
              /\ fabric[e] # <<>> =>
                    [fabric EXCEPT ![e] = Tail(@), ![Peer(e)] = SendAll(@, frames)]
                        \in [Endpoint -> Seq(Frame)]
         /\ fabric[e] # <<>> =>
               Consume(e) \in [Endpoint -> Seq(Frame)] /\ Arrived(e) \in Frame
<1>1. fabric \in [Endpoint -> Seq(Frame)] /\ Peer(e) \in Endpoint
  BY DEF TypeOK, Peer, Endpoint
<1>2. fabric[e] # <<>> => Tail(fabric[e]) \in Seq(Frame) /\ Head(fabric[e]) \in Frame
  BY <1>1, HeadTailProperties
<1>3. fabric[e] # <<>> => Consume(e) \in [Endpoint -> Seq(Frame)] /\ Arrived(e) \in Frame
  BY <1>1, <1>2 DEF Consume, Arrived
<1>4. ASSUME NEW frames \in Seq(Frame)
      PROVE  ToPeer(e, frames) \in [Endpoint -> Seq(Frame)]
  <2>1. SendAll(fabric[Peer(e)], frames) \in Seq(Frame)
    BY <1>1, SendAllType
  <2> QED
    BY <1>1, <2>1 DEF ToPeer
<1>5. ASSUME NEW frames \in Seq(Frame), fabric[e] # <<>>
      PROVE  [fabric EXCEPT ![e] = Tail(@), ![Peer(e)] = SendAll(@, frames)]
                \in [Endpoint -> Seq(Frame)]
  <2> DEFINE new == SendAll(fabric[Peer(e)], frames)
             both == [fabric EXCEPT ![e] = Tail(fabric[e]), ![Peer(e)] = new]
  <2>1. new \in Seq(Frame)
    BY <1>1, SendAllType
  <2>2. Peer(e) # e
    BY EndpointAssumption DEF Peer, Endpoint
  <2>3. [fabric EXCEPT ![e] = Tail(@), ![Peer(e)] = SendAll(@, frames)] = both
    BY <1>1, <2>2
  <2> HIDE DEF new
  <2>4. both \in [Endpoint -> Seq(Frame)]
    BY <1>1, <1>2, <1>5, <2>1
  <2> QED
    BY <2>3, <2>4
<1> QED
  BY <1>3, <1>4, <1>5

\* What a step of a handshake may change.
LEMMA TypeAroundTraffic ==
  ASSUME TypeOK, UNCHANGED trafficVars,
         next_tx_seq' \in [Endpoint -> SeqNum], next_rx_seq' \in [Endpoint -> SeqNum],
         credits' \in [Endpoint -> [Channel -> Nat]],
         tx_flow_credits' \in [Endpoint -> [Channel -> Nat]],
         fabric' \in [Endpoint -> Seq(Frame)],
         UNCHANGED <<lost, alloc_failed, ahead>>, early' \in Nat
  PROVE  TypeOK'
BY DEF TypeOK, trafficVars, workVars, memVars, userVars

LEMMA TimerOutType ==
  ASSUME TypeOK, NEW e \in Endpoint, TimerOut(e)
  PROVE  early' \in Nat
<1>1. early \in Nat /\ early + 1 \in Nat
  BY SMT DEF TypeOK
<1> QED
  BY <1>1 DEF TimerOut

LEMMA TypeServe ==
  ASSUME TypeOK, NEW e \in Endpoint, serve_conn(e)
  PROVE  TypeOK'
<1>1. early' \in Nat
  BY TimerOutType DEF serve_conn
<1>2. fabric' \in [Endpoint -> Seq(Frame)]
  BY ServeFramesType, FabricTypes DEF serve_conn
<1>3. next_tx_seq' \in [Endpoint -> SeqNum]
  BY HandshakeNumbers, ChannelOrderType DEF serve_conn, TypeOK
<1>4. UNCHANGED <<trafficVars, next_rx_seq, credits, tx_flow_credits, lost, alloc_failed, ahead>>
  BY DEF serve_conn, creditVars
<1>5. /\ next_rx_seq' \in [Endpoint -> SeqNum]
      /\ credits' \in [Endpoint -> [Channel -> Nat]]
      /\ tx_flow_credits' \in [Endpoint -> [Channel -> Nat]]
  BY <1>4 DEF TypeOK
<1> QED
  BY <1>1, <1>2, <1>3, <1>4, <1>5, TypeAroundTraffic

LEMMA TypeTake ==
  ASSUME TypeOK, NEW e \in Endpoint, recv_conn_Take(e)
  PROVE  /\ next_rx_seq' \in [Endpoint -> SeqNum]
         /\ credits' \in [Endpoint -> [Channel -> Nat]]
         /\ tx_flow_credits' \in [Endpoint -> [Channel -> Nat]]
         /\ UNCHANGED <<trafficVars, lost, early, alloc_failed, ahead>>
         /\ fabric[e] # <<>> /\ Arrived(e) \in Frame
         /\ next_rx_seq'[e] \in SeqNum
<1> DEFINE f == Arrived(e)
<1>1. fabric[e] # <<>> /\ UNCHANGED <<trafficVars, lost, early, alloc_failed, ahead>>
  BY DEF recv_conn_Take, recv_conn, boundVars
<1>2. f \in Frame
  BY <1>1, FabricTypes
<1>3. /\ next_rx_seq' = [next_rx_seq EXCEPT ![e] = tloe_seqnum_next(f.seq_num)]
      /\ credits' = [credits EXCEPT ![e] = CreditSet(e, f)]
      /\ tx_flow_credits' = IF f.chan = 0 THEN tx_flow_credits
                            ELSE [tx_flow_credits EXCEPT ![e][f.chan] = 0]
  BY DEF recv_conn_Take
<1> HIDE DEF f
<1>4. f.seq_num \in SeqNum /\ f.chan \in Channel \cup {0} /\ f.credit \in Nat
  BY <1>2 DEF Frame
<1>5. tloe_seqnum_next(f.seq_num) \in SeqNum
  BY <1>4, NextPrev
<1>6. credits[e] \in [Channel -> Nat]
  BY DEF TypeOK
<1>7. CreditSet(e, f) \in [Channel -> Nat]
  BY <1>4, <1>6 DEF CreditSet
<1>8. next_rx_seq' \in [Endpoint -> SeqNum] /\ next_rx_seq'[e] \in SeqNum
  BY <1>3, <1>5 DEF TypeOK
<1>9. credits' \in [Endpoint -> [Channel -> Nat]]
  BY <1>3, <1>7 DEF TypeOK
<1>10. tx_flow_credits' \in [Endpoint -> [Channel -> Nat]]
  <2>1. CASE f.chan = 0
    BY <1>3, <2>1 DEF TypeOK
  <2>2. CASE f.chan # 0
    <3>1. 0 \in Nat
      BY SMT
    <3>2. tx_flow_credits' = [tx_flow_credits EXCEPT ![e][f.chan] = 0]
      BY <1>3, <2>2
    <3> QED
      BY <1>4, <2>2, <3>1, <3>2 DEF TypeOK
  <2> QED
    BY <2>1, <2>2
<1> QED
  BY <1>1, <1>2, <1>8, <1>9, <1>10 DEF f

LEMMA TypeRecvConn ==
  ASSUME TypeOK, NEW e \in Endpoint,
         recv_conn_Drop(e) \/ recv_conn_More(e) \/ recv_conn_Done(e)
  PROVE  TypeOK'
<1>1. CASE recv_conn_Drop(e)
  <2>1. /\ UNCHANGED <<trafficVars, lost, early, alloc_failed, ahead>>
        /\ UNCHANGED <<next_tx_seq, next_rx_seq, credits, tx_flow_credits>>
        /\ fabric' = Consume(e) /\ fabric[e] # <<>>
    BY <1>1 DEF recv_conn_Drop, recv_conn, boundVars, creditVars
  <2>2. /\ next_tx_seq' \in [Endpoint -> SeqNum] /\ next_rx_seq' \in [Endpoint -> SeqNum]
        /\ credits' \in [Endpoint -> [Channel -> Nat]]
        /\ tx_flow_credits' \in [Endpoint -> [Channel -> Nat]]
        /\ early' \in Nat
    BY <2>1 DEF TypeOK
  <2>3. fabric' \in [Endpoint -> Seq(Frame)]
    BY <2>1, FabricTypes
  <2> QED
    BY <2>1, <2>2, <2>3, TypeAroundTraffic
<1>2. CASE recv_conn_More(e)
  <2>1. recv_conn_Take(e) /\ fabric' = Consume(e) /\ UNCHANGED next_tx_seq
    BY <1>2 DEF recv_conn_More
  <2>2. fabric' \in [Endpoint -> Seq(Frame)]
    BY <2>1, TypeTake, FabricTypes
  <2>3. next_tx_seq' \in [Endpoint -> SeqNum] /\ early \in Nat
    BY <2>1 DEF TypeOK
  <2> QED
    BY <2>1, <2>2, <2>3, TypeTake, TypeAroundTraffic
<1>3. CASE recv_conn_Done(e)
  <2> DEFINE last == LastFrame(e, next_rx_seq'[e])
  <2>1. /\ recv_conn_Take(e)
        /\ fabric' = [fabric EXCEPT ![e] = Tail(@), ![Peer(e)] = SendAll(@, <<last>>)]
        /\ next_tx_seq' = [next_tx_seq EXCEPT
                              ![e] = IF e = Master THEN tloe_seqnum_next(@) ELSE @]
    BY <1>3 DEF recv_conn_Done
  <2>2. next_tx_seq[e] \in SeqNum /\ tloe_seqnum_next(next_tx_seq[e]) \in SeqNum
    BY NextPrev DEF TypeOK
  <2>3. last \in Frame
    <3>1. next_rx_seq'[e] \in SeqNum /\ 0 \in Nat /\ 0 \in Channel \cup {0}
      BY <2>1, TypeTake, SMT
    <3> QED
      BY <2>2, <3>1, ConnFrameType DEF LastFrame
  <2>4. next_tx_seq' \in [Endpoint -> SeqNum] /\ early \in Nat
    BY <2>1, <2>2 DEF TypeOK
  <2> HIDE DEF last
  <2>5. fabric' \in [Endpoint -> Seq(Frame)]
    BY <2>1, <2>3, TypeTake, FabricTypes, OneFrame
  <2> QED
    BY <2>1, <2>4, <2>5, TypeTake, TypeAroundTraffic
<1> QED
  BY <1>1, <1>2, <1>3

\* Closing makes everything anew.
LEMMA TypeReinit ==
  ASSUME TypeOK, NEW e \in Endpoint, Reinit(e), early' = early,
         fabric' \in [Endpoint -> Seq(Frame)]
  PROVE  TypeOK'
<1>1. UNCHANGED <<pc, request_tlmsg, buffer_select_counter, memVars, issued, lost, early,
                  alloc_failed>>
  BY DEF Reinit
<1>2. /\ message_buffer' = [message_buffer EXCEPT ![e] = <<>>]
      /\ response_buffer' = [response_buffer EXCEPT ![e] = <<>>]
      /\ tl_msg_buffer' = [tl_msg_buffer EXCEPT ![e] = <<>>]
      /\ retransmit_buffer' = [retransmit_buffer EXCEPT ![e] = <<>>]
      /\ ack_buffer' = [ack_buffer EXCEPT ![e] = <<>>]
  BY DEF Reinit, NewWindow
<1>3. /\ next_tx_seq' = [next_tx_seq EXCEPT ![e] = 0]
      /\ next_rx_seq' = [next_rx_seq EXCEPT ![e] = 0]
      /\ should_send_ackonly_frame' = [should_send_ackonly_frame EXCEPT ![e] = FALSE]
      /\ ackonly_frame_sent' = [ackonly_frame_sent EXCEPT ![e] = FALSE]
      /\ credits' = [credits EXCEPT ![e] = [c \in Channel |-> CREDIT_INIT]]
      /\ tx_flow_credits' = [tx_flow_credits EXCEPT ![e] = [c \in Channel |-> 0]]
      /\ ahead' = "none"
  BY DEF Reinit
<1>4. 0 \in SeqNum /\ 0 \in Nat /\ CREDIT_INIT \in Nat
  BY HandshakeNumbers, ConnectionAssumption, SMT
<1>5. /\ message_buffer' \in [Endpoint -> Seq(Request)]
      /\ response_buffer' \in [Endpoint -> Seq(Response)]
      /\ tl_msg_buffer' \in [Endpoint -> Seq(TLMsg)]
      /\ retransmit_buffer' \in [Endpoint -> Seq(Element)]
      /\ ack_buffer' \in [Endpoint -> Seq(AckEntry)]
  BY <1>2, EmptySeq DEF TypeOK
<1>6. /\ next_tx_seq' \in [Endpoint -> SeqNum] /\ next_rx_seq' \in [Endpoint -> SeqNum]
      /\ should_send_ackonly_frame' \in [Endpoint -> BOOLEAN]
      /\ ackonly_frame_sent' \in [Endpoint -> BOOLEAN]
      /\ credits' \in [Endpoint -> [Channel -> Nat]]
      /\ tx_flow_credits' \in [Endpoint -> [Channel -> Nat]]
  BY <1>3, <1>4 DEF TypeOK
<1> QED
  BY <1>1, <1>3, <1>5, <1>6 DEF TypeOK, memVars

LEMMA CloseFrameType ==
  ASSUME TypeOK, NEW e \in Endpoint
  PROVE  <<CloseFrame(e)>> \in Seq(Frame)
<1>1. 0 \in Nat /\ 0 \in Channel \cup {0}
  BY SMT
<1>2. next_tx_seq[e] \in SeqNum /\ next_rx_seq[e] \in SeqNum
  BY DEF TypeOK
<1>3. CloseFrame(e) \in Frame
  BY <1>1, <1>2, ConnFrameType DEF CloseFrame
<1> QED
  BY <1>3, OneFrame

\* The loops of close_conn_master and close_conn_slave.
LEMMA TypeClose ==
  ASSUME TypeOK, NEW e \in Endpoint, CloseStep(e)
  PROVE  TypeOK'
<1>1. Master \in Endpoint /\ Slave \in Endpoint
  BY DEF Endpoint
<1>2. /\ next_tx_seq \in [Endpoint -> SeqNum] /\ next_rx_seq \in [Endpoint -> SeqNum]
      /\ credits \in [Endpoint -> [Channel -> Nat]]
      /\ tx_flow_credits \in [Endpoint -> [Channel -> Nat]]
      /\ early \in Nat
  BY DEF TypeOK
<1>3. CASE recv_close_Drop(e)
  <2>1. /\ UNCHANGED <<trafficVars, next_tx_seq, next_rx_seq, credits, tx_flow_credits>>
        /\ UNCHANGED <<lost, early, alloc_failed, ahead>>
        /\ fabric[e] # <<>> /\ fabric' = Consume(e)
    BY <1>3 DEF recv_close_Drop, recv_close, creditVars, boundVars
  <2>2. fabric' \in [Endpoint -> Seq(Frame)]
    BY <2>1, FabricTypes
  <2> QED
    BY <1>2, <2>1, <2>2, TypeAroundTraffic
<1>4. CASE serve_close_master
  <2>1. /\ UNCHANGED <<trafficVars, next_tx_seq, next_rx_seq, credits, tx_flow_credits>>
        /\ UNCHANGED <<lost, alloc_failed, ahead>>
        /\ TimerOut(Master) /\ fabric' = ToPeer(Master, <<CloseFrame(Master)>>)
    BY <1>4 DEF serve_close_master, creditVars
  <2>2. fabric' \in [Endpoint -> Seq(Frame)]
    BY <1>1, <2>1, CloseFrameType, FabricTypes
  <2>3. early' \in Nat
    BY <1>1, <2>1, TimerOutType
  <2> QED
    BY <1>2, <2>1, <2>2, <2>3, TypeAroundTraffic
<1>5. CASE recv_close_master
  <2>1. Reinit(Master) /\ early' = early /\ fabric[Master] # <<>> /\ fabric' = Consume(Master)
    BY <1>5 DEF recv_close_master, recv_close
  <2>2. fabric' \in [Endpoint -> Seq(Frame)]
    BY <1>1, <2>1, FabricTypes
  <2> QED
    BY <1>1, <2>1, <2>2, TypeReinit
<1>6. CASE recv_close_slave
  <2>1. /\ UNCHANGED <<trafficVars, next_tx_seq, credits, tx_flow_credits>>
        /\ UNCHANGED <<lost, early, alloc_failed, ahead>>
        /\ fabric[Slave] # <<>> /\ fabric' = Consume(Slave)
        /\ next_rx_seq' = [next_rx_seq EXCEPT
                              ![Slave] = tloe_seqnum_next(Arrived(Slave).seq_num)]
    BY <1>6 DEF recv_close_slave, recv_close, creditVars, boundVars
  <2>2. fabric' \in [Endpoint -> Seq(Frame)] /\ Arrived(Slave).seq_num \in SeqNum
    BY <1>1, <2>1, FabricTypes DEF Frame
  <2>3. next_rx_seq' \in [Endpoint -> SeqNum]
    BY <1>2, <2>1, <2>2, NextPrev
  <2> QED
    BY <1>2, <2>1, <2>2, <2>3, TypeAroundTraffic
<1>7. CASE serve_close_slave
  <2>1. /\ UNCHANGED <<trafficVars, next_tx_seq, next_rx_seq, credits, tx_flow_credits>>
        /\ UNCHANGED <<lost, early, alloc_failed, ahead>>
        /\ fabric' = ToPeer(Slave, <<CloseFrame(Slave)>>)
    BY <1>7 DEF serve_close_slave, creditVars, boundVars
  <2>2. fabric' \in [Endpoint -> Seq(Frame)]
    BY <1>1, <2>1, CloseFrameType, FabricTypes
  <2> QED
    BY <1>2, <2>1, <2>2, TypeAroundTraffic
<1>8. CASE last_recv_slave
  <2>1. /\ Reinit(Slave) /\ early' = early
        /\ fabric' = IF fabric[Slave] = <<>> THEN fabric ELSE Consume(Slave)
    BY <1>8 DEF last_recv_slave
  <2>2. fabric' \in [Endpoint -> Seq(Frame)]
    BY <1>1, <2>1, FabricTypes DEF TypeOK
  <2> QED
    BY <1>1, <2>1, <2>2, TypeReinit
<1> QED
  BY <1>3, <1>4, <1>5, <1>6, <1>7, <1>8 DEF CloseStep

\* The worker returns when the user quits.
LEMMA TypeEnd ==
  ASSUME TypeOK, NEW e \in Endpoint, tloe_endpoint_close(e)
  PROVE  TypeOK'
<1>1. pc' = [pc EXCEPT ![e] = "ended"]
  BY DEF tloe_endpoint_close, GoTo
<1>2. pc' \in [Endpoint -> {"select", "tx", "rx", "tl", "exited", "ended"}]
  BY <1>1 DEF TypeOK
<1>3. UNCHANGED <<workVars, tl_msg_buffer, linkVars, creditVars, memVars, userVars, boundVars>>
  BY DEF tloe_endpoint_close
<1> QED
  BY <1>2, <1>3 DEF TypeOK, workVars, linkVars, creditVars, memVars, userVars, boundVars

\* Every step is one of the handshake, one of the traffic, or leaves both alone.
LEMMA ConnCases ==
  ASSUME [ConnNext]_allVars
  PROVE  \/ \E e \in Endpoint : OpenStep(e) \/ CloseStep(e) \/ tloe_endpoint_close(e)
         \/ \E e \in Endpoint : Open(e) \/ Close(e) \/ Quit(e)
         \/ Next /\ UNCHANGED connVars
         \/ UNCHANGED allVars
BY DEF ConnNext, MainThread, ConnWorker, ConnSubmit, Next

LEMMA ConnTypeStep ==
  ASSUME TypeOK, [ConnNext]_allVars
  PROVE  TypeOK'
<1>1. ASSUME NEW e \in Endpoint, OpenStep(e) PROVE TypeOK'
  BY <1>1, TypeServe, TypeRecvConn DEF OpenStep
<1>2. ASSUME NEW e \in Endpoint, Open(e) \/ Close(e) \/ Quit(e) PROVE UNCHANGED vars
  BY <1>2 DEF Open, Close, Quit
<1>3. CASE UNCHANGED allVars
  BY <1>3, TypeStep DEF allVars
<1> QED
  BY <1>1, <1>2, <1>3, TypeClose, TypeEnd, TypeStep, ConnCases

\* The variables of the connection.
ConnVarsType ==
    /\ connection \in [Endpoint -> BOOLEAN]
    /\ main \in [Endpoint -> {"idle", "opening", "closing", "leaving", "quitting", "gone"}]
    /\ conn_flag \in [Endpoint -> BOOLEAN]
    /\ timer \in [Endpoint -> {"run_out", "running", "never"}]
    /\ opens \in [Endpoint -> Nat]

LEMMA ConnVarsStep ==
  ASSUME ConnVarsType, [ConnNext]_allVars
  PROVE  ConnVarsType'
<1>1. Master \in Endpoint /\ Slave \in Endpoint
  BY DEF Endpoint
<1>2. ASSUME NEW e \in Endpoint, Open(e) PROVE ConnVarsType'
  <2>1. opens[e] + 1 \in Nat
    BY SMT DEF ConnVarsType
  <2> QED
    BY <1>2, <2>1 DEF Open, ConnVarsType
<1>3. ASSUME NEW e \in Endpoint, Close(e) \/ Quit(e) \/ tloe_endpoint_close(e)
      PROVE  ConnVarsType'
  BY <1>3 DEF Close, Quit, tloe_endpoint_close, ConnVarsType
<1>4. ASSUME NEW e \in Endpoint, serve_conn(e) PROVE ConnVarsType'
  BY <1>4 DEF serve_conn, ConnVarsType
<1>5. ASSUME NEW e \in Endpoint, recv_conn_Drop(e) PROVE ConnVarsType'
  BY <1>5 DEF recv_conn_Drop, recv_conn, ConnVarsType
<1>6. ASSUME NEW e \in Endpoint, recv_conn_Take(e)
      PROVE  opens' = opens /\ conn_flag' \in [Endpoint -> BOOLEAN]
  <2>1. \E b \in BOOLEAN : conn_flag' = [conn_flag EXCEPT ![e] = b]
    <3>1. conn_flag' = [conn_flag EXCEPT
                           ![e] = conn_flag[e] \/ Arrived(e).type = "OPEN_CONNECTION"]
      BY <1>6 DEF recv_conn_Take, ConnVarsType
    <3> QED
      BY <3>1
  <2> QED
    BY <1>6, <2>1 DEF recv_conn_Take, recv_conn, ConnVarsType
<1>7. ASSUME NEW e \in Endpoint, recv_conn_More(e) PROVE ConnVarsType'
  BY <1>6, <1>7 DEF recv_conn_More, ConnVarsType
<1>8. ASSUME NEW e \in Endpoint, recv_conn_Done(e) PROVE ConnVarsType'
  BY <1>6, <1>8 DEF recv_conn_Done, ConnVarsType
<1>9. ASSUME NEW e \in Endpoint, CloseStep(e) PROVE ConnVarsType'
  BY <1>1, <1>9 DEF CloseStep, recv_close_Drop, serve_close_master, recv_close_master,
                    recv_close_slave, serve_close_slave, last_recv_slave, Reinit,
                    connVars, ConnVarsType
<1>10. CASE UNCHANGED connVars
  BY <1>10 DEF connVars, ConnVarsType
<1> QED
  BY <1>2, <1>3, <1>4, <1>5, <1>7, <1>8, <1>9, <1>10, ConnCases DEF OpenStep, allVars

-----------------------------------------------------------------------------
(***************************************************************************)
(* The worker during a handshake                                            *)
(***************************************************************************)
\* The worker is between two iterations, and has nothing to work on but the
\* message it may keep at hand.
AtRest(e) ==
    /\ pc[e] = "select"
    /\ message_buffer[e] = <<>> /\ response_buffer[e] = <<>> /\ tl_msg_buffer[e] = <<>>
    /\ retransmit_buffer[e] = <<>> /\ ack_buffer[e] = <<>>

\* Without a connection the worker of an endpoint that is not closing rests.
\* In particular the main thread opens with the worker at rest: the loops of
\* open_conn_* and RX never take each other's frames, and the numbers they set
\* do not cut a window in two.  The worker is only let go by connection, and
\* only tloe_endpoint_init empties its queues.  Two things this takes from the
\* model of the users and the worker, not from checks in the code: nobody opens
\* while connected (Open), and the worker has ended its iteration when
\* tloe_endpoint_init makes the queues anew (Reinit).
RestAt(e) ==
    /\ main[e] = "opening" => ~connection[e]
    /\ ~connection[e] /\ main[e] \in {"idle", "opening"} => AtRest(e)

RestInv == \A e \in Endpoint : RestAt(e)

\* What the worker of another endpoint leaves alone.
Own(p) == <<pc[p], message_buffer[p], response_buffer[p], tl_msg_buffer[p],
            retransmit_buffer[p], ack_buffer[p]>>

LEMMA WorkerOwn ==
  ASSUME TypeOK, NEW e \in Endpoint, NEW p \in Endpoint, p # e,
         Worker(e) \/ Submit(e) \/ Lose(e)
  PROVE  UNCHANGED Own(p)
<1>1. CASE Select(e)
  BY <1>1 DEF Select, Select_Pending, Select_Response, Select_Request, SelectBuffer,
              GoTo, workVars, linkVars, Own, TypeOK
<1>2. ASSUME NEW elapsed, NEW buffer, NEW frames, TX(e, elapsed, buffer, frames)
      PROVE  UNCHANGED <<pc[p], message_buffer[p], response_buffer[p], tl_msg_buffer[p],
                         retransmit_buffer[p]>>
  BY <1>2 DEF TX, GoTo, userVars, TypeOK
<1>3. ASSUME NEW elapsed, Transmit(e, elapsed) PROVE UNCHANGED Own(p)
  <2>1. ack_buffer'[p] = ack_buffer[p]
    BY <1>3 DEF Transmit, TX_Nothing, TX_Send, TX_AllocFailed, MakeFrame, TypeOK
  <2>2. \E buffer, frames : TX(e, elapsed, buffer, frames)
    BY <1>3 DEF Transmit, TX_Nothing, TX_Send, TX_AllocFailed
  <2> QED
    BY <1>2, <2>1, <2>2 DEF Own
<1>4. ASSUME RX(e)
      PROVE  /\ retransmit_buffer'[p] = retransmit_buffer[p]
             /\ message_buffer' = message_buffer /\ response_buffer' = response_buffer
  BY <1>4 DEF RX, workVars, userVars, TypeOK
<1>5. CASE Receive(e)
  <2>1. CASE RX_Empty(e)
    BY <2>1 DEF RX_Empty, GoTo, workVars, linkVars, userVars, Own, TypeOK
  <2>2. CASE RX_AckOnly(e)
    BY <1>4, <2>2 DEF RX_AckOnly, GoTo, Own, TypeOK
  <2>3. CASE RX_Normal(e) \/ RX_Zero(e)
    BY <1>4, <2>3 DEF RX_Normal, RX_Zero, RX_Class, Accept, GoTo, Own, TypeOK
  <2>4. CASE RX_Duplicate(e) \/ RX_OutOfSequence(e)
    BY <1>4, <2>4 DEF RX_Duplicate, RX_OutOfSequence, RX_Class, Report, GoTo, Own, TypeOK
  <2> QED
    BY <1>5, <2>1, <2>2, <2>3, <2>4 DEF Receive
<1>6. CASE Handle(e)
  <2>1. CASE TL_Skip(e)
    BY <2>1 DEF TL_Skip, GoTo, workVars, linkVars, userVars, Own, TypeOK
  <2>2. ASSUME tl_handler(e)
        PROVE  /\ pc'[p] = pc[p] /\ tl_msg_buffer'[p] = tl_msg_buffer[p]
               /\ message_buffer' = message_buffer
               /\ retransmit_buffer' = retransmit_buffer /\ ack_buffer' = ack_buffer
    BY <2>2 DEF tl_handler, GoTo, linkVars, userVars, TypeOK
  <2>3. CASE \/ handle_A_PUTFULLDATA_opcode(e) \/ handle_A_GET_opcode(e)
             \/ handle_D_opcode(e)
    <3>1. response_buffer'[p] = response_buffer[p]
      BY <2>3 DEF handle_A_PUTFULLDATA_opcode, handle_A_GET_opcode, handle_D_opcode,
                  Respond, TypeOK
    <3> QED
      BY <2>2, <2>3, <3>1 DEF handle_A_PUTFULLDATA_opcode, handle_A_GET_opcode,
                              handle_D_opcode, Own
  <2> QED
    BY <1>6, <2>1, <2>3 DEF Handle
<1>7. CASE Submit(e)
  <2>1. PICK req : message_buffer' = [message_buffer EXCEPT ![e] = Append(@, req)]
    BY <1>7 DEF Submit
  <2>2. UNCHANGED <<pc, response_buffer, tl_msg_buffer, retransmit_buffer, ack_buffer>>
    BY <1>7 DEF Submit, workVars, linkVars
  <2> QED
    BY <2>1, <2>2 DEF Own, TypeOK
<1>8. CASE Lose(e)
  BY <1>8 DEF Lose, workVars, userVars, Own
<1> QED
  BY <1>1, <1>3, <1>5, <1>6, <1>7, <1>8 DEF Worker

LEMMA RestKept ==
  ASSUME NEW p \in Endpoint, RestAt(p), UNCHANGED Own(p),
         main'[p] = main[p], connection'[p] = connection[p]
  PROVE  RestAt(p)'
BY DEF RestAt, AtRest, Own

LEMMA TrafficOwn ==
  ASSUME UNCHANGED trafficVars, NEW p \in Endpoint
  PROVE  UNCHANGED Own(p)
BY DEF trafficVars, workVars, userVars, Own

\* The main thread of one endpoint leaves the other alone.
LEMMA MainOwn ==
  ASSUME TypeOK, ConnVarsType, NEW e \in Endpoint, NEW p \in Endpoint, p # e,
         \/ Open(e) \/ Close(e) \/ Quit(e)
         \/ OpenStep(e) \/ CloseStep(e) \/ tloe_endpoint_close(e)
  PROVE  UNCHANGED Own(p) /\ main'[p] = main[p] /\ connection'[p] = connection[p]
<1>1. CASE Open(e) \/ Close(e) \/ Quit(e)
  BY <1>1 DEF Open, Close, Quit, vars, workVars, linkVars, userVars, Own, ConnVarsType
<1>2. CASE tloe_endpoint_close(e)
  BY <1>2 DEF tloe_endpoint_close, GoTo, workVars, linkVars, userVars, Own, TypeOK,
              ConnVarsType
<1>3. CASE OpenStep(e)
  <2>1. UNCHANGED trafficVars
    BY <1>3 DEF OpenStep, serve_conn, recv_conn_Drop, recv_conn_More, recv_conn_Done,
                recv_conn_Take, recv_conn
  <2>2. main'[p] = main[p] /\ connection'[p] = connection[p]
    BY <1>3 DEF OpenStep, serve_conn, recv_conn_Drop, recv_conn_More, recv_conn_Done,
                ConnVarsType
  <2> QED
    BY <2>1, <2>2, TrafficOwn
<1>4. ASSUME Reinit(e)
      PROVE  UNCHANGED Own(p) /\ main'[p] = main[p] /\ connection'[p] = connection[p]
  BY <1>4 DEF Reinit, NewWindow, Own, TypeOK, ConnVarsType
<1>5. CASE CloseStep(e)
  <2>1. CASE recv_close_Drop(e)
    BY <2>1, TrafficOwn DEF recv_close_Drop, connVars
  <2>2. CASE e = Master /\ (serve_close_master \/ recv_close_master)
    BY <1>4, <2>2, TrafficOwn DEF serve_close_master, recv_close_master
  <2>3. CASE e = Slave /\ (recv_close_slave \/ serve_close_slave \/ last_recv_slave)
    <3>1. CASE recv_close_slave
      BY <3>1, TrafficOwn DEF recv_close_slave
    <3>2. CASE serve_close_slave
      BY <2>3, <3>2, TrafficOwn DEF serve_close_slave, ConnVarsType
    <3>3. CASE last_recv_slave
      BY <1>4, <2>3, <3>3 DEF last_recv_slave
    <3> QED
      BY <2>3, <3>1, <3>2, <3>3
  <2> QED
    BY <1>5, <2>1, <2>2, <2>3 DEF CloseStep
<1> QED
  BY <1>1, <1>2, <1>3, <1>5

\* tloe_endpoint_init leaves the endpoint at rest.
LEMMA ReinitRest ==
  ASSUME TypeOK, NEW e \in Endpoint, Reinit(e)
  PROVE  AtRest(e)'
BY DEF Reinit, NewWindow, AtRest, TypeOK

LEMMA MainRest ==
  ASSUME TypeOK, ConnVarsType, NEW e \in Endpoint, RestAt(e),
         \/ Open(e) \/ Close(e) \/ Quit(e)
         \/ OpenStep(e) \/ CloseStep(e) \/ tloe_endpoint_close(e)
  PROVE  RestAt(e)'
<1>1. CASE Open(e)
  <2>1. AtRest(e) /\ UNCHANGED <<vars, connection>>
    BY <1>1 DEF Open, RestAt
  <2>2. AtRest(e)'
    BY <2>1 DEF AtRest, vars, workVars, linkVars, userVars
  <2> QED
    BY <1>1, <2>1, <2>2 DEF Open, RestAt
<1>2. CASE Close(e) \/ Quit(e) \/ tloe_endpoint_close(e)
  <2>1. main'[e] \in {"closing", "quitting", "gone"}
    BY <1>2 DEF Close, Quit, tloe_endpoint_close, ConnVarsType
  <2> QED
    BY <2>1 DEF RestAt
<1>3. ASSUME UNCHANGED <<trafficVars, main, connection>> PROVE RestAt(e)'
  BY <1>3, TrafficOwn, RestKept
<1>4. CASE OpenStep(e)
  <2>1. CASE serve_conn(e) \/ recv_conn_Drop(e) \/ recv_conn_More(e)
    BY <1>3, <2>1 DEF serve_conn, recv_conn_Drop, recv_conn_More, recv_conn_Take, recv_conn
  <2>2. CASE recv_conn_Done(e)
    <3>1. main'[e] = "idle" /\ connection'[e]
      BY <2>2 DEF recv_conn_Done, ConnVarsType
    <3> QED
      BY <3>1 DEF RestAt
  <2> QED
    BY <1>4, <2>1, <2>2 DEF OpenStep
<1>5. ASSUME Reinit(e) PROVE RestAt(e)'
  <2>1. main'[e] = "idle"
    BY <1>5 DEF Reinit, ConnVarsType
  <2> QED
    BY <1>5, <2>1, ReinitRest DEF RestAt
<1>6. CASE CloseStep(e)
  <2>1. CASE recv_close_Drop(e)
    BY <1>3, <2>1 DEF recv_close_Drop, connVars
  <2>2. CASE e = Master /\ (serve_close_master \/ recv_close_master)
    BY <1>3, <1>5, <2>2 DEF serve_close_master, recv_close_master
  <2>3. CASE e = Slave /\ (recv_close_slave \/ serve_close_slave \/ last_recv_slave)
    <3>1. CASE recv_close_slave
      BY <1>3, <3>1 DEF recv_close_slave
    <3>2. CASE serve_close_slave
      <4>1. main'[e] = "leaving"
        BY <2>3, <3>2 DEF serve_close_slave, ConnVarsType
      <4> QED
        BY <4>1 DEF RestAt
    <3>3. CASE last_recv_slave
      BY <1>5, <2>3, <3>3 DEF last_recv_slave
    <3> QED
      BY <2>3, <3>1, <3>2, <3>3
  <2> QED
    BY <1>6, <2>1, <2>2, <2>3 DEF CloseStep
<1> QED
  BY <1>1, <1>2, <1>4, <1>6

\* The worker of an endpoint at rest does nothing.
LEMMA WorkerRest ==
  ASSUME TypeOK, ConnVarsType, NEW e \in Endpoint, RestAt(e),
         ConnWorker(e) \/ ConnSubmit(e)
  PROVE  RestAt(e)'
<1>1. UNCHANGED connVars
  BY DEF ConnWorker, ConnSubmit
<1>2. CASE connection[e]
  BY <1>1, <1>2 DEF connVars, RestAt
<1>3. CASE ~connection[e]
  <2>1. pc[e] # "select"
    BY <1>3 DEF ConnWorker, ConnSubmit
  <2>2. main[e] \notin {"idle", "opening"}
    BY <1>3, <2>1 DEF RestAt, AtRest
  <2> QED
    BY <1>1, <2>2 DEF connVars, RestAt
<1> QED
  BY <1>2, <1>3 DEF ConnVarsType

LEMMA RestStep ==
  ASSUME TypeOK, ConnVarsType, RestInv, [ConnNext]_allVars
  PROVE  RestInv'
<1>1. \A p \in Endpoint : RestAt(p)
  BY DEF RestInv
<1>2. ASSUME NEW p \in Endpoint, UNCHANGED connVars, UNCHANGED Own(p) PROVE RestAt(p)'
  BY <1>1, <1>2, RestKept DEF connVars
<1>3. SUFFICES ASSUME NEW p \in Endpoint PROVE RestAt(p)'
  BY <1>3 DEF RestInv
<1>4. ASSUME NEW e \in Endpoint, MainThread(e), ~ConnSubmit(e) PROVE RestAt(p)'
  <2>1. \/ Open(e) \/ Close(e) \/ Quit(e)
        \/ OpenStep(e) \/ CloseStep(e) \/ tloe_endpoint_close(e)
    BY <1>4 DEF MainThread
  <2>2. CASE p = e
    BY <1>1, <2>1, <2>2, MainRest
  <2>3. CASE p # e
    BY <1>1, <2>1, <2>3, MainOwn, RestKept
  <2> QED
    BY <2>2, <2>3
<1>5. ASSUME NEW e \in Endpoint, ConnWorker(e) \/ ConnSubmit(e) PROVE RestAt(p)'
  <2>1. CASE p = e
    BY <1>1, <1>5, <2>1, WorkerRest
  <2>2. CASE p # e
    <3>1. UNCHANGED connVars /\ (Worker(e) \/ Submit(e))
      BY <1>5 DEF ConnWorker, ConnSubmit
    <3> QED
      BY <1>2, <2>2, <3>1, WorkerOwn
  <2> QED
    BY <2>1, <2>2
<1>6. ASSUME NEW e \in Endpoint, Lose(e), UNCHANGED connVars PROVE RestAt(p)'
  <2>1. UNCHANGED Own(p)
    BY <1>6 DEF Lose, workVars, userVars, Own
  <2> QED
    BY <1>2, <1>6, <2>1
<1>7. CASE UNCHANGED allVars
  <2>1. UNCHANGED connVars /\ UNCHANGED Own(p)
    BY <1>7 DEF allVars, vars, workVars, linkVars, userVars, Own
  <2> QED
    BY <1>2, <2>1
<1> QED
  BY <1>4, <1>5, <1>6, <1>7 DEF ConnNext

LEMMA WindowMain ==
  ASSUME TypeOK, ConnVarsType, RestInv, WindowInv, NEW e \in Endpoint,
         OpenStep(e) \/ CloseStep(e) \/ tloe_endpoint_close(e)
  PROVE  WindowInv'
<1>1. ASSUME UNCHANGED retransmit_buffer, retransmit_buffer[e] = <<>>,
             \A p \in Endpoint : p # e => next_tx_seq'[p] = next_tx_seq[p]
      PROVE  WindowInv'
  BY <1>1, EmptyWindow DEF WindowInv
<1>2. ASSUME UNCHANGED <<retransmit_buffer, next_tx_seq>> PROVE WindowInv'
  BY <1>2, WindowKept
<1>3. CASE OpenStep(e)
  <2>1. main[e] = "opening"
    BY <1>3 DEF OpenStep, serve_conn, recv_conn_Drop, recv_conn_More, recv_conn_Done,
                recv_conn_Take, recv_conn
  <2>2. retransmit_buffer[e] = <<>>
    BY <2>1 DEF RestInv, RestAt, AtRest
  <2>3. UNCHANGED trafficVars
    BY <1>3 DEF OpenStep, serve_conn, recv_conn_Drop, recv_conn_More, recv_conn_Done,
                recv_conn_Take, recv_conn
  <2>4. \A p \in Endpoint : p # e => next_tx_seq'[p] = next_tx_seq[p]
    BY <1>3 DEF OpenStep, serve_conn, recv_conn_Drop, recv_conn_More, recv_conn_Done,
                TypeOK
  <2> QED
    BY <1>1, <2>2, <2>3, <2>4 DEF trafficVars
<1>4. ASSUME Reinit(e) PROVE WindowInv'
  <2>1. retransmit_buffer'[e] = <<>>
    BY <1>4 DEF Reinit, NewWindow, TypeOK
  <2>2. \A p \in Endpoint : p # e => /\ next_tx_seq'[p] = next_tx_seq[p]
                                     /\ retransmit_buffer'[p] = retransmit_buffer[p]
    BY <1>4 DEF Reinit, NewWindow, TypeOK
  <2> QED
    BY <2>1, <2>2, EmptyWindow DEF WindowInv
<1>5. CASE CloseStep(e)
  BY <1>2, <1>4, <1>5 DEF CloseStep, recv_close_Drop, serve_close_master,
       recv_close_master, recv_close_slave, serve_close_slave, last_recv_slave, trafficVars
<1>6. CASE tloe_endpoint_close(e)
  BY <1>2, <1>6 DEF tloe_endpoint_close, linkVars
<1> QED
  BY <1>3, <1>5, <1>6

LEMMA ConnWindowStep ==
  ASSUME TypeOK, ConnVarsType, RestInv, WindowInv, [ConnNext]_allVars
  PROVE  WindowInv'
<1>1. ASSUME NEW e \in Endpoint, Open(e) \/ Close(e) \/ Quit(e) PROVE UNCHANGED vars
  BY <1>1 DEF Open, Close, Quit
<1>2. UNCHANGED allVars => UNCHANGED vars
  BY DEF allVars
<1> QED
  BY <1>1, <1>2, WindowMain, WindowStep, ConnCases

LEMMA ConnRestInit ==
  ASSUME ConnInit
  PROVE  TypeOK /\ ConnVarsType /\ RestInv /\ WindowInv
<1>1. 0 \in SeqNum /\ 0 \in Nat /\ CREDIT_INIT \in Nat /\ 4 \in 1 .. 4
  BY HandshakeNumbers, ConnectionAssumption, SMT
<1>2. TypeOK
  BY <1>1, EmptySeq DEF ConnInit, TypeOK
<1>3. ConnVarsType
  BY <1>1 DEF ConnInit, ConnVarsType
<1>4. RestInv
  BY DEF ConnInit, RestInv, RestAt, AtRest
<1>5. WindowInv
  BY EmptyWindow DEF ConnInit, WindowInv
<1> QED
  BY <1>2, <1>3, <1>4, <1>5

-----------------------------------------------------------------------------
\* Every variable of the endpoints and of their connections has its type, for
\* any number of connections.  (tloe_connection.c, the commands c, d and q of
\* tloe_endpoint.c)
THEOREM ConnTypeCorrect == ConnSpec => []ConnTypeOK
<1>1. (TypeOK /\ ConnVarsType) <=> ConnTypeOK
  BY DEF ConnTypeOK, ConnVarsType
<1> QED
  BY <1>1, ConnRestInit, ConnTypeStep, ConnVarsStep, PTL DEF ConnSpec

\* RestInv in every state, for any number of connections, losses and timeouts,
\* and also when users close what is not open.  (tloe_endpoint's loop,
\* open_conn_master, open_conn_slave, tloe_endpoint_init)
THEOREM OpensAtRest == ConnSpec => []RestInv
BY ConnRestInit, ConnTypeStep, ConnVarsStep, RestStep, PTL DEF ConnSpec

\* The retransmit buffer stays a window over all connections, though the main
\* thread sets next_tx_seq in each handshake.  (open_conn_master,
\* open_conn_slave, tloe_endpoint_init, TX, slide_window)
THEOREM ConnWindowCorrect == ConnSpec => []WindowInv
BY ConnRestInit, ConnTypeStep, ConnVarsStep, RestStep, ConnWindowStep, PTL DEF ConnSpec

-----------------------------------------------------------------------------
(***************************************************************************)
(* The first connection of both endpoints, with any losses                  *)
(***************************************************************************)
\* A frame is repeated at most a window and a handshake behind the next one.
SPAN == WINDOW_SIZE + FIRST_SEQ

Recent(reports, expected) ==
    \A i \in DOMAIN reports : Dist(reports[i].seq_num_ack, expected) <= SPAN

\* The receiver, which has taken least frames of the handshake, still waits for
\* one, which is in no window: those in the window start with number first.
Awaits(least, first, next, expected, buffer, reports) ==
    /\ expected \in least .. first - 1 /\ next = first + Len(buffer)
    /\ Recent(reports, expected)

\* One direction of the connection, as in Link, but without what its frames
\* carry, and with the frames of the handshake.
Stream(least, first, next, expected, buffer, frames, acks, reports) ==
    LET missing == Dist(expected, next)
    IN  /\ NumbersInOrder(frames, next, missing, SPAN)
        /\ AcksInOrder(acks, next, missing, Len(buffer))
        /\ \A i \in DOMAIN reports : reports[i].seq_num_ack # expected
        /\ \/ missing <= Len(buffer)
           \/ Awaits(least, first, next, expected, buffer, reports)

\* The number of the first frame e keeps, and the number e at least waits for.
First(e) == IF e = Master /\ connection[e] THEN FIRST_SEQ + 1 ELSE FIRST_SEQ
Least(e) == IF connection[e] THEN FIRST_SEQ ELSE 0

StreamFrom(e) ==
    Stream(Least(Peer(e)), First(e), next_tx_seq[e], next_rx_seq[Peer(e)], retransmit_buffer[e],
           fabric[Peer(e)], fabric[e], ack_buffer[Peer(e)])

\* The stages of an endpoint in its first connection.
Fresh(e) == /\ opens[e] = 0 /\ main[e] = "idle" /\ ~connection[e]
            /\ next_tx_seq[e] = 0 /\ next_rx_seq[e] = 0
Opening(e) == opens[e] >= 1 /\ main[e] = "opening" /\ ~connection[e]
Up(e) == opens[e] >= 1 /\ main[e] \in {"idle", "quitting", "gone"} /\ connection[e]
Closed(e) == /\ opens[e] >= 1 \/ main[e] \in {"quitting", "gone"}
             /\ main[e] # "opening" /\ ~connection[e]

Wordless(queue) == \A i \in DOMAIN queue : queue[i].tlmsg = NoMsg
Creditless(queue) == \A i \in DOMAIN queue : queue[i].chan = 0

\* e has nothing to say that gives credit.
Silent(e) ==
    /\ tl_msg_buffer[e] = <<>>
    /\ tx_flow_credits[e] = [c \in Channel |-> 0]
    /\ Creditless(retransmit_buffer[e])

\* e opens and will never have all its credit: its peer serves no more, and
\* nothing under way gives any.
Hopeless(e) ==
    LET p == Peer(e)
    IN  /\ Opening(e) /\ ~check_all_channels(credits[e])
        /\ Up(p) \/ (Opening(p) /\ p = Slave /\ timer[p] = "never")
        /\ Creditless(fabric[e]) /\ Wordless(fabric[p]) /\ Silent(p)

Doomed == \E e \in Endpoint : Closed(e) \/ Hopeless(e)

\* Frames under way to an endpoint that is not connected: those of its peer's
\* handshake, and after them those its peer sends once connected.
HandshakeFrame(e, f) ==
    \E i \in DOMAIN ChannelOrder :
        /\ f.seq_num = i - 1 /\ f.chan = ChannelOrder[i] /\ f.credit = CREDIT
        /\ f.type = IF e = Master /\ i = 1 THEN "OPEN_CONNECTION" ELSE "NORMAL"

LateFrame(f) == f.chan = 0 /\ f.seq_num >= FIRST_SEQ /\ f.type # "OPEN_CONNECTION"

Handshaking(p, queue, up) ==
    /\ \A i \in DOMAIN queue : HandshakeFrame(p, queue[i]) \/ (LateFrame(queue[i]) /\ up)
    /\ \A i, j \in DOMAIN queue : i < j /\ LateFrame(queue[i]) => LateFrame(queue[j])

HandshakeFirst(e) == Handshaking(Peer(e), fabric[e], Up(Peer(e)))

\* What e has sent before it is connected, and what it has taken.
Served(e) ==
    /\ next_tx_seq[e] \in {0, FIRST_SEQ}
    /\ next_tx_seq[e] = 0 =>
          /\ fabric[Peer(e)] = <<>> /\ next_rx_seq[Peer(e)] = 0
          /\ \A i \in DOMAIN fabric[e] : fabric[e][i].seq_num_ack = tloe_seqnum_prev(0)
    /\ \A i \in DOMAIN fabric[e] :
          Dist(fabric[e][i].seq_num_ack, next_tx_seq[e]) <= SPAN + FIRST_SEQ

Taken(e) ==
    /\ next_rx_seq[e] \in {0, 1}
    /\ \A i \in DOMAIN ChannelOrder :
          credits[e][ChannelOrder[i]] > CREDIT_INIT <=> i <= next_rx_seq[e]

\* Its loop: the timer runs once it has sent, and the slave sends nothing before
\* the opening frame has come.
Loop(e) ==
    /\ timer[e] # "never"
    /\ timer[e] = "running" => next_tx_seq[e] = FIRST_SEQ
    /\ e = Slave => IF conn_flag[e] THEN next_rx_seq[e] = 1 ELSE next_tx_seq[e] = 0

\* Its peer p, when connected, has taken the whole handshake and nothing since.
Ahead(p) ==
    /\ next_rx_seq[p] = FIRST_SEQ /\ next_tx_seq[Peer(p)] = FIRST_SEQ
    /\ next_tx_seq[p] = First(p) + Len(retransmit_buffer[p])
    /\ Recent(ack_buffer[p], FIRST_SEQ)

NotUp(e) ==
    /\ Served(e) /\ Taken(e) /\ HandshakeFirst(e)
    /\ Opening(e) => Loop(e)
    /\ Up(Peer(e)) => Ahead(Peer(e))
    /\ Wordless(fabric[Peer(e)]) /\ Silent(Peer(e))

Alive ==
    \A e \in Endpoint : /\ Fresh(e) \/ Opening(e) \/ Up(e)
                        /\ ~Up(e) => NotUp(e)
                        /\ StreamFrom(e)

FirstOpen == \A e \in Endpoint : opens[e] <= 1

\* As long as neither user has opened twice, both may still be, or come to be,
\* connected, and then no number under way is old; or one has closed, or will
\* open forever.
OpenInv == FirstOpen => Doomed \/ Alive

\* Room on the ring for a handshake as well as a window, on both sides of the
\* next number (4 + 5 of 2^21 in the code).
RoomForHandshake == 2 * WINDOW_SIZE + 2 * FIRST_SEQ + 2 <= HALF_MAX_SEQ_NUM

LEMMA SpanSizes ==
  ASSUME RoomForHandshake
  PROVE  /\ FIRST_SEQ = 2 /\ SPAN = WINDOW_SIZE + 2 /\ SPAN \in Nat
         /\ SPAN + 3 <= ACK_HORIZON /\ SPAN + SPAN + 2 <= HALF_MAX_SEQ_NUM
BY HandshakeNumbers, Sizes, SMT DEF RoomForHandshake, SPAN

\* A frame the receiver still waits for is ahead of the whole window.
LEMMA AwaitsAhead ==
  ASSUME RoomForHandshake, NEW least \in {0, 2}, NEW first \in {2, 3},
         NEW next \in SeqNum, NEW expected \in SeqNum,
         NEW kept \in Nat, kept <= WINDOW_SIZE, expected \in least .. first - 1, next = first + kept
  PROVE  /\ Dist(expected, next) = first + kept - expected
         /\ Dist(expected, next) > kept /\ Dist(expected, next) <= SPAN + 1
         /\ Dist(expected, next) + SPAN <= kept + ACK_HORIZON
<1>1. expected \in Nat /\ next \in Nat /\ first \in Nat
  BY SMT DEF SeqNum
<1>2. Dist(expected, next) = first + kept - expected
  BY <1>1, SMT DEF Dist
<1> QED
  BY <1>1, <1>2, SpanSizes, Sizes, SMT

\* How much the receiver of a stream may miss.
LEMMA StreamSizes ==
  ASSUME RoomForHandshake, NEW least \in {0, 2}, NEW first \in {2, 3},
         NEW next \in SeqNum, NEW expected \in SeqNum,
         NEW buffer, Len(buffer) \in Nat, Len(buffer) <= WINDOW_SIZE,
         NEW frames, NEW acks, NEW reports,
         Stream(least, first, next, expected, buffer, frames, acks, reports)
  PROVE  LET missing == Dist(expected, next)
         IN  /\ missing \in Nat /\ missing <= SPAN + 1
             /\ missing + SPAN < HALF_MAX_SEQ_NUM /\ missing + SPAN + 1 < SEQ_MOD - 1
             /\ missing <= Len(buffer)
                  \/ /\ missing > Len(buffer) /\ missing + SPAN <= Len(buffer) + ACK_HORIZON
                     /\ Awaits(least, first, next, expected, buffer, reports)
<1> DEFINE missing == Dist(expected, next)
<1>1. missing \in Nat
  BY MissingType
<1>2. missing <= Len(buffer) \/ Awaits(least, first, next, expected, buffer, reports)
  BY DEF Stream
<1>3. Awaits(least, first, next, expected, buffer, reports) =>
         /\ missing > Len(buffer) /\ missing <= SPAN + 1
         /\ missing + SPAN <= Len(buffer) + ACK_HORIZON
  BY AwaitsAhead DEF Awaits
<1> HIDE DEF missing
<1>4. missing <= SPAN + 1
  BY <1>1, <1>2, <1>3, SpanSizes, Sizes, SMT
<1>5. missing + SPAN < HALF_MAX_SEQ_NUM /\ missing + SPAN + 1 < SEQ_MOD - 1
  BY <1>1, <1>4, SpanSizes, Sizes, SMT
<1> QED
  BY <1>1, <1>2, <1>3, <1>4, <1>5 DEF missing

LEMMA StreamThins ==
  ASSUME NEW least, NEW first, NEW next, NEW expected, NEW buffer, NEW frames, NEW acks,
         NEW reports,
         Stream(least, first, next, expected, buffer, frames, acks, reports),
         NEW fewer, Thinned(fewer, frames), NEW fewerAcks, Thinned(fewerAcks, acks)
  PROVE  Stream(least, first, next, expected, buffer, fewer, fewerAcks, reports)
BY NumbersThin, AcksThin DEF Stream

\* The sender repeats frames of its window or of the handshake.
LEMMA StreamSends ==
  ASSUME RoomForHandshake, NEW least, NEW first, NEW next \in SeqNum, NEW expected \in SeqNum,
         NEW buffer, NEW frames \in Seq(Frame), NEW acks, NEW reports,
         Stream(least, first, next, expected, buffer, frames, acks, reports),
         NEW new \in Seq(Frame),
         \A k \in DOMAIN new : Numbered(new[k]) => Dist(new[k].seq_num, next) \in 1 .. SPAN
  PROVE  Stream(least, first, next, expected, buffer, frames \o new, acks, reports)
<1>1. Dist(expected, next) \in Nat /\ SPAN \in Nat
  BY MissingType, SpanSizes
<1> QED
  BY <1>1, NumbersSend DEF Stream

\* The receiver acknowledges frames it has accepted lately: how lately, depends
\* on whether it still waits for the handshake.
LEMMA StreamAcks ==
  ASSUME RoomForHandshake, NEW least \in {0, 2}, NEW first \in {2, 3},
         NEW next \in SeqNum, NEW expected \in SeqNum,
         NEW buffer, Len(buffer) \in Nat, Len(buffer) <= WINDOW_SIZE,
         NEW frames, NEW acks \in Seq(Frame), NEW reports,
         Stream(least, first, next, expected, buffer, frames, acks, reports),
         NEW new \in Seq(Frame),
         \A k \in DOMAIN new :
            /\ Dist(new[k].seq_num_ack, expected) \in 1 .. ACK_HORIZON
            /\ Recent(reports, expected) => Dist(new[k].seq_num_ack, expected) \in 1 .. SPAN
  PROVE  Stream(least, first, next, expected, buffer, frames, acks \o new, reports)
<1> DEFINE missing == Dist(expected, next)
<1>1. /\ missing \in Nat
      /\ missing <= Len(buffer)
           \/ /\ missing + SPAN <= Len(buffer) + ACK_HORIZON
              /\ Awaits(least, first, next, expected, buffer, reports)
  BY StreamSizes
<1>2. AcksInOrder(acks, next, missing, Len(buffer))
  BY DEF Stream
<1>3. Len(buffer) + ACK_HORIZON < SEQ_MOD
  BY Sizes, SMT
<1>4. AcksInOrder(acks \o new, next, missing, Len(buffer))
  <2>1. CASE missing <= Len(buffer)
    <3>1. missing + ACK_HORIZON <= Len(buffer) + ACK_HORIZON /\ ACK_HORIZON <= ACK_HORIZON
      <4> HIDE DEF missing
      <4> QED
        BY <1>1, <2>1, Sizes, SMT
    <3> QED
      BY <1>2, <1>3, <3>1, AcksAdd, Sizes
  <2>2. CASE /\ missing + SPAN <= Len(buffer) + ACK_HORIZON
             /\ Awaits(least, first, next, expected, buffer, reports)
    <3>1. SPAN \in Nat /\ SPAN <= ACK_HORIZON
      BY SpanSizes, Sizes, SMT
    <3>2. \A k \in DOMAIN new : Dist(new[k].seq_num_ack, expected) \in 1 .. SPAN
      BY <2>2 DEF Awaits
    <3> QED
      BY <1>2, <1>3, <2>2, <3>1, <3>2, AcksAdd
  <2> QED
    BY <1>1, <2>1, <2>2
<1> QED
  BY <1>4 DEF Stream

\* The sender numbers a frame and keeps it (TX).
LEMMA StreamNext ==
  ASSUME RoomForHandshake, NEW least \in {0, 2}, NEW first \in {2, 3},
         NEW next \in SeqNum, NEW expected \in SeqNum,
         NEW buffer \in Seq(Element), Len(buffer) < WINDOW_SIZE, NEW x \in Element,
         NEW frames \in Seq(Frame), NEW acks \in Seq(Frame), NEW reports,
         Stream(least, first, next, expected, buffer, frames, acks, reports)
  PROVE  Stream(least, first, tloe_seqnum_next(next), expected, Append(buffer, x), frames, acks,
                reports)
<1> DEFINE missing == Dist(expected, next)
           longer == Append(buffer, x)
           nn == tloe_seqnum_next(next)
<1>1. /\ NumbersInOrder(frames, next, missing, SPAN)
      /\ AcksInOrder(acks, next, missing, Len(buffer))
      /\ \A i \in DOMAIN reports : reports[i].seq_num_ack # expected
  BY DEF Stream
<1>2. Len(longer) = Len(buffer) + 1 /\ Len(buffer) \in Nat /\ Len(buffer) <= WINDOW_SIZE
  BY AppendProperties, LenProperties, Sizes, SMT
<1>3. /\ missing \in Nat /\ missing + SPAN < SEQ_MOD - 1 /\ missing < SEQ_MOD - 1
      /\ missing <= Len(buffer) \/ Awaits(least, first, next, expected, buffer, reports)
  <2>1. missing \in Nat /\ missing + SPAN + 1 < SEQ_MOD - 1
    BY <1>2, StreamSizes
  <2> HIDE DEF missing
  <2>2. missing + SPAN < SEQ_MOD - 1 /\ missing < SEQ_MOD - 1
    BY <2>1, SpanSizes, SeqModAssumption, SMT
  <2> QED
    BY <2>1, <2>2 DEF Stream, missing
<1>4. Dist(expected, nn) = missing + 1
  BY <1>3, DistStep
<1> HIDE DEF missing, longer
<1>5. Len(buffer) + ACK_HORIZON < SEQ_MOD - 1 /\ SPAN \in Nat
  BY <1>2, SpanSizes, Sizes, SMT
<1>6. /\ NumbersInOrder(frames, nn, missing + 1, SPAN)
      /\ AcksInOrder(acks, nn, missing + 1, Len(longer))
  BY <1>1, <1>2, <1>3, <1>5, NumbersNext, AcksNext
<1>7. missing + 1 <= Len(longer) \/ Awaits(least, first, nn, expected, longer, reports)
  <2>1. CASE missing <= Len(buffer)
    BY <1>2, <1>3, <2>1, SMT
  <2>2. CASE Awaits(least, first, next, expected, buffer, reports)
    <3>1. expected \in least .. first - 1 /\ next = first + Len(buffer) /\ Recent(reports, expected)
      BY <2>2 DEF Awaits
    <3>2. nn = first + Len(longer)
      <4>1. next # MAX_SEQ_NUM
        BY <1>2, <3>1, Sizes, SpanSizes, SMT DEF MAX_SEQ_NUM
      <4>2. nn = next + 1
        BY <4>1 DEF tloe_seqnum_next
      <4> QED
        BY <1>2, <3>1, <4>2, SMT
    <3> QED
      BY <3>1, <3>2 DEF Awaits
  <2> QED
    BY <1>3, <2>1, <2>2
<1> QED
  BY <1>1, <1>4, <1>6, <1>7 DEF Stream, longer

\* The receiver takes the oldest frame, which is the one it expects (Accept,
\* recv_conn_Take).
LEMMA StreamAccepts ==
  ASSUME RoomForHandshake, NEW least \in {0, 2}, NEW first \in {2, 3},
         NEW next \in SeqNum, NEW expected \in SeqNum,
         NEW buffer, Len(buffer) \in Nat, Len(buffer) <= WINDOW_SIZE,
         NEW frames \in Seq(Frame), frames # <<>>, NEW acks \in Seq(Frame),
         NEW reports \in Seq(AckEntry),
         Stream(least, first, next, expected, buffer, frames, acks, reports),
         Numbered(Head(frames)), Head(frames).seq_num = expected,
         \A i \in DOMAIN reports : Dist(reports[i].seq_num_ack, expected) <= ACK_HORIZON,
         reports = <<>> \/ first <= least + 1
  PROVE  Stream(least, first, next, tloe_seqnum_next(expected), buffer, Tail(frames), acks, reports)
<1> DEFINE missing == Dist(expected, next)
           rest == Tail(frames)
           ne == tloe_seqnum_next(expected)
<1>1. /\ NumbersInOrder(frames, next, missing, SPAN)
      /\ AcksInOrder(acks, next, missing, Len(buffer))
      /\ \A i \in DOMAIN reports : reports[i].seq_num_ack # expected
  BY DEF Stream
<1>2. missing \in Nat /\ SPAN \in Nat
  BY MissingType, SpanSizes
<1>3. missing >= 1 /\ NumbersInOrder(rest, next, missing - 1, SPAN)
  BY <1>1, <1>2, NumbersAccept
<1>4. Dist(ne, next) = missing - 1
  BY <1>2, <1>3, DistStep, SMT
<1>5. AcksInOrder(acks, next, missing - 1, Len(buffer))
  BY <1>1, <1>2, <1>3, AcksAccept
<1>6. \A i \in DOMAIN reports : reports[i].seq_num_ack # ne
  BY <1>1, ReportsAccept DEF ne
<1>7. missing - 1 <= Len(buffer) \/ Awaits(least, first, next, ne, buffer, reports)
  <2>1. CASE missing <= Len(buffer)
    <3> HIDE DEF missing
    <3> QED
      BY <1>2, <2>1, SMT
  <2>2. CASE Awaits(least, first, next, expected, buffer, reports)
    <3>1. expected \in least .. first - 1 /\ next = first + Len(buffer) /\ expected \in Nat
      BY <2>2, SMT DEF Awaits, SeqNum
    <3>2. missing = first + Len(buffer) - expected
      BY <3>1, AwaitsAhead
    <3>3. ne = expected + 1
      <4>1. expected # MAX_SEQ_NUM
        BY <3>1, Sizes, SpanSizes, SMT DEF MAX_SEQ_NUM
      <4> QED
        BY <4>1 DEF ne, tloe_seqnum_next
    <3> HIDE DEF missing, ne
    <3>4. CASE expected + 1 = first
      BY <3>1, <3>2, <3>4, SMT
    <3>5. CASE expected + 1 # first
      <4>1. ne \in least .. first - 1 /\ reports = <<>>
        BY <3>1, <3>3, <3>5, SMT
      <4>2. Recent(reports, ne)
        BY <4>1, SMT DEF Recent
      <4> QED
        BY <3>1, <4>1, <4>2 DEF Awaits
    <3> QED
      BY <3>4, <3>5
  <2> QED
    BY <2>1, <2>2 DEF Stream
<1> QED
  BY <1>3, <1>4, <1>5, <1>6, <1>7 DEF Stream, ne, rest

\* The sender takes the oldest acknowledgement: its window slides, but not as
\* long as the receiver waits for the handshake.
LEMMA StreamSlides ==
  ASSUME RoomForHandshake, NEW least \in {0, 2}, NEW first \in {2, 3},
         NEW next \in SeqNum, NEW expected \in SeqNum,
         NEW buffer \in Seq(Element), IsWindow(buffer, next),
         NEW frames, NEW acks \in Seq(Frame), acks # <<>>, NEW reports,
         Stream(least, first, next, expected, buffer, frames, acks, reports)
  PROVE  LET left == slide_window(buffer, Head(acks).seq_num_ack)
         IN  /\ Stream(least, first, next, expected, left, frames, Tail(acks), reports)
             /\ expected \in least .. first - 1 /\ next = first + Len(buffer) =>
                   Len(left) = Len(buffer)
<1> DEFINE missing == Dist(expected, next)
           n == Head(acks).seq_num_ack
           c == Dist(n, next)
           left == slide_window(buffer, n)
<1>1. /\ NumbersInOrder(frames, next, missing, SPAN)
      /\ AcksInOrder(acks, next, missing, Len(buffer))
      /\ \A i \in DOMAIN reports : reports[i].seq_num_ack # expected
      /\ missing <= Len(buffer) \/ Awaits(least, first, next, expected, buffer, reports)
  BY DEF Stream
<1>2. missing \in Nat
  BY MissingType
<1>3. n \in SeqNum /\ c \in Nat /\ c \in missing + 1 .. Len(buffer) + ACK_HORIZON
  BY <1>1, TailElements, FrameNumbers DEF AcksInOrder
<1>4. Len(buffer) \in Nat /\ Len(buffer) <= WINDOW_SIZE
  BY LenProperties DEF IsWindow
<1> HIDE DEF n
<1>5. left \in Seq(Element) /\ Len(left) = IF c <= Len(buffer) THEN c - 1 ELSE Len(buffer)
  <2>1. c >= 1 /\ c <= Len(buffer) + ACK_HORIZON
    BY <1>2, <1>3, <1>4, Sizes, SMT
  <2> QED
    BY <1>3, <2>1, SlidesExactly
<1>6. Len(left) \in Nat
  BY <1>5, LenProperties
<1>7. AcksInOrder(Tail(acks), next, missing, Len(left))
  BY <1>1, <1>2, <1>4, <1>5, <1>6, AcksSlide DEF n
<1> HIDE DEF left, c
<1>8. expected \in least .. first - 1 /\ next = first + Len(buffer) => Len(left) = Len(buffer)
  <2> SUFFICES ASSUME expected \in least .. first - 1, next = first + Len(buffer)
               PROVE  Len(left) = Len(buffer)
    OBVIOUS
  <2>1. missing > Len(buffer)
    BY <1>4, AwaitsAhead
  <2> HIDE DEF missing
  <2> QED
    BY <1>2, <1>3, <1>4, <1>5, <2>1, Sizes, SMT
<1>9. missing <= Len(left) \/ Awaits(least, first, next, expected, left, reports)
  <2>1. CASE missing <= Len(buffer)
    <3> HIDE DEF missing
    <3> QED
      BY <1>2, <1>3, <1>4, <1>5, <2>1, Sizes, SMT
  <2>2. CASE Awaits(least, first, next, expected, buffer, reports)
    BY <1>8, <2>2 DEF Awaits
  <2> QED
    BY <1>1, <2>1, <2>2
<1> QED
  BY <1>1, <1>7, <1>8, <1>9 DEF Stream, Awaits, left, n

\* The entries of ack_buffer change, and stay recent if they were.
LEMMA StreamReports ==
  ASSUME NEW least, NEW first, NEW next, NEW expected, NEW buffer, NEW frames, NEW acks,
         NEW reports, Stream(least, first, next, expected, buffer, frames, acks, reports),
         NEW others, \A i \in DOMAIN others : others[i].seq_num_ack # expected,
         Recent(reports, expected) => Recent(others, expected)
  PROVE  Stream(least, first, next, expected, buffer, frames, acks, others)
BY DEF Stream, Awaits

\* The receiver is let go when it has taken the handshake.
LEMMA StreamRaises ==
  ASSUME NEW first, NEW next, NEW expected, NEW buffer, NEW frames, NEW acks, NEW reports,
         Stream(0, first, next, expected, buffer, frames, acks, reports),
         expected = 2
  PROVE  Stream(2, first, next, expected, buffer, frames, acks, reports)
<1>1. \A n : 2 \in 0 .. n => 2 \in 2 .. n
  BY SMT
<1> QED
  BY <1>1 DEF Stream, Awaits

\* The first time the handshake is sent, nothing has been before (serve_conn).
LEMMA StreamServes ==
  ASSUME RoomForHandshake, NEW acks \in Seq(Frame),
         \A i \in DOMAIN acks : acks[i].seq_num_ack = tloe_seqnum_prev(0)
  PROVE  Stream(0, 2, 2, 0, <<>>, <<>>, acks, <<>>)
<1>1. Dist(0, 2) = 2 /\ Dist(tloe_seqnum_prev(0), 2) = 3
  BY SpanSizes, Sizes, SMT DEF Dist, tloe_seqnum_prev, MAX_SEQ_NUM
<1>2. DOMAIN <<>> = {} /\ Len(<<>>) = 0
  BY SMT
<1>3. 3 \in 2 + 1 .. 0 + ACK_HORIZON /\ 3 < 3 + ACK_HORIZON
  BY SpanSizes, Sizes, SMT
<1>4. AcksInOrder(acks, 2, 2, 0)
  BY <1>1, <1>3 DEF AcksInOrder
<1>5. NumbersInOrder(<<>>, 2, 2, SPAN)
  BY <1>2 DEF NumbersInOrder
<1>6. Awaits(0, 2, 2, 0, <<>>, <<>>)
  BY <1>2, SMT DEF Awaits, Recent
<1> QED
  BY <1>1, <1>2, <1>4, <1>5, <1>6 DEF Stream

\* The master numbers its last frame of the handshake and does not keep it.
LEMMA StreamLast ==
  ASSUME RoomForHandshake, NEW least \in {0, 2}, NEW expected \in SeqNum, expected <= 2,
         NEW frames \in Seq(Frame), NEW acks \in Seq(Frame), NEW reports,
         Stream(least, 2, 2, expected, <<>>, frames, acks, reports), least <= expected,
         Recent(reports, expected),
         \A i \in DOMAIN acks : Dist(acks[i].seq_num_ack, 2) <= SPAN + 2
  PROVE  Stream(least, 3, 3, expected, <<>>, frames, acks, reports)
<1> DEFINE missing == Dist(expected, 2)
<1>1. /\ NumbersInOrder(frames, 2, missing, SPAN)
      /\ AcksInOrder(acks, 2, missing, 0)
      /\ \A i \in DOMAIN reports : reports[i].seq_num_ack # expected
  <2>1. Len(<<>>) = 0
    BY SMT
  <2> QED
    BY <2>1 DEF Stream
<1>2. /\ missing = 2 - expected /\ Dist(expected, 3) = missing + 1
      /\ expected \in Nat /\ missing \in Nat
  BY SMT DEF Dist, SeqNum
<1>3. 2 \in SeqNum /\ tloe_seqnum_next(2) = 3
  BY HandshakeNumbers, SpanSizes, Sizes, SMT DEF tloe_seqnum_next, MAX_SEQ_NUM
<1> HIDE DEF missing
<1>4. NumbersInOrder(frames, 3, missing + 1, SPAN)
  <2>1. missing + SPAN < SEQ_MOD - 1 /\ SPAN \in Nat
    BY <1>2, SpanSizes, Sizes, SMT
  <2> QED
    BY <1>1, <1>2, <1>3, <2>1, NumbersNext
<1>5. AcksInOrder(acks, 3, missing + 1, 0)
  <2>1. AcksInOrder(acks, 3, missing + 1, 0 + 1)
    <3>1. 0 + ACK_HORIZON < SEQ_MOD - 1 /\ 0 \in Nat
      BY Sizes, SMT
    <3> QED
      BY <1>1, <1>2, <1>3, <3>1, AcksNext
  <2>2. ASSUME NEW i \in DOMAIN acks
        PROVE  Dist(acks[i].seq_num_ack, 3) \in missing + 1 + 1 .. 0 + ACK_HORIZON
    <3> DEFINE n == acks[i].seq_num_ack
    <3>1. n \in SeqNum /\ Dist(n, 2) \in Nat /\ Dist(n, 2) <= SPAN + 2
      BY <1>3, FrameNumbers
    <3>2. Dist(n, 3) = Dist(n, 2) + 1
      <4>1. Dist(n, 2) < SEQ_MOD - 1
        BY <3>1, SpanSizes, Sizes, SMT
      <4> QED
        BY <1>3, <3>1, <4>1, DistStep
    <3>3. Dist(n, 3) \in missing + 1 + 1 .. 0 + 1 + ACK_HORIZON
      BY <2>1 DEF AcksInOrder
    <3> HIDE DEF n
    <3>4. Dist(n, 3) \in missing + 1 + 1 .. 0 + ACK_HORIZON
      BY <1>2, <3>1, <3>2, <3>3, SpanSizes, Sizes, SMT
    <3> QED
      BY <3>4 DEF n
  <2> QED
    BY <2>1, <2>2 DEF AcksInOrder
<1>6. Len(<<>>) = 0
  BY SMT
<1>7. Awaits(least, 3, 3, expected, <<>>, reports)
  <2>1. expected \in least .. 3 - 1 /\ 3 = 3 + 0
    BY <1>2, SMT
  <2> QED
    BY <1>6, <2>1 DEF Awaits
<1> QED
  BY <1>1, <1>2, <1>4, <1>5, <1>6, <1>7 DEF Stream

-----------------------------------------------------------------------------
(***************************************************************************)
(* What the worker of an endpoint sends and changes                         *)
(***************************************************************************)
\* Frames TX and RX send: numbered ones are in the window, and their
\* acknowledgement is a current one or the oldest in ack_buffer.
Says(f, buffer, next, expected, reports) ==
    /\ f.type \in {"NORMAL", "ACKONLY"}
    /\ Numbered(f) => \E i \in DOMAIN buffer : ElementOf(f) = buffer[i]
    /\ ~Numbered(f) => f.seq_num = next /\ f.chan = 0
    /\ \/ f.seq_num_ack = tloe_seqnum_prev(expected)
       \/ reports # <<>> /\ f.seq_num_ack = Head(reports).seq_num_ack

Said(frames, buffer, next, expected, reports) ==
    /\ frames \in Seq(Frame)
    /\ \A k \in DOMAIN frames : Says(frames[k], buffer, next, expected, reports)

LEMMA SaidConcat ==
  ASSUME NEW buffer, NEW next, NEW expected, NEW reports, NEW a, NEW b,
         Said(a, buffer, next, expected, reports), Said(b, buffer, next, expected, reports)
  PROVE  Said(a \o b, buffer, next, expected, reports)
<1>1. a \in Seq(Frame) /\ b \in Seq(Frame)
  BY DEF Said
<1>2. /\ a \o b \in Seq(Frame)
      /\ \A k \in DOMAIN (a \o b) :
            \/ k \in DOMAIN a /\ (a \o b)[k] = a[k]
            \/ k - Len(a) \in DOMAIN b /\ (a \o b)[k] = b[k - Len(a)]
  BY <1>1, ConcatElements
<1> QED
  BY <1>2, Zenon DEF Said

LEMMA SaidOne ==
  ASSUME NEW buffer, NEW next, NEW expected, NEW reports, NEW f \in Frame,
         f.type \in {"NORMAL", "ACKONLY"},
         Numbered(f) => \E i \in DOMAIN buffer : ElementOf(f) = buffer[i],
         ~Numbered(f) => f.seq_num = next /\ f.chan = 0,
         \/ f.seq_num_ack = tloe_seqnum_prev(expected)
         \/ reports # <<>> /\ f.seq_num_ack = Head(reports).seq_num_ack
  PROVE  Said(<<f>>, buffer, next, expected, reports)
<1>1. <<f>> \in Seq(Frame) /\ DOMAIN <<f>> = {1} /\ <<f>>[1] = f
  BY SMT
<1> QED
  BY <1>1, Zenon DEF Said, Says

LEMMA SaidNone ==
  ASSUME NEW buffer, NEW next, NEW expected, NEW reports
  PROVE  Said(<<>>, buffer, next, expected, reports)
<1>1. <<>> \in Seq(Frame) /\ DOMAIN <<>> = {}
  BY EmptySeq, SMT
<1> QED
  BY <1>1 DEF Said

LEMMA SaidRetransmit ==
  ASSUME TypeOK, NEW e \in Endpoint, NEW buffer \in Seq(Element), NEW n, NEW next, NEW reports
  PROVE  Said(retransmit(e, buffer, n), buffer, next, next_rx_seq[e], reports)
<1> DEFINE frames == retransmit(e, buffer, n)
           again == SuffixFrom(buffer, {i \in DOMAIN buffer :
                                           tloe_seqnum_cmp(buffer[i].seq_num, n) >= 0})
           frame(k) == [type |-> "NORMAL", seq_num |-> again[k].seq_num,
                        seq_num_ack |-> tloe_seqnum_prev(next_rx_seq[e]), ack |-> "ACK",
                        tlmsg |-> again[k].tlmsg, chan |-> again[k].chan,
                        credit |-> again[k].credit]
<1>1. /\ frames \in Seq(Frame)
      /\ \A k \in DOMAIN frames : Numbered(frames[k]) =>
            \E i \in DOMAIN buffer : ElementOf(frames[k]) = buffer[i]
  BY ProperRetransmit DEF Proper
<1>2. frames = [k \in DOMAIN again |-> frame(k)]
  BY DEF retransmit
<1> HIDE DEF again
<1>3. ASSUME NEW k \in DOMAIN frames
      PROVE  /\ frames[k].type = "NORMAL" /\ Numbered(frames[k])
             /\ frames[k].seq_num_ack = tloe_seqnum_prev(next_rx_seq[e])
  <2>1. frames[k] = frame(k)
    BY <1>2
  <2> HIDE DEF frames
  <2> QED
    BY <2>1 DEF Numbered
<1> HIDE DEF frames
<1> QED
  BY <1>1, <1>3, Zenon DEF Said, Says, frames

LEMMA SaidTX ==
  ASSUME TypeOK, NEW e \in Endpoint, NEW elapsed, NEW buffer \in Seq(Element), NEW reports,
         NEW frames, Said(frames, buffer, next_tx_seq[e], next_rx_seq[e], reports)
  PROVE  Said(AckOnlyFrames(e, elapsed) \o frames \o TimeoutFrames(e, elapsed, buffer),
              buffer, next_tx_seq[e], next_rx_seq[e], reports)
<1> DEFINE N == next_tx_seq[e]
           R == next_rx_seq[e]
           f == AckOnlyFrame(e)
<1>1. R \in SeqNum /\ N \in SeqNum
  BY DEF TypeOK
<1>2. f \in Frame
  BY <1>1, NextPrev, SMT DEF AckOnlyFrame, Frame
<1>3. ~Numbered(f) /\ f.type = "ACKONLY" /\ f.seq_num_ack = tloe_seqnum_prev(R)
      /\ f.seq_num = N /\ f.chan = 0
  BY DEF AckOnlyFrame, Numbered
<1>4. Said(<<f>>, buffer, N, R, reports)
  BY <1>2, <1>3, SaidOne
<1>5. Said(<<>>, buffer, N, R, reports)
  BY SaidNone
<1>6. Said(AckOnlyFrames(e, elapsed), buffer, N, R, reports)
  BY <1>4, <1>5, SaidConcat DEF AckOnlyFrames
<1>7. Said(TimeoutFrames(e, elapsed, buffer), buffer, N, R, reports)
  BY <1>5, SaidRetransmit DEF TimeoutFrames
<1> QED
  BY <1>6, <1>7, SaidConcat

\* What stays as it is of an endpoint when its peer works.
Kept(p) == <<next_tx_seq[p], retransmit_buffer[p], ack_buffer[p], tl_msg_buffer[p],
             credits[p], tx_flow_credits[p], next_rx_seq[p]>>

\* A call of TX.
Transmits(e) ==
    /\ \E sent : /\ Said(sent, retransmit_buffer'[e], next_tx_seq[e], next_rx_seq[e], ack_buffer[e])
                 /\ fabric' = [fabric EXCEPT ![Peer(e)] = SendAll(@, sent)]
    /\ next_rx_seq'[e] = next_rx_seq[e] /\ tl_msg_buffer'[e] = tl_msg_buffer[e]
    /\ \/ next_tx_seq'[e] = next_tx_seq[e] /\ retransmit_buffer'[e] = retransmit_buffer[e]
       \/ /\ Len(retransmit_buffer[e]) < WINDOW_SIZE
          /\ next_tx_seq'[e] = tloe_seqnum_next(next_tx_seq[e])
          /\ \E x \in Element :
                /\ retransmit_buffer'[e] = Append(retransmit_buffer[e], x)
                /\ x.chan = select_max_credit_channel(tx_flow_credits[e])
    /\ \/ ack_buffer'[e] = ack_buffer[e]
       \/ ack_buffer[e] # <<>> /\ ack_buffer'[e] = Tail(ack_buffer[e])
    /\ select_max_credit_channel(tx_flow_credits[e]) = 0 =>
          tx_flow_credits'[e] = tx_flow_credits[e]

LEMMA TransmitSends ==
  ASSUME TypeOK, WindowInv, NEW e \in Endpoint, NEW elapsed, Transmit(e, elapsed)
  PROVE  Transmits(e) /\ UNCHANGED Kept(Peer(e))
<1> DEFINE N == next_tx_seq[e]
           R == next_rx_seq[e]
           B == retransmit_buffer[e]
           f == FrameToSend(e)
           entries == ack_buffer[e]
           reports == IF entries = <<>> THEN entries ELSE Tail(entries)
<1>1. /\ N \in SeqNum /\ B \in Seq(Element) /\ IsWindow(B, N) /\ Len(B) \in Nat
      /\ R \in SeqNum /\ Len(B) <= WINDOW_SIZE
  BY LinkTypes
<1>2. Peer(e) \in Endpoint /\ Peer(e) # e
  BY Peers
<1>3. ASSUME NEW buffer \in Seq(Element), NEW frames, Said(frames, buffer, N, R, entries),
             TX(e, elapsed, buffer, frames)
      PROVE  /\ retransmit_buffer' = [retransmit_buffer EXCEPT ![e] = buffer]
             /\ retransmit_buffer'[e] = buffer
             /\ \E sent : /\ Said(sent, retransmit_buffer'[e], N, R, entries)
                          /\ fabric' = [fabric EXCEPT ![Peer(e)] = SendAll(@, sent)]
             /\ UNCHANGED <<next_rx_seq, tl_msg_buffer>>
  <2> DEFINE sent == AckOnlyFrames(e, elapsed) \o frames \o TimeoutFrames(e, elapsed, buffer)
  <2>1. /\ retransmit_buffer' = [retransmit_buffer EXCEPT ![e] = buffer]
        /\ fabric' = [fabric EXCEPT ![Peer(e)] = SendAll(@, sent)]
        /\ UNCHANGED <<next_rx_seq, tl_msg_buffer>>
    BY <1>3 DEF TX
  <2>2. Said(sent, buffer, N, R, entries)
    BY <1>3, SaidTX
  <2>3. retransmit_buffer'[e] = buffer
    BY <2>1 DEF TypeOK
  <2> HIDE DEF sent, N, R, entries
  <2> QED
    BY <2>1, <2>2, <2>3
<1>4. Said(<<>>, B, N, R, entries)
  BY SaidNone
<1>5. f \in Frame /\ ElementOf(f) \in Element
  BY FrameToSendType
<1>6. /\ f.type = "NORMAL" /\ Numbered(f)
      /\ f.chan = select_max_credit_channel(tx_flow_credits[e])
      /\ \/ f.seq_num_ack = tloe_seqnum_prev(R)
         \/ entries # <<>> /\ f.seq_num_ack = Head(entries).seq_num_ack
  BY DEF FrameToSend, Numbered
<1>7. ASSUME MakeFrame(e)
      PROVE  /\ ack_buffer' = [ack_buffer EXCEPT ![e] = reports]
             /\ \/ ack_buffer'[e] = ack_buffer[e]
                \/ ack_buffer[e] # <<>> /\ ack_buffer'[e] = Tail(ack_buffer[e])
             /\ Len(B) < WINDOW_SIZE
             /\ f.chan = 0 => tx_flow_credits' = tx_flow_credits
             /\ tx_flow_credits'[Peer(e)] = tx_flow_credits[Peer(e)]
             /\ credits'[Peer(e)] = credits[Peer(e)]
  <2>1. ack_buffer' = [ack_buffer EXCEPT ![e] = reports]
    BY <1>7 DEF MakeFrame
  <2>2. Len(B) # WINDOW_SIZE
    BY <1>7 DEF MakeFrame, NothingToSend, WindowFull
  <2>3. Len(B) < WINDOW_SIZE
    <3> HIDE DEF B
    <3> QED
      BY <1>1, <2>2, Sizes, SMT
  <2>4. /\ f.chan = 0 => tx_flow_credits' = tx_flow_credits
        /\ tx_flow_credits'[Peer(e)] = tx_flow_credits[Peer(e)]
        /\ credits'[Peer(e)] = credits[Peer(e)]
    BY <1>2, <1>7 DEF MakeFrame, TypeOK
  <2>5. ack_buffer'[e] = reports
    BY <2>1 DEF TypeOK
  <2> QED
    BY <2>1, <2>3, <2>4, <2>5
<1> HIDE DEF f
<1>8. CASE TX_Nothing(e, elapsed)
  <2>1. /\ TX(e, elapsed, B, <<>>)
        /\ UNCHANGED <<next_tx_seq, ack_buffer, credits, tx_flow_credits>>
    BY <1>8 DEF TX_Nothing, creditVars
  <2>2. /\ retransmit_buffer' = [retransmit_buffer EXCEPT ![e] = B]
        /\ retransmit_buffer'[e] = B
        /\ \E sent : /\ Said(sent, retransmit_buffer'[e], N, R, entries)
                     /\ fabric' = [fabric EXCEPT ![Peer(e)] = SendAll(@, sent)]
        /\ UNCHANGED <<next_rx_seq, tl_msg_buffer>>
    BY <1>1, <1>3, <1>4, <2>1
  <2> QED
    BY <1>2, <2>1, <2>2 DEF Transmits, Kept, TypeOK
<1>9. CASE TX_AllocFailed(e, elapsed)
  <2>1. TX(e, elapsed, B, <<>>) /\ UNCHANGED next_tx_seq /\ MakeFrame(e)
    BY <1>9 DEF TX_AllocFailed
  <2>2. /\ retransmit_buffer' = [retransmit_buffer EXCEPT ![e] = B]
        /\ retransmit_buffer'[e] = B
        /\ \E sent : /\ Said(sent, retransmit_buffer'[e], N, R, entries)
                     /\ fabric' = [fabric EXCEPT ![Peer(e)] = SendAll(@, sent)]
        /\ UNCHANGED <<next_rx_seq, tl_msg_buffer>>
    BY <1>1, <1>3, <1>4, <2>1
  <2>3. /\ ack_buffer'[Peer(e)] = ack_buffer[Peer(e)]
        /\ retransmit_buffer'[Peer(e)] = retransmit_buffer[Peer(e)]
    BY <1>2, <1>7, <2>1, <2>2 DEF TypeOK
  <2> HIDE DEF B
  <2>4. UNCHANGED Kept(Peer(e))
    BY <1>7, <2>1, <2>2, <2>3 DEF Kept
  <2>5. Transmits(e)
    BY <1>6, <1>7, <2>1, <2>2 DEF Transmits, B
  <2> QED
    BY <2>4, <2>5
<1>10. CASE TX_Send(e, elapsed)
  <2> DEFINE x == ElementOf(f)
             longer == Append(B, x)
  <2>1. /\ TX(e, elapsed, longer, <<f>>) /\ MakeFrame(e)
        /\ next_tx_seq' = [next_tx_seq EXCEPT ![e] = tloe_seqnum_next(@)]
    BY <1>10 DEF TX_Send, f
  <2>2. /\ longer \in Seq(Element) /\ Len(longer) = Len(B) + 1
        /\ longer[Len(B) + 1] = x
    BY <1>1, <1>5, AppendProperties
  <2> HIDE DEF x
  <2>3. Said(<<f>>, longer, N, R, entries)
    <3>1. DOMAIN longer = 1 .. Len(longer)
      BY <2>2, LenProperties
    <3> HIDE DEF longer, B
    <3>2. Len(B) + 1 \in DOMAIN longer
      BY <1>1, <2>2, <3>1, SMT
    <3>3. \E i \in DOMAIN longer : ElementOf(f) = longer[i]
      BY <2>2, <3>2 DEF x
    <3> QED
      BY <1>5, <1>6, <3>3, SaidOne
  <2>4. /\ retransmit_buffer' = [retransmit_buffer EXCEPT ![e] = longer]
        /\ retransmit_buffer'[e] = longer
        /\ \E sent : /\ Said(sent, retransmit_buffer'[e], N, R, entries)
                     /\ fabric' = [fabric EXCEPT ![Peer(e)] = SendAll(@, sent)]
        /\ UNCHANGED <<next_rx_seq, tl_msg_buffer>>
    <3> HIDE DEF longer
    <3> QED
      BY <1>3, <2>1, <2>2, <2>3
  <2>5. /\ ack_buffer'[Peer(e)] = ack_buffer[Peer(e)]
        /\ retransmit_buffer'[Peer(e)] = retransmit_buffer[Peer(e)]
        /\ next_tx_seq'[Peer(e)] = next_tx_seq[Peer(e)] /\ next_tx_seq'[e] = tloe_seqnum_next(N)
    BY <1>2, <1>7, <2>1, <2>4 DEF TypeOK
  <2>6. x \in Element /\ x.chan = f.chan
    BY <1>5 DEF x, ElementOf
  <2>7. UNCHANGED Kept(Peer(e))
    <3> HIDE DEF longer
    <3> QED
      BY <1>7, <2>1, <2>4, <2>5 DEF Kept
  <2>8. Transmits(e)
    BY <1>6, <1>7, <2>1, <2>4, <2>5, <2>6 DEF Transmits
  <2> QED
    BY <2>7, <2>8
<1> QED
  BY <1>8, <1>9, <1>10 DEF Transmit

\* A call of RX that takes a frame.
Receives(e) ==
    /\ fabric[e] # <<>>
    /\ \E again : /\ Said(again, retransmit_buffer'[e], next_tx_seq[e], next_rx_seq[e], <<>>)
                  /\ fabric'[e] = Tail(fabric[e])
                  /\ fabric'[Peer(e)] = SendAll(fabric[Peer(e)], again)
    /\ retransmit_buffer'[e] = slide_window(retransmit_buffer[e], Arrived(e).seq_num_ack)
    /\ next_tx_seq'[e] = next_tx_seq[e] /\ tx_flow_credits'[e] = tx_flow_credits[e]
    /\ \/ /\ Numbered(Arrived(e)) /\ Arrived(e).seq_num = next_rx_seq[e]
          /\ next_rx_seq'[e] = tloe_seqnum_next(next_rx_seq[e])
          /\ ack_buffer'[e] = ack_buffer[e]
          /\ Arrived(e).tlmsg = NoMsg => tl_msg_buffer'[e] = tl_msg_buffer[e]
       \/ /\ next_rx_seq'[e] = next_rx_seq[e] /\ tl_msg_buffer'[e] = tl_msg_buffer[e]
          /\ \/ ack_buffer'[e] = ack_buffer[e]
             \/ \E entry \in AckEntry :
                   /\ ack_buffer'[e] = Append(ack_buffer[e], entry)
                   /\ \/ entry.seq_num_ack = tloe_seqnum_prev(next_rx_seq[e])
                      \/ /\ Numbered(Arrived(e)) /\ entry.seq_num_ack = Arrived(e).seq_num
                         /\ tloe_seqnum_cmp(Arrived(e).seq_num, next_rx_seq[e]) < 0

\* Any other call.
Computes(e) ==
    /\ UNCHANGED linkVars
    /\ tl_msg_buffer[e] = <<>> =>
          tl_msg_buffer'[e] = <<>> /\ tx_flow_credits'[e] = tx_flow_credits[e]

LEMMA ReceiveTakes ==
  ASSUME TypeOK, WindowInv, NEW e \in Endpoint, RX(e)
  PROVE  /\ fabric[e] # <<>>
         /\ \E again : /\ Said(again, retransmit_buffer'[e], next_tx_seq[e], next_rx_seq[e], <<>>)
                       /\ fabric'[e] = Tail(fabric[e])
                       /\ fabric'[Peer(e)] = SendAll(fabric[Peer(e)], again)
         /\ retransmit_buffer'[e] = slide_window(retransmit_buffer[e], Arrived(e).seq_num_ack)
         /\ next_tx_seq' = next_tx_seq /\ tx_flow_credits' = tx_flow_credits
         /\ retransmit_buffer'[Peer(e)] = retransmit_buffer[Peer(e)]
<1> DEFINE p == Peer(e)
           f == Arrived(e)
           left == slide_window(retransmit_buffer[e], f.seq_num_ack)
           again == IF f.ack = "NAK"
                    THEN retransmit(e, left, tloe_seqnum_next(f.seq_num_ack))
                    ELSE <<>>
<1>1. p \in Endpoint /\ p # e
  BY Peers
<1>2. /\ fabric[e] # <<>> /\ next_tx_seq' = next_tx_seq /\ tx_flow_credits' = tx_flow_credits
      /\ retransmit_buffer' = [retransmit_buffer EXCEPT ![e] = left]
      /\ fabric' = [fabric EXCEPT ![e] = Tail(@), ![p] = SendAll(@, again)]
  BY DEF RX
<1>3. left \in Seq(Element)
  <2> DEFINE buffer == retransmit_buffer[e]
             I == {i \in DOMAIN buffer : tloe_seqnum_cmp(buffer[i].seq_num, f.seq_num_ack) > 0}
  <2>1. left = SuffixFrom(buffer, I)
    BY DEF slide_window
  <2>2. buffer \in Seq(Element) /\ I \subseteq DOMAIN buffer
    BY DEF TypeOK
  <2> HIDE DEF I, buffer, left
  <2> QED
    BY <2>1, <2>2, SuffixFromType
<1>4. retransmit_buffer'[e] = left /\ retransmit_buffer'[p] = retransmit_buffer[p]
  BY <1>1, <1>2 DEF TypeOK
<1> HIDE DEF left
<1>5. Said(again, left, next_tx_seq[e], next_rx_seq[e], <<>>)
  BY <1>3, SaidRetransmit, SaidNone
<1> HIDE DEF again
<1>6. fabric'[e] = Tail(fabric[e]) /\ fabric'[p] = SendAll(fabric[p], again)
  BY <1>1, <1>2 DEF TypeOK
<1> QED
  BY <1>2, <1>4, <1>5, <1>6 DEF left

LEMMA ReceiveEffect ==
  ASSUME TypeOK, WindowInv, NEW e \in Endpoint, Receive(e)
  PROVE  (Receives(e) \/ Computes(e)) /\ UNCHANGED Kept(Peer(e))
<1> DEFINE p == Peer(e)
           R == next_rx_seq[e]
<1>1. p \in Endpoint /\ p # e
  BY Peers
<1>2. CASE RX_Empty(e)
  BY <1>2 DEF RX_Empty, linkVars, creditVars, Computes, Kept
<1>3. ASSUME RX(e), UNCHANGED <<next_rx_seq, tl_msg_buffer, credits>>,
             ack_buffer'[p] = ack_buffer[p],
             \/ ack_buffer'[e] = ack_buffer[e]
             \/ \E entry \in AckEntry :
                   /\ ack_buffer'[e] = Append(ack_buffer[e], entry)
                   /\ \/ entry.seq_num_ack = tloe_seqnum_prev(next_rx_seq[e])
                      \/ /\ Numbered(Arrived(e)) /\ entry.seq_num_ack = Arrived(e).seq_num
                         /\ tloe_seqnum_cmp(Arrived(e).seq_num, next_rx_seq[e]) < 0
      PROVE  Receives(e) /\ UNCHANGED Kept(Peer(e))
  BY <1>3, ReceiveTakes DEF Receives, Kept
<1>4. CASE RX_AckOnly(e)
  BY <1>3, <1>4 DEF RX_AckOnly
<1>5. CASE RX_Normal(e) \/ RX_Zero(e)
  <2>1. /\ Accept(e) /\ tl_msg_buffer'[p] = tl_msg_buffer[p]
        /\ Arrived(e).tlmsg = NoMsg => tl_msg_buffer'[e] = tl_msg_buffer[e]
    BY <1>1, <1>5 DEF RX_Normal, RX_Zero, TypeOK
  <2>2. /\ RX(e) /\ Numbered(Arrived(e)) /\ Arrived(e).seq_num = next_rx_seq[e]
        /\ UNCHANGED ack_buffer
        /\ next_rx_seq' = [next_rx_seq EXCEPT ![e] = tloe_seqnum_next(next_rx_seq[e])]
    BY <2>1, AcceptsExpected
  <2>3. /\ next_rx_seq'[e] = tloe_seqnum_next(next_rx_seq[e])
        /\ next_rx_seq'[p] = next_rx_seq[p]
    BY <1>1, <2>2 DEF TypeOK
  <2>4. credits'[p] = credits[p]
    BY <1>1, <2>1 DEF Accept, TypeOK
  <2> QED
    BY <2>1, <2>2, <2>3, <2>4, ReceiveTakes DEF Receives, Kept
<1>6. ASSUME RX(e), NEW entry, Report(e, entry)
      PROVE  /\ UNCHANGED <<next_rx_seq, tl_msg_buffer, credits>>
             /\ ack_buffer'[p] = ack_buffer[p]
             /\ ack_buffer'[e] = ack_buffer[e] \/ ack_buffer'[e] = Append(ack_buffer[e], entry)
  BY <1>1, <1>6 DEF Report, TypeOK
<1>7. CASE RX_Duplicate(e)
  <2> DEFINE f == Arrived(e)
             entry == [seq_num_ack |-> f.seq_num, ack |-> "ACK"]
             cmp == tloe_seqnum_cmp(f.seq_num, R)
  <2>1. /\ RX(e) /\ Report(e, entry) /\ Numbered(f)
        /\ tloe_rx_get_req_type(f.seq_num, R) = "REQ_DUPLICATE"
    BY <1>7 DEF RX_Duplicate, RX_Class, Numbered
  <2>2. f.seq_num \in SeqNum /\ entry \in AckEntry
    BY <2>1, TypeRX DEF Frame, AckEntry
  <2>3. cmp < 0
    <3>1. cmp \in {-1, 0, 1}
      BY SMT DEF tloe_seqnum_cmp
    <3>2. tloe_rx_get_req_type(f.seq_num, R)
             = CASE cmp = 0 -> "REQ_NORMAL" [] cmp < 0 -> "REQ_DUPLICATE" [] cmp > 0 -> "REQ_OOS"
      BY DEF tloe_rx_get_req_type
    <3> HIDE DEF cmp, f
    <3> QED
      BY <2>1, <3>1, <3>2, SMT
  <2>4. entry.seq_num_ack = f.seq_num
    OBVIOUS
  <2> HIDE DEF entry
  <2> QED
    BY <1>3, <1>6, <2>1, <2>2, <2>3, <2>4
<1>8. CASE RX_OutOfSequence(e)
  <2> DEFINE n == tloe_seqnum_prev(R)
             entry == [seq_num_ack |-> n, ack |-> "NAK"]
  <2>1. RX(e) /\ Report(e, entry)
    BY <1>8 DEF RX_OutOfSequence, RX_Class
  <2>2. entry \in AckEntry
    BY NextPrev DEF AckEntry, TypeOK
  <2>3. entry.seq_num_ack = n
    OBVIOUS
  <2> HIDE DEF entry
  <2> QED
    BY <1>3, <1>6, <2>1, <2>2, <2>3
<1> QED
  BY <1>2, <1>4, <1>5, <1>7, <1>8 DEF Receive

LEMMA ComputeEffect ==
  ASSUME TypeOK, NEW e \in Endpoint, Select(e) \/ Handle(e) \/ Submit(e)
  PROVE  Computes(e) /\ UNCHANGED Kept(Peer(e))
<1>1. Peer(e) \in Endpoint /\ Peer(e) # e
  BY Peers
<1>2. CASE Select(e)
  BY <1>2 DEF Select, Select_Pending, Select_Response, Select_Request, SelectBuffer,
              linkVars, creditVars, Computes, Kept
<1>3. CASE Submit(e)
  BY <1>3 DEF Submit, linkVars, creditVars, Computes, Kept
<1>4. CASE TL_Skip(e)
  BY <1>4 DEF TL_Skip, linkVars, creditVars, Computes, Kept
<1>5. CASE tl_handler(e)
  <2>1. /\ UNCHANGED <<linkVars, credits>> /\ tl_msg_buffer[e] # <<>>
        /\ tl_msg_buffer'[Peer(e)] = tl_msg_buffer[Peer(e)]
        /\ tx_flow_credits'[Peer(e)] = tx_flow_credits[Peer(e)]
    BY <1>1, <1>5 DEF tl_handler, TypeOK
  <2> QED
    BY <2>1 DEF linkVars, Computes, Kept
<1> QED
  BY <1>2, <1>3, <1>4, <1>5 DEF Handle, handle_A_PUTFULLDATA_opcode, handle_A_GET_opcode,
                                handle_D_opcode

\* Every call of the worker, and the user's commands.
LEMMA WorkerEffect ==
  ASSUME TypeOK, WindowInv, NEW e \in Endpoint, Worker(e) \/ Submit(e)
  PROVE  (Transmits(e) \/ Receives(e) \/ Computes(e)) /\ UNCHANGED Kept(Peer(e))
BY TransmitSends, ReceiveEffect, ComputeEffect DEF Worker

-----------------------------------------------------------------------------
(***************************************************************************)
(* The worker keeps both streams                                            *)
(***************************************************************************)
StreamOf(least, first, e) ==
    Stream(least, first, next_tx_seq[e], next_rx_seq[Peer(e)], retransmit_buffer[e],
           fabric[Peer(e)], fabric[e], ack_buffer[Peer(e)])

\* Repeated frames are at most a window old.
LEMMA SaidNumbers ==
  ASSUME RoomForHandshake, NEW frames, NEW buffer \in Seq(Element), NEW n, NEW expected,
         NEW reports, Said(frames, buffer, n, expected, reports),
         NEW next, IsWindow(buffer, next)
  PROVE  \A k \in DOMAIN frames : Numbered(frames[k]) => Dist(frames[k].seq_num, next) \in 1 .. SPAN
<1> TAKE k \in DOMAIN frames
<1> HAVE Numbered(frames[k])
<1>1. PICK i \in DOMAIN buffer : ElementOf(frames[k]) = buffer[i]
  BY DEF Said, Says
<1>2. frames[k].seq_num = buffer[i].seq_num
  <2>1. ElementOf(frames[k]).seq_num = frames[k].seq_num
    BY DEF ElementOf
  <2> QED
    BY <1>1, <2>1
<1>3. Dist(buffer[i].seq_num, next) = Len(buffer) - i + 1 /\ Len(buffer) <= WINDOW_SIZE
  BY DEF IsWindow
<1>4. DOMAIN buffer = 1 .. Len(buffer) /\ Len(buffer) \in Nat
  BY LenProperties
<1>5. Len(buffer) - i + 1 \in 1 .. SPAN
  BY <1>3, <1>4, SpanSizes, Sizes, SMT
<1> QED
  BY <1>2, <1>3, <1>5

\* Entries of ack_buffer name numbers the receiver does not wait for any more.
LEMMA ReportNumbers ==
  ASSUME NEW expected \in SeqNum, NEW reports \in Seq(AckEntry), NEW i \in DOMAIN reports,
         reports[i].seq_num_ack # expected
  PROVE  /\ Dist(reports[i].seq_num_ack, expected) \in Nat
         /\ Dist(reports[i].seq_num_ack, expected) >= 1
<1>1. reports[i] \in AckEntry
  BY LenProperties, ElementOfSeq
<1>2. reports[i].seq_num_ack \in SeqNum
  BY <1>1 DEF AckEntry
<1> QED
  BY <1>2, DistSum, DistStep, SeqModAssumption, SMT

LEMMA SaidAcks ==
  ASSUME RoomForHandshake, NEW frames, NEW buffer, NEW n, NEW expected \in SeqNum,
         NEW reports \in Seq(AckEntry), Said(frames, buffer, n, expected, reports),
         \A i \in DOMAIN reports : /\ reports[i].seq_num_ack # expected
                                   /\ Dist(reports[i].seq_num_ack, expected) <= ACK_HORIZON
  PROVE  \A k \in DOMAIN frames :
            /\ Dist(frames[k].seq_num_ack, expected) \in 1 .. ACK_HORIZON
            /\ Recent(reports, expected) => Dist(frames[k].seq_num_ack, expected) \in 1 .. SPAN
<1> TAKE k \in DOMAIN frames
<1>1. \/ frames[k].seq_num_ack = tloe_seqnum_prev(expected)
      \/ reports # <<>> /\ frames[k].seq_num_ack = Head(reports).seq_num_ack
  BY DEF Said, Says
<1>2. CASE frames[k].seq_num_ack = tloe_seqnum_prev(expected)
  <2>1. 1 \in 1 .. ACK_HORIZON /\ 1 \in 1 .. SPAN
    BY LastAccepted, SpanSizes, Sizes, SMT
  <2> QED
    BY <1>2, <2>1, LastAccepted
<1>3. CASE reports # <<>> /\ frames[k].seq_num_ack = Head(reports).seq_num_ack
  <2> DEFINE d == Dist(reports[1].seq_num_ack, expected)
  <2>1. 1 \in DOMAIN reports /\ reports[1] = Head(reports)
    BY <1>3, TailElements
  <2>2. d \in Nat /\ d >= 1 /\ d <= ACK_HORIZON
    BY <2>1, ReportNumbers
  <2>3. Recent(reports, expected) => d <= SPAN
    BY <2>1 DEF Recent
  <2> HIDE DEF d
  <2>4. d \in 1 .. ACK_HORIZON /\ (Recent(reports, expected) => d \in 1 .. SPAN)
    BY <2>2, <2>3, SpanSizes, Sizes, SMT
  <2> QED
    BY <1>3, <2>1, <2>4 DEF d
<1> QED
  BY <1>1, <1>2, <1>3

\* The oldest entry is taken away.
LEMMA ReportTaken ==
  ASSUME NEW expected, NEW reports \in Seq(AckEntry), reports # <<>>,
         \A i \in DOMAIN reports : reports[i].seq_num_ack # expected
  PROVE  /\ \A i \in DOMAIN Tail(reports) : Tail(reports)[i].seq_num_ack # expected
         /\ Recent(reports, expected) => Recent(Tail(reports), expected)
<1>1. \A i \in DOMAIN Tail(reports) : i + 1 \in DOMAIN reports /\ Tail(reports)[i] = reports[i + 1]
  BY TailElements
<1> QED
  BY <1>1, Zenon DEF Recent

\* An entry is added.
LEMMA ReportAdded ==
  ASSUME NEW expected, NEW reports \in Seq(AckEntry), NEW entry \in AckEntry,
         \A i \in DOMAIN reports : reports[i].seq_num_ack # expected,
         entry.seq_num_ack # expected, Dist(entry.seq_num_ack, expected) <= SPAN
  PROVE  /\ \A i \in DOMAIN Append(reports, entry) :
               Append(reports, entry)[i].seq_num_ack # expected
         /\ Recent(reports, expected) => Recent(Append(reports, entry), expected)
<1> DEFINE longer == Append(reports, entry)
<1>1. /\ longer \in Seq(AckEntry) /\ Len(longer) = Len(reports) + 1
      /\ \A i \in 1 .. Len(reports) : longer[i] = reports[i]
      /\ longer[Len(reports) + 1] = entry
  BY AppendProperties
<1>2. /\ DOMAIN reports = 1 .. Len(reports) /\ Len(reports) \in Nat
      /\ DOMAIN longer = 1 .. Len(longer)
  BY <1>1, LenProperties
<1> HIDE DEF longer
<1>3. \A i \in DOMAIN longer : (i \in DOMAIN reports /\ longer[i] = reports[i]) \/ longer[i] = entry
  <2>1. \A i \in DOMAIN longer : i \in 1 .. Len(reports) \/ i = Len(reports) + 1
    BY <1>1, <1>2, SMT
  <2> QED
    BY <1>1, <1>2, <2>1
<1> QED
  BY <1>3, Zenon DEF Recent, longer

LEMMA StreamsTransmit ==
  ASSUME RoomForHandshake, TypeOK, WindowInv, AckBufferFresh, TypeOK', WindowInv',
         NEW e \in Endpoint, Transmits(e), UNCHANGED Kept(Peer(e)),
         NEW least \in {0, 2}, NEW first \in {2, 3}, StreamOf(least, first, e),
         NEW least2 \in {0, 2}, NEW first2 \in {2, 3}, StreamOf(least2, first2, Peer(e))
  PROVE  /\ StreamOf(least, first, e)' /\ StreamOf(least2, first2, Peer(e))'
         /\ Recent(ack_buffer[e], next_rx_seq[e]) => Recent(ack_buffer'[e], next_rx_seq[e])
<1> DEFINE p == Peer(e)
           N == next_tx_seq[e]
           R == next_rx_seq[e]
           B == retransmit_buffer[e]
           A == ack_buffer[e]
<1>1. p \in Endpoint /\ p # e /\ Peer(p) = e
  BY Peers
<1>2. /\ N \in SeqNum /\ B \in Seq(Element) /\ Len(B) \in Nat /\ Len(B) <= WINDOW_SIZE
      /\ R \in SeqNum /\ A \in Seq(AckEntry)
      /\ next_tx_seq[p] \in SeqNum /\ next_rx_seq[p] \in SeqNum
      /\ Len(retransmit_buffer[p]) \in Nat /\ Len(retransmit_buffer[p]) <= WINDOW_SIZE
      /\ fabric[e] \in Seq(Frame) /\ fabric[p] \in Seq(Frame)
  BY <1>1, LinkTypes
<1>3. /\ retransmit_buffer'[e] \in Seq(Element) /\ next_tx_seq'[e] \in SeqNum
      /\ IsWindow(retransmit_buffer'[e], next_tx_seq'[e])
  BY DEF TypeOK, WindowInv, IsWindow
<1>4. PICK sent : /\ Said(sent, retransmit_buffer'[e], N, R, A)
                  /\ fabric' = [fabric EXCEPT ![p] = SendAll(@, sent)]
  BY DEF Transmits
<1>5. sent \in Seq(Frame)
  BY <1>4 DEF Said
<1>6. fabric'[p] = SendAll(fabric[p], sent) /\ fabric'[e] = fabric[e]
  BY <1>1, <1>4 DEF TypeOK
<1>7. /\ Thinned(fabric'[p], fabric[p] \o sent) /\ Thinned(fabric[e], fabric[e])
      /\ fabric[p] \o sent \in Seq(Frame)
  BY <1>2, <1>5, <1>6, SendAllThins, SameThins, ConcatProperties
<1>8. /\ Stream(least, first, N, next_rx_seq[p], B, fabric[p], fabric[e], ack_buffer[p])
      /\ Stream(least2, first2, next_tx_seq[p], R, retransmit_buffer[p], fabric[e], fabric[p], A)
  BY <1>1 DEF StreamOf
<1>9. /\ next_rx_seq'[e] = R
      /\ \/ next_tx_seq'[e] = N /\ retransmit_buffer'[e] = B
         \/ /\ Len(B) < WINDOW_SIZE /\ next_tx_seq'[e] = tloe_seqnum_next(N)
            /\ \E x \in Element : retransmit_buffer'[e] = Append(B, x)
      /\ ack_buffer'[e] = A \/ (A # <<>> /\ ack_buffer'[e] = Tail(A))
  BY DEF Transmits
<1>10. /\ next_tx_seq'[p] = next_tx_seq[p] /\ retransmit_buffer'[p] = retransmit_buffer[p]
       /\ ack_buffer'[p] = ack_buffer[p] /\ next_rx_seq'[p] = next_rx_seq[p]
  BY DEF Kept
<1>11. \A i \in DOMAIN A : /\ A[i].seq_num_ack # R
                           /\ Dist(A[i].seq_num_ack, R) <= ACK_HORIZON
  BY <1>8 DEF Stream, AckBufferFresh
<1> HIDE DEF p, N, R, B, A
<1>12. Stream(least, first, next_tx_seq'[e], next_rx_seq[p], retransmit_buffer'[e],
              fabric[p], fabric[e], ack_buffer[p])
  <2>1. CASE next_tx_seq'[e] = N /\ retransmit_buffer'[e] = B
    BY <1>8, <2>1
  <2>2. ASSUME Len(B) < WINDOW_SIZE, next_tx_seq'[e] = tloe_seqnum_next(N),
               NEW x \in Element, retransmit_buffer'[e] = Append(B, x)
        PROVE  Stream(least, first, next_tx_seq'[e], next_rx_seq[p], retransmit_buffer'[e],
                      fabric[p], fabric[e], ack_buffer[p])
    BY <1>2, <1>8, <2>2, StreamNext
  <2> QED
    BY <1>9, <2>1, <2>2
<1>13. StreamOf(least, first, e)'
  <2>1. \A k \in DOMAIN sent : Numbered(sent[k]) =>
           Dist(sent[k].seq_num, next_tx_seq'[e]) \in 1 .. SPAN
    BY <1>3, <1>4, SaidNumbers
  <2>2. Stream(least, first, next_tx_seq'[e], next_rx_seq[p], retransmit_buffer'[e],
               fabric[p] \o sent, fabric[e], ack_buffer[p])
    BY <1>2, <1>3, <1>5, <1>12, <2>1, StreamSends
  <2>3. Stream(least, first, next_tx_seq'[e], next_rx_seq[p], retransmit_buffer'[e],
               fabric'[p], fabric'[e], ack_buffer[p])
    BY <1>6, <1>7, <2>2, StreamThins
  <2> QED
    BY <1>10, <2>3 DEF StreamOf, p
<1>14. StreamOf(least2, first2, p)' /\ (Recent(A, R) => Recent(ack_buffer'[e], R))
  <2>1. \A k \in DOMAIN sent :
           /\ Dist(sent[k].seq_num_ack, R) \in 1 .. ACK_HORIZON
           /\ Recent(A, R) => Dist(sent[k].seq_num_ack, R) \in 1 .. SPAN
    BY <1>2, <1>4, <1>11, SaidAcks
  <2>2. Stream(least2, first2, next_tx_seq[p], R, retransmit_buffer[p], fabric[e],
               fabric[p] \o sent, A)
    BY <1>2, <1>5, <1>8, <2>1, StreamAcks
  <2>3. Stream(least2, first2, next_tx_seq[p], R, retransmit_buffer[p], fabric'[e],
               fabric'[p], A)
    BY <1>6, <1>7, <2>2, StreamThins
  <2>4. /\ \A i \in DOMAIN ack_buffer'[e] : ack_buffer'[e][i].seq_num_ack # R
        /\ Recent(A, R) => Recent(ack_buffer'[e], R)
    BY <1>2, <1>9, <1>11, ReportTaken
  <2>5. Stream(least2, first2, next_tx_seq[p], R, retransmit_buffer[p], fabric'[e],
               fabric'[p], ack_buffer'[e])
    BY <2>3, <2>4, StreamReports
  <2> QED
    BY <1>1, <1>9, <1>10, <2>4, <2>5 DEF StreamOf
<1> QED
  BY <1>13, <1>14 DEF p, A, R

\* A numbered frame behind the expected one is at most a span behind it.
LEMMA DuplicateAge ==
  ASSUME RoomForHandshake, NEW least \in {0, 2}, NEW first \in {2, 3},
         NEW next \in SeqNum, NEW expected \in SeqNum,
         NEW buffer, Len(buffer) \in Nat, Len(buffer) <= WINDOW_SIZE,
         NEW frames \in Seq(Frame), NEW acks, NEW reports,
         Stream(least, first, next, expected, buffer, frames, acks, reports),
         frames # <<>>, Numbered(Head(frames)),
         tloe_seqnum_cmp(Head(frames).seq_num, expected) < 0
  PROVE  /\ Dist(Head(frames).seq_num, expected) <= SPAN
         /\ Head(frames).seq_num # expected
<1> DEFINE missing == Dist(expected, next)
           n == Head(frames).seq_num
           age == Dist(n, next)
<1>1. /\ missing \in Nat /\ missing + SPAN < HALF_MAX_SEQ_NUM
      /\ missing + SPAN + 1 < SEQ_MOD - 1
  BY StreamSizes
<1>2. n \in SeqNum /\ age \in 1 .. missing + SPAN
  <2>1. 1 \in DOMAIN frames /\ frames[1] = Head(frames)
    BY TailElements
  <2> QED
    BY <2>1, FrameNumbers DEF Stream, NumbersInOrder
<1>3. /\ age >= missing => Dist(n, expected) = age - missing
      /\ missing >= age => Dist(expected, n) = missing - age
  BY <1>2, DistSum
<1> HIDE DEF missing, n, age
<1>4. ~(missing >= age)
  <2> SUFFICES ASSUME missing >= age PROVE FALSE
    OBVIOUS
  <2>1. Dist(expected, n) < HALF_MAX_SEQ_NUM /\ Dist(expected, n) >= 0
    BY <1>1, <1>2, <1>3, SpanSizes, Sizes, SMT
  <2>2. tloe_seqnum_cmp(n, expected) >= 0
    BY <1>2, <2>1, SeqModAssumption, Sizes, SMT DEF Dist, tloe_seqnum_cmp, SeqNum
  <2> QED
    BY <2>2, SMT DEF n, tloe_seqnum_cmp
<1>5. age >= missing /\ age - missing <= SPAN
  BY <1>1, <1>2, <1>4, SpanSizes, SMT
<1>6. Dist(n, expected) <= SPAN
  BY <1>3, <1>5
<1>7. n # expected
  BY <1>4, <1>5, SMT DEF n, age, missing
<1> QED
  BY <1>6, <1>7 DEF n

LEMMA StreamsReceive ==
  ASSUME RoomForHandshake, TypeOK, WindowInv, AckBufferFresh, TypeOK', WindowInv',
         NEW e \in Endpoint, Receives(e), UNCHANGED Kept(Peer(e)),
         NEW least \in {0, 2}, NEW first \in {2, 3}, StreamOf(least, first, e),
         NEW first2 \in {2, 3}, StreamOf(2, first2, Peer(e))
  PROVE  /\ StreamOf(least, first, e)' /\ StreamOf(2, first2, Peer(e))'
         /\ next_rx_seq'[e] = next_rx_seq[e] /\ Recent(ack_buffer[e], next_rx_seq[e]) =>
               Recent(ack_buffer'[e], next_rx_seq[e])
         /\ next_rx_seq[Peer(e)] \in least .. first - 1
               /\ next_tx_seq[e] = first + Len(retransmit_buffer[e]) =>
               Len(retransmit_buffer'[e]) = Len(retransmit_buffer[e])
<1> DEFINE p == Peer(e)
           N == next_tx_seq[e]
           R == next_rx_seq[e]
           B == retransmit_buffer[e]
           A == ack_buffer[e]
           f == Head(fabric[e])
           left == slide_window(B, f.seq_num_ack)
<1>1. p \in Endpoint /\ p # e /\ Peer(p) = e
  BY Peers
<1>2. /\ N \in SeqNum /\ B \in Seq(Element) /\ IsWindow(B, N)
      /\ Len(B) \in Nat /\ Len(B) <= WINDOW_SIZE
      /\ R \in SeqNum /\ A \in Seq(AckEntry)
      /\ next_tx_seq[p] \in SeqNum /\ next_rx_seq[p] \in SeqNum
      /\ Len(retransmit_buffer[p]) \in Nat /\ Len(retransmit_buffer[p]) <= WINDOW_SIZE
      /\ fabric[e] \in Seq(Frame) /\ fabric[p] \in Seq(Frame)
  BY <1>1, LinkTypes
<1>3. /\ retransmit_buffer'[e] = left /\ next_tx_seq'[e] = N /\ fabric[e] # <<>>
      /\ left \in Seq(Element) /\ IsWindow(left, N)
      /\ fabric'[p] \in Seq(Frame)
  <2>1. retransmit_buffer'[e] = left /\ next_tx_seq'[e] = N /\ fabric[e] # <<>>
    BY DEF Receives, Arrived
  <2> HIDE DEF left
  <2>2. retransmit_buffer'[e] \in Seq(Element)
    BY DEF TypeOK
  <2>3. IsWindow(retransmit_buffer'[e], next_tx_seq'[e])
    BY DEF WindowInv, IsWindow
  <2>4. fabric'[p] \in Seq(Frame)
    BY <1>1 DEF TypeOK
  <2> QED
    BY <2>1, <2>2, <2>3, <2>4
<1>4. PICK again : /\ Said(again, left, N, R, <<>>)
                   /\ fabric'[e] = Tail(fabric[e])
                   /\ fabric'[p] = SendAll(fabric[p], again)
  BY <1>3 DEF Receives
<1>5. again \in Seq(Frame)
  BY <1>4 DEF Said
<1>6. /\ Thinned(fabric'[p], fabric[p] \o again) /\ fabric[p] \o again \in Seq(Frame)
      /\ Thinned(fabric[e], fabric[e]) /\ Thinned(Tail(fabric[e]), fabric[e])
      /\ Thinned(Tail(fabric[e]), Tail(fabric[e])) /\ Tail(fabric[e]) \in Seq(Frame)
      /\ Thinned(fabric'[p], fabric'[p])
  <2>1. Tail(fabric[e]) \in Seq(Frame) /\ Thinned(Tail(fabric[e]), fabric[e])
    BY <1>2, <1>3, TailElements, TailThins
  <2>2. fabric[p] \o again \in Seq(Frame) /\ Thinned(fabric'[p], fabric[p] \o again)
    BY <1>2, <1>4, <1>5, SendAllThins, ConcatProperties
  <2> QED
    BY <1>2, <1>3, <2>1, <2>2, SameThins
<1>7. /\ Stream(least, first, N, next_rx_seq[p], B, fabric[p], fabric[e], ack_buffer[p])
      /\ Stream(2, first2, next_tx_seq[p], R, retransmit_buffer[p], fabric[e], fabric[p], A)
  BY <1>1 DEF StreamOf
<1>8. /\ next_tx_seq'[p] = next_tx_seq[p] /\ retransmit_buffer'[p] = retransmit_buffer[p]
      /\ ack_buffer'[p] = ack_buffer[p] /\ next_rx_seq'[p] = next_rx_seq[p]
  BY DEF Kept
<1>9. \A i \in DOMAIN A : /\ A[i].seq_num_ack # R
                          /\ Dist(A[i].seq_num_ack, R) <= ACK_HORIZON
  BY <1>7 DEF Stream, AckBufferFresh
<1>10. /\ Stream(least, first, N, next_rx_seq[p], left, fabric[p], Tail(fabric[e]), ack_buffer[p])
       /\ next_rx_seq[p] \in least .. first - 1 /\ N = first + Len(B) => Len(left) = Len(B)
  <2> HIDE DEF N, B, p
  <2>1. LET l == slide_window(B, Head(fabric[e]).seq_num_ack)
        IN  /\ Stream(least, first, N, next_rx_seq[p], l, fabric[p], Tail(fabric[e]),
                      ack_buffer[p])
            /\ next_rx_seq[p] \in least .. first - 1 /\ N = first + Len(B) => Len(l) = Len(B)
    BY <1>2, <1>3, <1>7, StreamSlides
  <2> QED
    BY <2>1
<1>11. \/ /\ Numbered(f) /\ f.seq_num = R
          /\ next_rx_seq'[e] = tloe_seqnum_next(R) /\ ack_buffer'[e] = A
       \/ /\ next_rx_seq'[e] = R
          /\ \/ ack_buffer'[e] = A
             \/ \E entry \in AckEntry :
                   /\ ack_buffer'[e] = Append(A, entry)
                   /\ \/ entry.seq_num_ack = tloe_seqnum_prev(R)
                      \/ /\ Numbered(f) /\ entry.seq_num_ack = f.seq_num
                         /\ tloe_seqnum_cmp(f.seq_num, R) < 0
  BY DEF Receives, Arrived
<1> HIDE DEF p, N, R, B, A, left
<1>12. StreamOf(least, first, e)'
  <2>1. \A k \in DOMAIN again : Numbered(again[k]) =>
           Dist(again[k].seq_num, N) \in 1 .. SPAN
    BY <1>3, <1>4, SaidNumbers
  <2>2. Stream(least, first, N, next_rx_seq[p], left, fabric[p] \o again, Tail(fabric[e]),
               ack_buffer[p])
    BY <1>2, <1>5, <1>10, <2>1, StreamSends
  <2>3. Stream(least, first, N, next_rx_seq[p], left, fabric'[p], Tail(fabric[e]),
               ack_buffer[p])
    BY <1>6, <2>2, StreamThins
  <2> QED
    BY <1>3, <1>4, <1>8, <2>3 DEF StreamOf, p
<1>13. Stream(2, first2, next_tx_seq[p], R, retransmit_buffer[p], fabric[e], fabric'[p], A)
  <2>1. <<>> \in Seq(AckEntry) /\ DOMAIN <<>> = {}
    BY EmptySeq, SMT
  <2>2. \A k \in DOMAIN again :
           /\ Dist(again[k].seq_num_ack, R) \in 1 .. ACK_HORIZON
           /\ Recent(<<>>, R) => Dist(again[k].seq_num_ack, R) \in 1 .. SPAN
    BY <1>2, <1>4, <2>1, SaidAcks
  <2>3. Recent(<<>>, R)
    BY <2>1 DEF Recent
  <2>4. \A k \in DOMAIN again :
           /\ Dist(again[k].seq_num_ack, R) \in 1 .. ACK_HORIZON
           /\ Recent(A, R) => Dist(again[k].seq_num_ack, R) \in 1 .. SPAN
    BY <2>2, <2>3
  <2>5. 2 \in {0, 2}
    OBVIOUS
  <2>6. Stream(2, first2, next_tx_seq[p], R, retransmit_buffer[p], fabric[e],
               fabric[p] \o again, A)
    BY <1>2, <1>5, <1>7, <2>4, <2>5, StreamAcks
  <2> QED
    BY <1>6, <2>6, StreamThins
<1>14. ASSUME Numbered(f), f.seq_num = R,
              next_rx_seq'[e] = tloe_seqnum_next(R), ack_buffer'[e] = A
       PROVE  StreamOf(2, first2, p)' /\ next_rx_seq'[e] # R
  <2>1. first2 <= 2 + 1 /\ 2 \in {0, 2}
    BY SMT
  <2>2. Stream(2, first2, next_tx_seq[p], tloe_seqnum_next(R), retransmit_buffer[p],
               Tail(fabric[e]), fabric'[p], A)
    BY <1>2, <1>3, <1>9, <1>13, <1>14, <2>1, StreamAccepts
  <2>3. StreamOf(2, first2, p)'
    BY <1>1, <1>4, <1>8, <1>14, <2>2 DEF StreamOf, p
  <2>4. next_rx_seq'[e] # R
    BY <1>2, <1>14, SeqModAssumption, SMT DEF tloe_seqnum_next, SeqNum, MAX_SEQ_NUM
  <2> QED
    BY <2>3, <2>4
<1>15. ASSUME next_rx_seq'[e] = R,
              \A i \in DOMAIN ack_buffer'[e] : ack_buffer'[e][i].seq_num_ack # R,
              Recent(A, R) => Recent(ack_buffer'[e], R)
       PROVE  StreamOf(2, first2, p)'
  <2>1. Stream(2, first2, next_tx_seq[p], R, retransmit_buffer[p], fabric[e], fabric'[p],
               ack_buffer'[e])
    BY <1>13, <1>15, StreamReports
  <2>2. Stream(2, first2, next_tx_seq[p], R, retransmit_buffer[p], Tail(fabric[e]), fabric'[p],
               ack_buffer'[e])
    BY <1>6, <2>1, StreamThins
  <2> QED
    BY <1>1, <1>4, <1>8, <1>15, <2>2 DEF StreamOf, p
<1>16. ASSUME NEW entry \in AckEntry,
              \/ entry.seq_num_ack = tloe_seqnum_prev(R)
              \/ /\ Numbered(f) /\ entry.seq_num_ack = f.seq_num
                 /\ tloe_seqnum_cmp(f.seq_num, R) < 0
       PROVE  entry.seq_num_ack # R /\ Dist(entry.seq_num_ack, R) <= SPAN
  <2>1. CASE entry.seq_num_ack = tloe_seqnum_prev(R)
    <3>1. Dist(tloe_seqnum_prev(R), R) = 1 /\ Dist(R, R) = 0
      BY <1>2, LastAccepted, DistSum
    <3>2. 1 <= SPAN /\ 1 # 0
      BY SpanSizes, Sizes, SMT
    <3> QED
      BY <2>1, <3>1, <3>2
  <2>2. CASE Numbered(f) /\ entry.seq_num_ack = f.seq_num /\ tloe_seqnum_cmp(f.seq_num, R) < 0
    <3>1. 2 \in {0, 2}
      OBVIOUS
    <3> QED
      BY <1>2, <1>3, <1>7, <2>2, <3>1, DuplicateAge
  <2> QED
    BY <1>16, <2>1, <2>2
<1>17. ASSUME next_rx_seq'[e] = R, ack_buffer'[e] = A
       PROVE  StreamOf(2, first2, p)'
  BY <1>9, <1>15, <1>17
<1>18. ASSUME next_rx_seq'[e] = R, NEW entry \in AckEntry, ack_buffer'[e] = Append(A, entry),
              \/ entry.seq_num_ack = tloe_seqnum_prev(R)
              \/ /\ Numbered(f) /\ entry.seq_num_ack = f.seq_num
                 /\ tloe_seqnum_cmp(f.seq_num, R) < 0
       PROVE  StreamOf(2, first2, p)' /\ (Recent(A, R) => Recent(ack_buffer'[e], R))
  <2>1. entry.seq_num_ack # R /\ Dist(entry.seq_num_ack, R) <= SPAN
    BY <1>16, <1>18
  <2>2. \A i \in DOMAIN A : A[i].seq_num_ack # R
    BY <1>9
  <2>3. /\ \A i \in DOMAIN Append(A, entry) : Append(A, entry)[i].seq_num_ack # R
        /\ Recent(A, R) => Recent(Append(A, entry), R)
    BY <1>2, <2>1, <2>2, ReportAdded
  <2> QED
    BY <1>15, <1>18, <2>3
<1>19. /\ StreamOf(2, first2, p)'
       /\ next_rx_seq'[e] = R /\ Recent(A, R) => Recent(ack_buffer'[e], R)
  BY <1>11, <1>14, <1>17, <1>18
<1> QED
  BY <1>3, <1>10, <1>12, <1>19 DEF p, A, R, B, N

-----------------------------------------------------------------------------
(***************************************************************************)
(* The worker of one endpoint while the other is not yet connected          *)
(***************************************************************************)
LEMMA HandshakingThins ==
  ASSUME NEW p, NEW up, NEW queue, Handshaking(p, queue, up), NEW fewer, Thinned(fewer, queue)
  PROVE  Handshaking(p, fewer, up)
<1>1. PICK f \in [DOMAIN fewer -> DOMAIN queue] :
         /\ \A i \in DOMAIN fewer : fewer[i] = queue[f[i]]
         /\ \A i, j \in DOMAIN fewer : i < j => f[i] < f[j]
  BY DEF Thinned
<1>2. \A i \in DOMAIN fewer : HandshakeFrame(p, fewer[i]) \/ (LateFrame(fewer[i]) /\ up)
  BY <1>1, Zenon DEF Handshaking
<1>3. ASSUME NEW i \in DOMAIN fewer, NEW j \in DOMAIN fewer, i < j, LateFrame(fewer[i])
      PROVE  LateFrame(fewer[j])
  <2>1. f[i] \in DOMAIN queue /\ f[j] \in DOMAIN queue /\ f[i] < f[j] /\ LateFrame(queue[f[i]])
    BY <1>1, <1>3
  <2>2. LateFrame(queue[f[j]])
    BY <2>1, Zenon DEF Handshaking
  <2> QED
    BY <1>1, <2>2
<1> QED
  BY <1>2, <1>3, Zenon DEF Handshaking

LEMMA HandshakingSends ==
  ASSUME NEW p, NEW queue \in Seq(Frame), Handshaking(p, queue, TRUE), NEW new \in Seq(Frame),
         \A k \in DOMAIN new : LateFrame(new[k])
  PROVE  Handshaking(p, queue \o new, TRUE)
<1> DEFINE all == queue \o new
<1>1. \A k \in DOMAIN all :
         \/ k <= Len(queue) /\ k \in DOMAIN queue /\ all[k] = queue[k]
         \/ k > Len(queue) /\ k - Len(queue) \in DOMAIN new /\ all[k] = new[k - Len(queue)]
  BY ConcatElements
<1>2. DOMAIN all = 1 .. Len(all) /\ Len(queue) \in Nat
  BY ConcatProperties, LenProperties
<1> HIDE DEF all
<1>3. \A k \in DOMAIN all : HandshakeFrame(p, all[k]) \/ LateFrame(all[k])
  BY <1>1, Zenon DEF Handshaking
<1>4. ASSUME NEW i \in DOMAIN all, NEW j \in DOMAIN all, i < j, LateFrame(all[i])
      PROVE  LateFrame(all[j])
  <2>1. CASE j > Len(queue)
    <3>1. ~(j <= Len(queue))
      BY <1>2, <2>1, SMT
    <3> QED
      BY <1>1, <3>1
  <2>2. CASE ~(j > Len(queue))
    <3>1. i <= Len(queue) /\ ~(i > Len(queue))
      BY <1>2, <1>4, <2>2, SMT
    <3>2. i \in DOMAIN queue /\ j \in DOMAIN queue /\ all[i] = queue[i] /\ all[j] = queue[j]
      BY <1>1, <2>2, <3>1
    <3>3. LateFrame(queue[i])
      BY <1>4, <3>2
    <3>4. LateFrame(queue[j])
      BY <1>4, <3>2, <3>3, Zenon DEF Handshaking
    <3> QED
      BY <3>2, <3>4
  <2> QED
    BY <2>1, <2>2
<1> QED
  BY <1>3, <1>4, Zenon DEF Handshaking, all

\* The window of an endpoint whose peer has taken nothing but the handshake
\* begins with the first number after it.
LEMMA FirstNumbers ==
  ASSUME NEW first \in {2, 3}, NEW buffer \in Seq(Element), NEW next \in SeqNum,
         IsWindow(buffer, next), next = first + Len(buffer), NEW i \in DOMAIN buffer
  PROVE  buffer[i].seq_num \in SeqNum /\ buffer[i].seq_num >= 2
<1>1. buffer[i] \in Element
  BY LenProperties, ElementOfSeq
<1>2. buffer[i].seq_num \in SeqNum
  BY <1>1 DEF Element
<1>3. Dist(buffer[i].seq_num, next) = Len(buffer) - i + 1
  BY DEF IsWindow
<1>4. DOMAIN buffer = 1 .. Len(buffer) /\ Len(buffer) \in Nat
  BY LenProperties
<1> DEFINE s == buffer[i].seq_num
<1> HIDE DEF s
<1>5. s \in SeqNum => s >= 2
  BY <1>3, <1>4, SeqModAssumption, SMT DEF Dist, SeqNum, s
<1> QED
  BY <1>2, <1>5 DEF s

LEMMA SaidLate ==
  ASSUME RoomForHandshake, NEW n \in SeqNum, n >= 2, NEW expected, NEW reports,
         NEW first \in {2, 3}, NEW buffer \in Seq(Element), NEW next \in SeqNum,
         IsWindow(buffer, next), next = first + Len(buffer), Creditless(buffer),
         NEW frames, Said(frames, buffer, n, expected, reports)
  PROVE  \A k \in DOMAIN frames : LateFrame(frames[k])
<1> TAKE k \in DOMAIN frames
<1> DEFINE f == frames[k]
<1>1. Says(f, buffer, n, expected, reports)
  BY DEF Said
<1> HIDE DEF f
<1>2. f.type # "OPEN_CONNECTION"
  BY <1>1 DEF Says
<1>3. CASE ~Numbered(f)
  BY <1>1, <1>2, <1>3, SpanSizes DEF Says, LateFrame, f
<1>4. CASE Numbered(f)
  <2>1. PICK i \in DOMAIN buffer : ElementOf(f) = buffer[i]
    BY <1>1, <1>4 DEF Says
  <2>2. ElementOf(f).seq_num = f.seq_num /\ ElementOf(f).chan = f.chan
    BY DEF ElementOf
  <2>3. f.chan = 0
    BY <2>1, <2>2 DEF Creditless
  <2>4. f.seq_num >= 2
    BY <2>1, <2>2, FirstNumbers
  <2> QED
    BY <1>2, <2>3, <2>4, SpanSizes DEF LateFrame, f
<1> QED
  BY <1>3, <1>4

\* What the fabric to the endpoint not yet connected gets.
LEMMA SaidNotUp ==
  ASSUME RoomForHandshake, NEW n \in SeqNum, n >= 2,
         NEW reports \in Seq(AckEntry), Recent(reports, 2),
         \A i \in DOMAIN reports : reports[i].seq_num_ack # 2,
         NEW first \in {2, 3}, NEW buffer \in Seq(Element), NEW next \in SeqNum,
         IsWindow(buffer, next), next = first + Len(buffer), Creditless(buffer),
         NEW frames, Said(frames, buffer, n, 2, reports),
         NEW p, NEW queue \in Seq(Frame), Handshaking(p, queue, TRUE),
         \A i \in DOMAIN queue : Dist(queue[i].seq_num_ack, 2) <= SPAN + 2
  PROVE  LET more == SendAll(queue, frames)
         IN  /\ Handshaking(p, more, TRUE)
             /\ \A i \in DOMAIN more : Dist(more[i].seq_num_ack, 2) <= SPAN + 2
<1> DEFINE more == SendAll(queue, frames)
           all == queue \o frames
<1>1. frames \in Seq(Frame) /\ 2 \in SeqNum
  BY HandshakeNumbers DEF Said
<1>2. Thinned(more, all) /\ all \in Seq(Frame)
  BY <1>1, SendAllThins, ConcatProperties
<1>3. \A k \in DOMAIN frames : LateFrame(frames[k])
  BY SaidLate
<1>4. Handshaking(p, more, TRUE)
  BY <1>1, <1>2, <1>3, HandshakingSends, HandshakingThins
<1>5. ASSUME NEW k \in DOMAIN frames PROVE Dist(frames[k].seq_num_ack, 2) <= SPAN + 2
  <2>1. SPAN <= ACK_HORIZON
    BY SpanSizes, Sizes, SMT
  <2>2. \A i \in DOMAIN reports : Dist(reports[i].seq_num_ack, 2) <= ACK_HORIZON
    <3>1. ASSUME NEW i \in DOMAIN reports PROVE Dist(reports[i].seq_num_ack, 2) <= ACK_HORIZON
      <4>1. Dist(reports[i].seq_num_ack, 2) <= SPAN
        BY DEF Recent
      <4>2. Dist(reports[i].seq_num_ack, 2) \in Nat
        BY <1>1, ReportNumbers
      <4> QED
        BY <2>1, <4>1, <4>2, SpanSizes, Sizes, SMT
    <3> QED
      BY <3>1
  <2>3. Dist(frames[k].seq_num_ack, 2) \in 1 .. SPAN
    BY <1>1, <2>2, SaidAcks
  <2>4. \A d \in 1 .. SPAN : d <= SPAN + 2
    BY SpanSizes, Sizes, SMT
  <2> QED
    BY <2>3, <2>4
<1>6. \A i \in DOMAIN all : Dist(all[i].seq_num_ack, 2) <= SPAN + 2
  <2>1. \A i \in DOMAIN all : \/ \E k \in DOMAIN queue : all[i] = queue[k]
                              \/ \E k \in DOMAIN frames : all[i] = frames[k]
    <3>1. \A k \in DOMAIN all :
             \/ k <= Len(queue) /\ k \in DOMAIN queue /\ all[k] = queue[k]
             \/ k > Len(queue) /\ k - Len(queue) \in DOMAIN frames
                  /\ all[k] = frames[k - Len(queue)]
      BY <1>1, ConcatElements
    <3> HIDE DEF all
    <3> QED
      BY <3>1, Zenon
  <2> HIDE DEF all
  <2> QED
    BY <1>5, <2>1
<1>7. \A i \in DOMAIN more : \E k \in DOMAIN all : more[i] = all[k]
  BY <1>2, Zenon DEF Thinned
<1> HIDE DEF all, more
<1>8. \A i \in DOMAIN more : Dist(more[i].seq_num_ack, 2) <= SPAN + 2
  BY <1>6, <1>7
<1> QED
  BY <1>4, <1>8 DEF more

LEMMA CreditlessKept ==
  ASSUME NEW buffer \in Seq(Element), Creditless(buffer)
  PROVE  /\ \A x \in Element : x.chan = 0 => Creditless(Append(buffer, x))
         /\ \A n : Creditless(slide_window(buffer, n))
<1>1. DOMAIN buffer = 1 .. Len(buffer) /\ Len(buffer) \in Nat
  BY LenProperties
<1>2. ASSUME NEW x \in Element, x.chan = 0 PROVE Creditless(Append(buffer, x))
  <2> DEFINE longer == Append(buffer, x)
  <2>1. /\ longer \in Seq(Element) /\ Len(longer) = Len(buffer) + 1
        /\ \A i \in 1 .. Len(buffer) : longer[i] = buffer[i]
        /\ longer[Len(buffer) + 1] = x
    BY AppendProperties
  <2>2. DOMAIN longer = 1 .. Len(longer)
    BY <2>1, LenProperties
  <2> HIDE DEF longer
  <2>3. \A i \in DOMAIN longer : i \in 1 .. Len(buffer) \/ i = Len(buffer) + 1
    BY <1>1, <2>1, <2>2, SMT
  <2> QED
    BY <1>1, <1>2, <2>1, <2>3, Zenon DEF Creditless, longer
<1>3. ASSUME NEW n PROVE Creditless(slide_window(buffer, n))
  <2> DEFINE I == {i \in DOMAIN buffer : tloe_seqnum_cmp(buffer[i].seq_num, n) > 0}
             left == SuffixFrom(buffer, I)
  <2>1. slide_window(buffer, n) = left
    BY DEF slide_window
  <2>2. I \subseteq DOMAIN buffer
    OBVIOUS
  <2> HIDE DEF I
  <2>3. /\ left \in Seq(Element) /\ Len(left) <= Len(buffer)
        /\ \A i \in 1 .. Len(left) : left[i] = buffer[Len(buffer) - Len(left) + i]
    BY <2>2, SuffixFromType
  <2> HIDE DEF left
  <2>4. DOMAIN left = 1 .. Len(left) /\ Len(left) \in Nat
    BY <2>3, LenProperties
  <2>5. \A i \in DOMAIN left : Len(buffer) - Len(left) + i \in DOMAIN buffer
    BY <1>1, <2>3, <2>4, SMT
  <2>6. \A i \in DOMAIN left : left[i].chan = 0
    BY <2>3, <2>4, <2>5, Zenon DEF Creditless
  <2> QED
    BY <2>1, <2>6 DEF Creditless
<1> QED
  BY <1>2, <1>3

LEMMA NotUpKept ==
  ASSUME RoomForHandshake, NEW e \in Endpoint, NEW p \in Endpoint, p # e, Up(e), NotUp(p),
         UNCHANGED connVars, UNCHANGED Kept(p),
         next_rx_seq'[e] = 2, next_tx_seq'[e] = First(e) + Len(retransmit_buffer'[e]),
         Recent(ack_buffer'[e], 2), Wordless(fabric'[e]), tl_msg_buffer'[e] = <<>>,
         tx_flow_credits'[e] = tx_flow_credits[e], Creditless(retransmit_buffer'[e]),
         Handshaking(e, fabric'[p], TRUE),
         \A i \in DOMAIN fabric'[p] : Dist(fabric'[p][i].seq_num_ack, 2) <= SPAN + 2
  PROVE  NotUp(p)'
<1>1. Peer(e) = p /\ Peer(p) = e
  BY Peers
<1>2. FIRST_SEQ = 2
  BY SpanSizes
<1>3. /\ next_tx_seq'[p] = next_tx_seq[p] /\ next_rx_seq'[p] = next_rx_seq[p]
      /\ credits'[p] = credits[p]
  BY DEF Kept
<1>4. connection' = connection /\ main' = main /\ conn_flag' = conn_flag /\ timer' = timer
      /\ opens' = opens
  BY DEF connVars
<1>5. Served(p) /\ Taken(p) /\ (Opening(p) => Loop(p)) /\ Ahead(e) /\ Silent(e)
  BY <1>1 DEF NotUp
<1>6. next_tx_seq[p] = 2
  BY <1>1, <1>2, <1>5 DEF Ahead
<1>7. Served(p)'
  BY <1>2, <1>3, <1>6, SMT DEF Served
<1>8. Taken(p)'
  BY <1>3, <1>5 DEF Taken
<1>9. Up(e)' /\ (Opening(p)' <=> Opening(p)) /\ First(e)' = First(e)
  BY <1>4 DEF Up, Opening, First
<1>10. HandshakeFirst(p)'
  BY <1>1, <1>9 DEF HandshakeFirst
<1>11. Opening(p)' => Loop(p)'
  BY <1>3, <1>4, <1>5, <1>9 DEF Loop
<1>12. Ahead(e)'
  BY <1>1, <1>2, <1>3, <1>6, <1>9 DEF Ahead
<1>13. Silent(e)'
  BY <1>5 DEF Silent
<1> QED
  BY <1>1, <1>7, <1>8, <1>10, <1>11, <1>12, <1>13 DEF NotUp

LEMMA WorkerNotUp ==
  ASSUME RoomForHandshake, TypeOK, WindowInv, AckBufferFresh, TypeOK', WindowInv',
         NEW e \in Endpoint, NEW p \in Endpoint, p # e, Up(e), ~connection[p], NotUp(p),
         UNCHANGED connVars, UNCHANGED Kept(p),
         Transmits(e) \/ Receives(e) \/ Computes(e),
         NEW first \in {2, 3}, first = First(e), StreamOf(0, first, e),
         NEW first2 \in {2, 3}, StreamOf(2, first2, p)
  PROVE  NotUp(p)'
<1> DEFINE N == next_tx_seq[e]
           B == retransmit_buffer[e]
           A == ack_buffer[e]
<1>1. Peer(e) = p /\ Peer(p) = e
  BY Peers
<1>2. FIRST_SEQ = 2
  BY SpanSizes
<1>3. /\ N \in SeqNum /\ B \in Seq(Element) /\ IsWindow(B, N)
      /\ Len(B) \in Nat /\ Len(B) <= WINDOW_SIZE /\ A \in Seq(AckEntry)
      /\ fabric[e] \in Seq(Frame) /\ fabric[p] \in Seq(Frame)
      /\ retransmit_buffer'[e] \in Seq(Element) /\ next_tx_seq'[e] \in SeqNum
      /\ IsWindow(retransmit_buffer'[e], next_tx_seq'[e])
  <2>1. retransmit_buffer'[e] \in Seq(Element) /\ next_tx_seq'[e] \in SeqNum
    BY DEF TypeOK
  <2>2. IsWindow(retransmit_buffer'[e], next_tx_seq'[e])
    BY DEF WindowInv, IsWindow
  <2> QED
    BY <2>1, <2>2, LinkTypes
<1>4. /\ Ahead(e) /\ Silent(e) /\ Wordless(fabric[e]) /\ Served(p) /\ Taken(p)
      /\ Handshaking(e, fabric[p], TRUE)
  <2>1. Handshaking(e, fabric[p], Up(e))
    BY <1>1 DEF NotUp, HandshakeFirst
  <2>2. Handshaking(e, fabric[p], TRUE)
    BY <2>1, Zenon DEF Handshaking
  <2> QED
    BY <1>1, <2>2 DEF NotUp
<1>5. /\ next_rx_seq[e] = 2 /\ next_tx_seq[p] = 2 /\ N = first + Len(B) /\ Recent(A, 2)
      /\ next_rx_seq[p] \in {0, 1}
      /\ \A i \in DOMAIN fabric[p] : Dist(fabric[p][i].seq_num_ack, 2) <= SPAN + 2
  BY <1>1, <1>2, <1>4 DEF Ahead, Served, Taken
<1>6. N >= 2 /\ N + 1 < SEQ_MOD
  <2>1. N = first + Len(B) /\ Len(B) \in Nat /\ Len(B) <= WINDOW_SIZE
    BY <1>3, <1>5
  <2> HIDE DEF N, B
  <2> QED
    BY <2>1, SpanSizes, Sizes, SMT
<1>7. /\ tl_msg_buffer[e] = <<>> /\ tx_flow_credits[e] = [c \in Channel |-> 0]
      /\ Creditless(B)
  BY <1>4 DEF Silent
<1>8. \A i \in DOMAIN A : A[i].seq_num_ack # 2
  BY <1>1, <1>5 DEF StreamOf, Stream
<1> HIDE DEF N, B, A
<1>9. CASE Transmits(e)
  <2>1. select_max_credit_channel(tx_flow_credits[e]) = 0
    BY <1>7 DEF select_max_credit_channel, Channel
  <2>2. next_tx_seq'[e] = first + Len(retransmit_buffer'[e]) /\ Creditless(retransmit_buffer'[e])
    <3>1. CASE next_tx_seq'[e] = N /\ retransmit_buffer'[e] = B
      BY <1>5, <1>7, <3>1
    <3>2. ASSUME next_tx_seq'[e] = tloe_seqnum_next(N), NEW x \in Element, x.chan = 0,
                 retransmit_buffer'[e] = Append(B, x)
          PROVE  /\ next_tx_seq'[e] = first + Len(retransmit_buffer'[e])
                 /\ Creditless(retransmit_buffer'[e])
      <4>1. tloe_seqnum_next(N) = N + 1
        BY <1>3, <1>6, SeqModAssumption, SMT DEF tloe_seqnum_next, SeqNum, MAX_SEQ_NUM
      <4>2. Len(Append(B, x)) = Len(B) + 1
        BY <1>3, AppendProperties
      <4>3. N + 1 = first + (Len(B) + 1)
        BY <1>3, <1>5, SMT
      <4> QED
        BY <1>3, <1>7, <3>2, <4>1, <4>2, <4>3, CreditlessKept
    <3>3. \/ next_tx_seq'[e] = N /\ retransmit_buffer'[e] = B
          \/ /\ next_tx_seq'[e] = tloe_seqnum_next(N)
             /\ \E x \in Element : retransmit_buffer'[e] = Append(B, x) /\ x.chan = 0
      BY <1>9, <2>1 DEF Transmits, N, B
    <3> QED
      BY <3>1, <3>2, <3>3
  <2>3. PICK sent : /\ Said(sent, retransmit_buffer'[e], N, 2, A)
                    /\ fabric' = [fabric EXCEPT ![p] = SendAll(@, sent)]
    BY <1>1, <1>5, <1>9 DEF Transmits, N, A
  <2>4. fabric'[p] = SendAll(fabric[p], sent) /\ fabric'[e] = fabric[e]
    BY <2>3 DEF TypeOK
  <2>5. LET more == SendAll(fabric[p], sent)
        IN  /\ Handshaking(e, more, TRUE)
            /\ \A i \in DOMAIN more : Dist(more[i].seq_num_ack, 2) <= SPAN + 2
    BY <1>3, <1>4, <1>5, <1>6, <1>8, <2>2, <2>3, SaidNotUp
  <2>6. Recent(ack_buffer'[e], 2)
    <3>1. 0 \in {0, 2} /\ 2 \in {0, 2}
      OBVIOUS
    <3>2. Recent(ack_buffer[e], next_rx_seq[e]) => Recent(ack_buffer'[e], next_rx_seq[e])
      BY <1>1, <1>9, <3>1, StreamsTransmit
    <3> QED
      BY <1>5, <3>2 DEF A
  <2>7. /\ next_rx_seq'[e] = 2 /\ tl_msg_buffer'[e] = <<>>
        /\ tx_flow_credits'[e] = tx_flow_credits[e]
    BY <1>5, <1>7, <1>9, <2>1 DEF Transmits
  <2> QED
    BY <1>4, <2>2, <2>4, <2>5, <2>6, <2>7, NotUpKept
<1>10. CASE Receives(e)
  <2>1. 0 \in {0, 2} /\ 2 \in {0, 2} /\ next_rx_seq[p] \in 0 .. first - 1
    BY <1>5, SMT
  <2>2. fabric[e] # <<>> /\ Wordless(Tail(fabric[e]))
    <3>1. fabric[e] # <<>>
      BY <1>10 DEF Receives
    <3>2. \A i \in DOMAIN Tail(fabric[e]) :
             \E j \in DOMAIN fabric[e] : Tail(fabric[e])[i] = fabric[e][j]
      BY <1>3, <3>1, TailElements
    <3> QED
      BY <1>4, <3>1, <3>2 DEF Wordless
  <2>3. ~(Numbered(Arrived(e)) /\ Arrived(e).seq_num = next_rx_seq[e])
    <3>1. Stream(2, first2, 2, 2, retransmit_buffer[p], fabric[e], fabric[p], A)
      BY <1>1, <1>5 DEF StreamOf, A
    <3>2. 1 \in DOMAIN fabric[e] /\ fabric[e][1] = Arrived(e)
      BY <1>3, <2>2, TailElements DEF Arrived
    <3>3. Dist(2, 2) = 0
      BY SMT DEF Dist
    <3>4. Numbered(Arrived(e)) => Dist(Arrived(e).seq_num, 2) \in 1 .. 0 + SPAN
      BY <3>1, <3>2, <3>3 DEF Stream, NumbersInOrder
    <3>5. ~(0 \in 1 .. 0 + SPAN)
      BY SMT
    <3> QED
      BY <1>5, <3>3, <3>4, <3>5
  <2>4. /\ next_rx_seq'[e] = 2 /\ tl_msg_buffer'[e] = <<>>
        /\ tx_flow_credits'[e] = tx_flow_credits[e] /\ next_tx_seq'[e] = N
        /\ retransmit_buffer'[e] = slide_window(B, Arrived(e).seq_num_ack)
    BY <1>5, <1>7, <1>10, <2>3 DEF Receives, N, B
  <2>5. /\ next_rx_seq'[e] = next_rx_seq[e] /\ Recent(ack_buffer[e], next_rx_seq[e]) =>
              Recent(ack_buffer'[e], next_rx_seq[e])
        /\ next_rx_seq[p] \in 0 .. first - 1
              /\ next_tx_seq[e] = first + Len(retransmit_buffer[e]) =>
              Len(retransmit_buffer'[e]) = Len(retransmit_buffer[e])
    BY <1>1, <1>10, <2>1, StreamsReceive
  <2>6. Recent(ack_buffer'[e], 2) /\ Len(retransmit_buffer'[e]) = Len(B)
    BY <1>5, <2>1, <2>4, <2>5 DEF A, B, N
  <2>7. next_tx_seq'[e] = first + Len(retransmit_buffer'[e]) /\ Creditless(retransmit_buffer'[e])
    BY <1>3, <1>5, <1>7, <2>4, <2>6, CreditlessKept
  <2>8. PICK again : /\ Said(again, retransmit_buffer'[e], N, 2, <<>>)
                     /\ fabric'[e] = Tail(fabric[e]) /\ fabric'[p] = SendAll(fabric[p], again)
    BY <1>1, <1>5, <1>10 DEF Receives, N
  <2>9. LET more == SendAll(fabric[p], again)
        IN  /\ Handshaking(e, more, TRUE)
            /\ \A i \in DOMAIN more : Dist(more[i].seq_num_ack, 2) <= SPAN + 2
    <3>1. <<>> \in Seq(AckEntry) /\ DOMAIN <<>> = {}
      BY EmptySeq, SMT
    <3>2. Recent(<<>>, 2) /\ \A i \in DOMAIN <<>> : <<>>[i].seq_num_ack # 2
      BY <3>1 DEF Recent
    <3> QED
      BY <1>3, <1>4, <1>5, <1>6, <2>7, <2>8, <3>1, <3>2, SaidNotUp
  <2> QED
    BY <2>2, <2>4, <2>6, <2>7, <2>8, <2>9, NotUpKept
<1>11. CASE Computes(e)
  <2>1. /\ UNCHANGED <<retransmit_buffer, ack_buffer, next_tx_seq, next_rx_seq, fabric>>
        /\ tl_msg_buffer'[e] = <<>> /\ tx_flow_credits'[e] = tx_flow_credits[e]
    BY <1>7, <1>11 DEF Computes, linkVars
  <2> QED
    BY <1>4, <1>5, <1>7, <2>1, NotUpKept DEF N, B, A
<1> QED
  BY <1>9, <1>10, <1>11

LEMMA AliveParts ==
  ASSUME Alive, NEW e \in Endpoint
  PROVE  /\ Fresh(e) \/ Opening(e) \/ Up(e)
         /\ ~Up(e) => NotUp(e)
         /\ StreamOf(Least(Peer(e)), First(e), e)
         /\ Least(e) \in {0, 2} /\ First(e) \in {2, 3}
BY HandshakeNumbers, SMT DEF Alive, StreamFrom, StreamOf, Least, First

LEMMA WorkerAlive ==
  ASSUME RoomForHandshake, TypeOK, ConnVarsType, RestInv, WindowInv, AckBufferFresh,
         TypeOK', WindowInv', Alive, NEW e \in Endpoint, ConnWorker(e) \/ ConnSubmit(e)
  PROVE  Alive'
<1> DEFINE p == Peer(e)
<1>1. p \in Endpoint /\ p # e /\ Peer(p) = e
  BY Peers
<1>2. UNCHANGED connVars
  BY DEF ConnWorker, ConnSubmit
<1>3. Up(e)
  <2>1. SUFFICES ASSUME Fresh(e) \/ Opening(e) PROVE FALSE
    BY AliveParts
  <2>2. ~connection[e] /\ main[e] \in {"idle", "opening"}
    BY <2>1 DEF Fresh, Opening
  <2>3. pc[e] = "select"
    BY <2>2 DEF RestInv, RestAt, AtRest
  <2> QED
    BY <2>2, <2>3 DEF ConnWorker, ConnSubmit
<1>4. /\ Transmits(e) \/ Receives(e) \/ Computes(e)
      /\ UNCHANGED Kept(p)
  BY WorkerEffect DEF ConnWorker, ConnSubmit
<1>5. /\ Up(e)' /\ (Up(p)' <=> Up(p))
      /\ (Fresh(p) => Fresh(p)') /\ (Opening(p) => Opening(p)')
      /\ Least(e)' = Least(e) /\ Least(p)' = Least(p)
      /\ First(e)' = First(e) /\ First(p)' = First(p)
  BY <1>2, <1>3, <1>4 DEF connVars, Kept, Up, Fresh, Opening, Least, First
<1>6. Least(e) = 2
  BY <1>3, HandshakeNumbers DEF Up, Least
<1>7. PICK least \in {0, 2} : least = Least(p)
  BY <1>1, AliveParts
<1>8. PICK first \in {2, 3} : first = First(e)
  BY <1>1, AliveParts
<1>9. PICK first2 \in {2, 3} : first2 = First(p)
  BY <1>1, AliveParts
<1>10. StreamOf(least, first, e) /\ StreamOf(2, first2, p)
  BY <1>1, <1>6, <1>7, <1>8, <1>9, AliveParts
<1>11. StreamOf(least, first, e)' /\ StreamOf(2, first2, p)'
  <2>1. CASE Transmits(e)
    <3>1. 2 \in {0, 2}
      OBVIOUS
    <3> QED
      BY <1>4, <1>10, <2>1, <3>1, StreamsTransmit
  <2>2. CASE Receives(e)
    BY <1>4, <1>10, <2>2, StreamsReceive
  <2>3. CASE Computes(e)
    <3>1. UNCHANGED <<next_tx_seq, next_rx_seq, retransmit_buffer, fabric, ack_buffer>>
      BY <2>3 DEF Computes, linkVars
    <3> QED
      BY <1>10, <3>1 DEF StreamOf
  <2> QED
    BY <1>4, <2>1, <2>2, <2>3
<1>12. StreamFrom(e)' /\ StreamFrom(p)'
  BY <1>1, <1>5, <1>6, <1>7, <1>8, <1>9, <1>11 DEF StreamFrom, StreamOf
<1>13. ~Up(p)' => NotUp(p)'
  <2>1. SUFFICES ASSUME ~Up(p) PROVE NotUp(p)'
    BY <1>5
  <2>2. NotUp(p) /\ ~connection[p]
    BY <1>1, <2>1, AliveParts DEF Fresh, Opening
  <2>3. least = 0
    BY <1>7, <2>2 DEF Least
  <2> QED
    BY <1>1, <1>2, <1>3, <1>4, <1>8, <1>9, <1>10, <2>2, <2>3, WorkerNotUp
<1>14. Fresh(p)' \/ Opening(p)' \/ Up(p)'
  BY <1>1, <1>5, AliveParts
<1> HIDE DEF p
<1>15. Alive'
  BY <1>5, <1>12, <1>13, <1>14, Peers DEF Alive, p
<1> QED
  BY <1>15

-----------------------------------------------------------------------------
(***************************************************************************)
(* The main threads keep both streams                                       *)
(***************************************************************************)
LEMMA LeftOf ==
  ASSUME NEW queue, NEW fewer, Thinned(fewer, queue)
  PROVE  \A i \in DOMAIN fewer : \E j \in DOMAIN queue : fewer[i] = queue[j]
BY Zenon DEF Thinned

LEMMA AddedTo ==
  ASSUME NEW queue \in Seq(Frame), NEW new \in Seq(Frame)
  PROVE  /\ Thinned(SendAll(queue, new), queue \o new) /\ queue \o new \in Seq(Frame)
         /\ \A i \in DOMAIN SendAll(queue, new) :
               \/ \E j \in DOMAIN queue : SendAll(queue, new)[i] = queue[j]
               \/ \E j \in DOMAIN new : SendAll(queue, new)[i] = new[j]
<1> DEFINE all == queue \o new
           more == SendAll(queue, new)
<1>1. Thinned(more, all) /\ all \in Seq(Frame)
  BY SendAllThins, ConcatProperties
<1>2. \A i \in DOMAIN all : \/ \E k \in DOMAIN queue : all[i] = queue[k]
                            \/ \E k \in DOMAIN new : all[i] = new[k]
  <2>1. \A k \in DOMAIN all :
           \/ k <= Len(queue) /\ k \in DOMAIN queue /\ all[k] = queue[k]
           \/ k > Len(queue) /\ k - Len(queue) \in DOMAIN new
                /\ all[k] = new[k - Len(queue)]
    BY ConcatElements
  <2> HIDE DEF all
  <2> QED
    BY <2>1, Zenon
<1> HIDE DEF all, more
<1>3. \A i \in DOMAIN more : \E k \in DOMAIN all : more[i] = all[k]
  BY <1>1, LeftOf
<1>4. \A i \in DOMAIN more : \/ \E k \in DOMAIN queue : more[i] = queue[k]
                             \/ \E k \in DOMAIN new : more[i] = new[k]
  BY <1>2, <1>3, Zenon
<1> QED
  BY <1>1, <1>4 DEF more, all

LEMMA WordlessSends ==
  ASSUME NEW queue \in Seq(Frame), NEW new \in Seq(Frame)
  PROVE  /\ Wordless(queue) /\ Wordless(new) => Wordless(SendAll(queue, new))
         /\ Creditless(queue) /\ Creditless(new) => Creditless(SendAll(queue, new))
<1> DEFINE more == SendAll(queue, new)
<1>1. \A i \in DOMAIN more : \/ \E k \in DOMAIN queue : more[i] = queue[k]
                             \/ \E k \in DOMAIN new : more[i] = new[k]
  BY AddedTo
<1> HIDE DEF more
<1>2. /\ Wordless(queue) /\ Wordless(new) => Wordless(more)
      /\ Creditless(queue) /\ Creditless(new) => Creditless(more)
  BY <1>1 DEF Wordless, Creditless
<1> QED
  BY <1>2 DEF more

LEMMA WordlessThins ==
  ASSUME NEW queue, NEW fewer, Thinned(fewer, queue)
  PROVE  (Wordless(queue) => Wordless(fewer)) /\ (Creditless(queue) => Creditless(fewer))
BY LeftOf DEF Wordless, Creditless

LEMMA EmptyThins ==
  ASSUME NEW fewer \in Seq(Frame), Thinned(fewer, <<>>)
  PROVE  fewer = <<>>
<1>1. DOMAIN fewer = {}
  BY LeftOf
<1>2. Len(fewer) = 0
  BY <1>1, LenProperties, SMT
<1> QED
  BY <1>2, EmptySeq

\* Nothing of the state of a stream but what is under way changes.
OffWire == <<next_tx_seq, next_rx_seq, retransmit_buffer, ack_buffer, tl_msg_buffer, credits,
             tx_flow_credits, connection>>

LEMMA ServedThins ==
  ASSUME TypeOK', NEW e \in Endpoint, NEW p \in Endpoint, p = Peer(e), Served(e),
         next_tx_seq'[e] = next_tx_seq[e], next_rx_seq'[p] = next_rx_seq[p],
         Thinned(fabric'[e], fabric[e]), Thinned(fabric'[p], fabric[p])
  PROVE  Served(e)'
<1>1. fabric'[p] \in Seq(Frame)
  BY DEF TypeOK
<1>2. \A i \in DOMAIN fabric'[e] : \E j \in DOMAIN fabric[e] : fabric'[e][i] = fabric[e][j]
  BY LeftOf
<1>3. \A i \in DOMAIN fabric'[e] :
          Dist(fabric'[e][i].seq_num_ack, next_tx_seq'[e]) <= SPAN + FIRST_SEQ
  BY <1>2 DEF Served
<1>4. next_tx_seq'[e] = 0 =>
          /\ fabric'[p] = <<>> /\ next_rx_seq'[p] = 0
          /\ \A i \in DOMAIN fabric'[e] : fabric'[e][i].seq_num_ack = tloe_seqnum_prev(0)
  BY <1>1, <1>2, EmptyThins DEF Served
<1> QED
  BY <1>3, <1>4 DEF Served

LEMMA NotUpThins ==
  ASSUME TypeOK', NEW e \in Endpoint, NEW p \in Endpoint, p = Peer(e), NotUp(e),
         UNCHANGED OffWire, Up(p)' <=> Up(p), Opening(e)' => Loop(e)',
         Thinned(fabric'[e], fabric[e]), Thinned(fabric'[p], fabric[p])
  PROVE  NotUp(e)'
<1>1. Peer(p) = e
  BY Peers
<1>2. Served(e)'
  BY ServedThins DEF NotUp, OffWire
<1>3. Taken(e)'
  BY DEF NotUp, OffWire, Taken
<1>4. HandshakeFirst(e)'
  <2>1. Handshaking(p, fabric[e], Up(p))
    BY DEF NotUp, HandshakeFirst
  <2>2. Handshaking(p, fabric'[e], Up(p))
    BY <2>1, HandshakingThins
  <2>3. Handshaking(p, fabric'[e], Up(p)')
    BY <2>2, Zenon DEF Handshaking
  <2> QED
    BY <2>3 DEF HandshakeFirst
<1>5. Up(p)' => Ahead(p)'
  BY DEF NotUp, OffWire, Ahead, First
<1>6. Wordless(fabric'[p]) /\ Silent(p)'
  BY WordlessThins DEF NotUp, OffWire, Silent
<1> QED
  BY <1>2, <1>3, <1>4, <1>5, <1>6 DEF NotUp

LEMMA AliveThins ==
  ASSUME TypeOK', Alive, UNCHANGED OffWire,
         \A q \in Endpoint :
            /\ Fresh(q)' \/ Opening(q)' \/ Up(q)'
            /\ Up(q)' <=> Up(q)
            /\ Opening(q)' => Loop(q)'
            /\ Thinned(fabric'[q], fabric[q])
  PROVE  Alive'
<1>1. ASSUME NEW q \in Endpoint
      PROVE  (~Up(q)' => NotUp(q)') /\ StreamFrom(q)'
  <2>1. Peer(q) \in Endpoint
    BY Peers
  <2>2. ~Up(q)' => NotUp(q)'
    BY <2>1, NotUpThins DEF Alive
  <2>3. StreamFrom(q)
    BY DEF Alive
  <2>4. StreamFrom(q)'
    BY <2>1, <2>3, StreamThins DEF OffWire, StreamFrom, First, Least
  <2> QED
    BY <2>2, <2>4
<1> QED
  BY <1>1 DEF Alive

\* The steps that change no stream.
LEMMA SameStages ==
  ASSUME Alive, UNCHANGED OffWire, UNCHANGED connVars
  PROVE  \A q \in Endpoint : /\ Fresh(q)' \/ Opening(q)' \/ Up(q)'
                             /\ Up(q)' <=> Up(q)
                             /\ Opening(q)' => Loop(q)'
<1>1. SUFFICES ASSUME NEW q \in Endpoint
               PROVE  /\ Fresh(q)' \/ Opening(q)' \/ Up(q)'
                      /\ Up(q)' <=> Up(q)
                      /\ Opening(q)' => Loop(q)'
  OBVIOUS
<1>2. (Fresh(q)' <=> Fresh(q)) /\ (Opening(q)' <=> Opening(q)) /\ (Up(q)' <=> Up(q))
  BY DEF OffWire, connVars, Fresh, Opening, Up
<1>3. Opening(q) => ~Up(q) /\ Loop(q)
  BY DEF Alive, NotUp, Opening, Up
<1>4. Loop(q) => Loop(q)'
  BY DEF OffWire, connVars, Loop
<1> QED
  BY <1>2, <1>3, <1>4, AliveParts

LEMMA FabricSame ==
  ASSUME TypeOK, fabric' = fabric
  PROVE  \A q \in Endpoint : Thinned(fabric'[q], fabric[q])
BY SameThins DEF TypeOK

LEMMA FabricTaken ==
  ASSUME TypeOK, NEW e \in Endpoint, fabric[e] # <<>>, fabric' = Consume(e)
  PROVE  \A q \in Endpoint : Thinned(fabric'[q], fabric[q])
<1>1. ASSUME NEW q \in Endpoint PROVE Thinned(fabric'[q], fabric[q])
  <2>1. fabric[q] \in Seq(Frame)
    BY DEF TypeOK
  <2>2. CASE q = e
    BY <2>1, <2>2, TailThins DEF Consume, TypeOK
  <2>3. CASE q # e
    BY <2>1, <2>3, SameThins DEF Consume, TypeOK
  <2> QED
    BY <2>2, <2>3
<1> QED
  BY <1>1

LEMMA FabricLost ==
  ASSUME TypeOK, NEW e \in Endpoint, Lose(e)
  PROVE  \A q \in Endpoint : Thinned(fabric'[q], fabric[q])
<1>1. PICK i \in DOMAIN fabric[e] :
         fabric' = [fabric EXCEPT ![e] = SubSeq(@, 1, i - 1) \o SubSeq(@, i + 1, Len(@))]
  BY DEF Lose
<1>2. ASSUME NEW q \in Endpoint PROVE Thinned(fabric'[q], fabric[q])
  <2>1. fabric[q] \in Seq(Frame)
    BY DEF TypeOK
  <2>2. CASE q = e
    BY <1>1, <2>1, <2>2, LossThins DEF TypeOK
  <2>3. CASE q # e
    BY <1>1, <2>1, <2>3, SameThins DEF TypeOK
  <2> QED
    BY <2>2, <2>3
<1> QED
  BY <1>2

LEMMA CommandAlive ==
  ASSUME CLOSE_UNCONNECTED = FALSE, FirstOpen', TypeOK, ConnVarsType, TypeOK', Alive,
         NEW e \in Endpoint, Open(e) \/ Close(e) \/ Quit(e) \/ tloe_endpoint_close(e)
  PROVE  Alive' \/ Closed(e)'
<1>1. CASE Close(e)
  <2>1. connection[e] /\ main[e] = "idle"
    BY <1>1 DEF Close
  <2>2. opens[e] >= 1
    BY <2>1 DEF Alive, Fresh, Opening, Up
  <2> QED
    BY <1>1, <2>2 DEF Close, Closed, ConnVarsType
<1>2. CASE Open(e)
  <2>1. Fresh(e)
    BY <1>2, AliveParts DEF Open, Opening, Up
  <2>2. opens'[e] = 1 /\ main'[e] = "opening" /\ ~connection'[e]
    BY <1>2, <2>1, SMT DEF Open, Fresh, ConnVarsType
  <2>3. Opening(e)' /\ ~Up(e) /\ ~Up(e)'
    BY <2>1, <2>2, SMT DEF Opening, Up, Fresh
  <2>4. Loop(e)'
    <3>1. timer'[e] = "run_out" /\ ~conn_flag'[e]
      BY <1>2 DEF Open, ConnVarsType
    <3>2. next_tx_seq'[e] = 0
      BY <1>2, <2>1 DEF Open, Fresh, vars, linkVars
    <3> QED
      BY <3>1, <3>2 DEF Loop
  <2>5. ASSUME NEW q \in Endpoint, q # e
        PROVE  /\ Fresh(q)' \/ Opening(q)' \/ Up(q)'
               /\ Up(q)' <=> Up(q)
               /\ Opening(q)' => Loop(q)'
    <3>1. /\ UNCHANGED <<main[q], connection[q], opens[q], conn_flag[q], timer[q],
                         next_tx_seq[q], next_rx_seq[q]>>
      BY <1>2, <2>5 DEF Open, ConnVarsType, vars, linkVars
    <3>2. (Fresh(q)' <=> Fresh(q)) /\ (Opening(q)' <=> Opening(q)) /\ (Up(q)' <=> Up(q))
      BY <3>1 DEF Fresh, Opening, Up
    <3>3. Opening(q) => ~Up(q) /\ Loop(q)
      BY DEF Alive, NotUp, Opening, Up
    <3>4. Loop(q) => Loop(q)'
      BY <3>1 DEF Loop
    <3> QED
      BY <3>2, <3>3, <3>4, AliveParts
  <2>6. \A q \in Endpoint : /\ Fresh(q)' \/ Opening(q)' \/ Up(q)'
                            /\ Up(q)' <=> Up(q)
                            /\ Opening(q)' => Loop(q)'
    BY <2>3, <2>4, <2>5
  <2>7. UNCHANGED OffWire /\ fabric' = fabric
    BY <1>2 DEF Open, vars, linkVars, creditVars, OffWire
  <2> QED
    BY <2>6, <2>7, FabricSame, AliveThins
<1>3. CASE (Quit(e) \/ tloe_endpoint_close(e)) /\ ~connection[e]
  <2>1. Quit(e)
    BY <1>3, AliveParts DEF tloe_endpoint_close, Fresh, Opening, Up
  <2> QED
    BY <1>3, <2>1 DEF Quit, Closed, ConnVarsType
<1>4. CASE (Quit(e) \/ tloe_endpoint_close(e)) /\ connection[e]
  <2>1. Up(e)
    BY <1>4, AliveParts DEF Fresh, Opening
  <2>2. /\ UNCHANGED <<connection, conn_flag, timer, opens, OffWire, fabric>>
        /\ main'[e] \in {"quitting", "gone"} /\ \A q \in Endpoint : q # e => main'[q] = main[q]
    BY <1>4 DEF Quit, tloe_endpoint_close, vars, linkVars, creditVars, OffWire, ConnVarsType
  <2>3. Up(e)' /\ ~Opening(e)'
    BY <2>1, <2>2 DEF Up, Opening
  <2>4. ASSUME NEW q \in Endpoint, q # e
        PROVE  /\ Fresh(q)' \/ Opening(q)' \/ Up(q)'
               /\ Up(q)' <=> Up(q)
               /\ Opening(q)' => Loop(q)'
    <3>1. /\ UNCHANGED <<main[q], connection[q], opens[q], conn_flag[q], timer[q],
                         next_tx_seq[q], next_rx_seq[q]>>
      BY <2>2, <2>4 DEF OffWire
    <3>2. (Fresh(q)' <=> Fresh(q)) /\ (Opening(q)' <=> Opening(q)) /\ (Up(q)' <=> Up(q))
      BY <3>1 DEF Fresh, Opening, Up
    <3>3. Opening(q) => ~Up(q) /\ Loop(q)
      BY DEF Alive, NotUp, Opening, Up
    <3>4. Loop(q) => Loop(q)'
      BY <3>1 DEF Loop
    <3> QED
      BY <3>2, <3>3, <3>4, AliveParts
  <2>5. \A q \in Endpoint : /\ Fresh(q)' \/ Opening(q)' \/ Up(q)'
                            /\ Up(q)' <=> Up(q)
                            /\ Opening(q)' => Loop(q)'
    BY <2>1, <2>3, <2>4
  <2> QED
    BY <2>2, <2>5, FabricSame, AliveThins DEF OffWire
<1> QED
  BY <1>1, <1>2, <1>3, <1>4

LEMMA WireAlive ==
  ASSUME TypeOK, TypeOK', Alive,
         \/ \E e \in Endpoint : (Lose(e) /\ UNCHANGED connVars) \/ recv_conn_Drop(e)
         \/ UNCHANGED allVars
  PROVE  Alive'
<1>1. UNCHANGED OffWire /\ UNCHANGED connVars
  BY DEF Lose, recv_conn_Drop, recv_conn, trafficVars, creditVars, OffWire, connVars, allVars,
         vars, linkVars
<1>2. \A q \in Endpoint : Thinned(fabric'[q], fabric[q])
  <2>1. ASSUME NEW e \in Endpoint, recv_conn_Drop(e)
        PROVE  \A q \in Endpoint : Thinned(fabric'[q], fabric[q])
    BY <2>1, FabricTaken DEF recv_conn_Drop, recv_conn
  <2>2. CASE UNCHANGED allVars
    BY <2>2, FabricSame DEF allVars, vars, linkVars
  <2> QED
    BY <2>1, <2>2, FabricLost
<1> QED
  BY <1>1, <1>2, SameStages, AliveThins

\* Nobody closes yet.
LEMMA NoCloseAlive ==
  ASSUME Alive, NEW e \in Endpoint
  PROVE  ~CloseStep(e)
<1>1. main[e] \notin {"closing", "leaving"}
  BY DEF Alive, Fresh, Opening, Up
<1> QED
  BY <1>1 DEF CloseStep, recv_close_Drop, recv_close, serve_close_master, recv_close_master,
              recv_close_slave, serve_close_slave, last_recv_slave

LEMMA HandshakeFrameParts ==
  ASSUME NEW e, NEW f, HandshakeFrame(e, f)
  PROVE  /\ f.seq_num \in {0, 1} /\ f.chan # 0 /\ f.credit = CREDIT /\ f.credit > CREDIT_INIT
         /\ f.seq_num = 0 => f.chan = CHANNEL_A
         /\ f.seq_num = 1 => f.chan = CHANNEL_D
         /\ f.type = IF e = Master /\ f.seq_num = 0 THEN "OPEN_CONNECTION" ELSE "NORMAL"
<1>1. PICK i \in 1 .. 2 :
         /\ f.seq_num = i - 1 /\ f.chan = ChannelOrder[i] /\ f.credit = CREDIT
         /\ f.type = IF e = Master /\ i = 1 THEN "OPEN_CONNECTION" ELSE "NORMAL"
  BY ChannelOrderType DEF HandshakeFrame
<1>2. i = 1 \/ i = 2
  BY SMT
<1>3. ChannelOrder[1] = CHANNEL_A /\ ChannelOrder[2] = CHANNEL_D
  BY DEF ChannelOrder
<1>4. CHANNEL_A # 0 /\ CHANNEL_D # 0 /\ CREDIT > CREDIT_INIT
  BY ConnectionAssumption, SizeAssumption, SMT DEF CHANNEL_A, CHANNEL_D
<1>5. CASE i = 1
  BY <1>1, <1>3, <1>4, <1>5, SMT
<1>6. CASE i = 2
  BY <1>1, <1>3, <1>4, <1>6, SMT
<1> QED
  BY <1>2, <1>5, <1>6

LEMMA ServeFramesParts ==
  ASSUME TypeOK, NEW e \in Endpoint
  PROVE  /\ ServeFrames(e) \in Seq(Frame)
         /\ \A k \in DOMAIN ServeFrames(e) :
               /\ HandshakeFrame(e, ServeFrames(e)[k])
               /\ ServeFrames(e)[k].seq_num_ack = tloe_seqnum_prev(next_rx_seq[e])
               /\ ServeFrames(e)[k].tlmsg = NoMsg
<1>1. ASSUME NEW k \in DOMAIN ServeFrames(e)
      PROVE  /\ HandshakeFrame(e, ServeFrames(e)[k])
             /\ ServeFrames(e)[k].seq_num_ack = tloe_seqnum_prev(next_rx_seq[e])
             /\ ServeFrames(e)[k].tlmsg = NoMsg
  <2>1. k \in DOMAIN ChannelOrder
    BY DEF ServeFrames
  <2>2. ServeFrames(e)[k] = ConnFrame(IF e = Master /\ k = 1 THEN "OPEN_CONNECTION" ELSE "NORMAL",
                                      k - 1, next_rx_seq[e], ChannelOrder[k], CREDIT)
    BY <2>1 DEF ServeFrames
  <2> QED
    BY <2>1, <2>2 DEF ConnFrame, HandshakeFrame
<1> QED
  BY <1>1, ServeFramesType

\* What is known while e opens.
LEMMA OpeningFacts ==
  ASSUME TypeOK, ConnVarsType, RestInv, Alive, NEW e \in Endpoint, Opening(e),
         NEW p \in Endpoint, p = Peer(e)
  PROVE  /\ p # e /\ Peer(p) = e
         /\ ~connection[e] /\ ~Up(e) /\ NotUp(e) /\ Loop(e) /\ First(e) = 2 /\ Least(e) = 0
         /\ retransmit_buffer[e] = <<>> /\ ack_buffer[e] = <<>> /\ tl_msg_buffer[e] = <<>>
         /\ ~Up(p) => /\ ~connection[p] /\ NotUp(p) /\ Least(p) = 0 /\ First(p) = 2
                      /\ ack_buffer[p] = <<>> /\ retransmit_buffer[p] = <<>>
         /\ Up(p) => Ahead(p) /\ Least(p) = 2 /\ next_tx_seq[e] = 2 /\ next_rx_seq[p] = 2
<1>1. p # e /\ Peer(p) = e
  BY Peers
<1>2. ~connection[e] /\ main[e] = "opening" /\ ~Up(e)
  BY DEF Opening, Up
<1>3. NotUp(e) /\ Loop(e)
  BY <1>2, AliveParts DEF NotUp
<1>4. First(e) = 2 /\ Least(e) = 0
  BY <1>2, HandshakeNumbers DEF First, Least
<1>5. AtRest(e)
  BY <1>2 DEF RestInv, RestAt
<1>6. ASSUME ~Up(p)
      PROVE  /\ ~connection[p] /\ NotUp(p) /\ Least(p) = 0 /\ First(p) = 2
             /\ ack_buffer[p] = <<>> /\ retransmit_buffer[p] = <<>>
  <2>1. ~connection[p] /\ main[p] \in {"idle", "opening"} /\ NotUp(p)
    BY <1>6, AliveParts DEF Fresh, Opening
  <2>2. AtRest(p)
    BY <2>1 DEF RestInv, RestAt
  <2> QED
    BY <2>1, <2>2, HandshakeNumbers DEF First, Least, AtRest
<1>7. ASSUME Up(p)
      PROVE  Ahead(p) /\ Least(p) = 2 /\ next_tx_seq[e] = 2 /\ next_rx_seq[p] = 2
  BY <1>1, <1>3, <1>7, HandshakeNumbers DEF NotUp, Ahead, Least, Up
<1> QED
  BY <1>1, <1>2, <1>3, <1>4, <1>5, <1>6, <1>7 DEF AtRest

\* The numbers before those a handshake takes.
LEMMA PrevNumbers ==
  ASSUME RoomForHandshake
  PROVE  /\ Dist(tloe_seqnum_prev(0), 0) = 1 /\ Dist(tloe_seqnum_prev(1), 1) = 1
         /\ Dist(tloe_seqnum_prev(2), 2) = 1
         /\ Dist(tloe_seqnum_prev(0), 2) = 3 /\ Dist(tloe_seqnum_prev(1), 2) = 2
         /\ Dist(0, 2) = 2 /\ Dist(1, 2) = 1 /\ Dist(2, 3) = 1
         /\ tloe_seqnum_next(0) = 1 /\ tloe_seqnum_next(1) = 2 /\ tloe_seqnum_next(2) = 3
         /\ 3 \in SeqNum /\ 3 <= SPAN /\ SPAN \in Nat
BY SpanSizes, Sizes, SMT DEF Dist, tloe_seqnum_prev, tloe_seqnum_next, MAX_SEQ_NUM, SeqNum

\* The handshake is sent, for the first time or again.
LEMMA ServeAlive ==
  ASSUME RoomForHandshake, TypeOK, ConnVarsType, RestInv, WindowInv, TypeOK', Alive,
         NEW e \in Endpoint, serve_conn(e)
  PROVE  Alive'
<1> DEFINE p == Peer(e)
           new == ServeFrames(e)
<1>1. p \in Endpoint /\ p # e /\ Peer(p) = e
  BY Peers
<1>2. Opening(e)
  BY AliveParts DEF serve_conn, Fresh, Up
<1>3. /\ ~connection[e] /\ ~Up(e) /\ NotUp(e) /\ Loop(e) /\ First(e) = 2 /\ Least(e) = 0
      /\ retransmit_buffer[e] = <<>> /\ ack_buffer[e] = <<>>
      /\ ~Up(p) => /\ ~connection[p] /\ NotUp(p) /\ Least(p) = 0 /\ First(p) = 2
                   /\ ack_buffer[p] = <<>>
      /\ Up(p) => Ahead(p) /\ Least(p) = 2 /\ next_tx_seq[e] = 2
  BY <1>1, <1>2, OpeningFacts
<1>4. /\ fabric[p] \in Seq(Frame) /\ fabric[e] \in Seq(Frame)
      /\ next_tx_seq[p] \in SeqNum /\ next_rx_seq[e] \in SeqNum
      /\ next_tx_seq[e] \in SeqNum /\ next_rx_seq[p] \in SeqNum
      /\ Len(retransmit_buffer[p]) \in Nat /\ Len(retransmit_buffer[p]) <= WINDOW_SIZE
      /\ ack_buffer[p] \in Seq(AckEntry)
  BY <1>1, LinkTypes
<1>5. /\ fabric'[p] = SendAll(fabric[p], new) /\ fabric'[e] = fabric[e]
      /\ next_tx_seq'[e] = 2 /\ next_tx_seq'[p] = next_tx_seq[p]
      /\ timer'[e] = "running" /\ timer'[p] = timer[p]
      /\ UNCHANGED <<next_rx_seq, credits, tx_flow_credits, retransmit_buffer, ack_buffer,
                     tl_msg_buffer, connection, main, conn_flag, opens>>
  BY <1>1, ChannelOrderType DEF serve_conn, ToPeer, creditVars, trafficVars, TypeOK, ConnVarsType
<1>6. e = Master \/ conn_flag[e]
  BY DEF serve_conn, TimerOut, MustServe
<1>7. /\ new \in Seq(Frame)
      /\ \A k \in DOMAIN new : /\ HandshakeFrame(e, new[k])
                               /\ new[k].seq_num_ack = tloe_seqnum_prev(next_rx_seq[e])
                               /\ new[k].tlmsg = NoMsg
  BY ServeFramesParts
<1>8. /\ Thinned(fabric'[p], fabric[p] \o new) /\ fabric[p] \o new \in Seq(Frame)
      /\ \A i \in DOMAIN fabric'[p] : \/ \E k \in DOMAIN fabric[p] : fabric'[p][i] = fabric[p][k]
                                      \/ \E k \in DOMAIN new : fabric'[p][i] = new[k]
      /\ Thinned(fabric'[e], fabric[e])
  <2> HIDE DEF p, new
  <2> QED
    BY <1>4, <1>5, <1>7, AddedTo, SameThins
<1>9. /\ Opening(e)' /\ ~Up(e)' /\ (Up(p)' <=> Up(p))
      /\ (Opening(p)' <=> Opening(p)) /\ (Fresh(p)' <=> Fresh(p))
      /\ First(e)' = First(e) /\ First(p)' = First(p)
      /\ Least(e)' = Least(e) /\ Least(p)' = Least(p)
  BY <1>2, <1>3, <1>5 DEF Opening, Up, Fresh, First, Least
<1>10. FIRST_SEQ = 2
  BY SpanSizes
<1>11. /\ Served(e) /\ Taken(e) /\ HandshakeFirst(e) /\ Wordless(fabric[p]) /\ Silent(p)
  BY <1>3 DEF NotUp
<1>12. next_tx_seq[e] \in {0, 2} /\ next_rx_seq[e] \in {0, 1}
  BY <1>10, <1>11 DEF Served, Taken
<1> HIDE DEF p, new
<1>13. NotUp(e)'
  <2>1. Served(e)'
    <3>1. ASSUME NEW i \in DOMAIN fabric[e]
          PROVE  Dist(fabric[e][i].seq_num_ack, 2) <= SPAN + 2
      <4>1. CASE next_tx_seq[e] = 2
        BY <1>10, <1>11, <4>1 DEF Served
      <4>2. CASE next_tx_seq[e] = 0
        <5>1. fabric[e][i].seq_num_ack = tloe_seqnum_prev(0)
          BY <1>11, <4>2 DEF Served
        <5>2. 3 <= SPAN + 2
          BY PrevNumbers, SMT
        <5> QED
          BY <5>1, <5>2, PrevNumbers
      <4> QED
        BY <1>12, <4>1, <4>2
    <3>2. 2 # 0
      OBVIOUS
    <3> QED
      BY <1>5, <1>10, <3>1, <3>2 DEF Served
  <2>2. Taken(e)'
    BY <1>5, <1>11 DEF Taken
  <2>3. HandshakeFirst(e)'
    <3>1. Handshaking(p, fabric[e], Up(p)')
      BY <1>9, <1>11, Zenon DEF HandshakeFirst, Handshaking, p
    <3> QED
      BY <1>5, <3>1 DEF HandshakeFirst, p
  <2>4. Loop(e)'
    BY <1>3, <1>5, <1>6, <1>10, EndpointAssumption DEF Loop
  <2>5. Up(p)' => Ahead(p)'
    BY <1>1, <1>3, <1>5, <1>9, <1>10 DEF Ahead
  <2>6. Wordless(fabric'[p]) /\ Silent(p)'
    <3>1. Wordless(new)
      BY <1>7 DEF Wordless
    <3> QED
      BY <1>4, <1>5, <1>7, <1>11, <3>1, WordlessSends DEF Silent
  <2> QED
    BY <2>1, <2>2, <2>3, <2>4, <2>5, <2>6 DEF NotUp, p
<1>14. ~Up(p)' => NotUp(p)'
  <2>1. SUFFICES ASSUME ~Up(p) PROVE NotUp(p)'
    BY <1>9
  <2>2. Served(p) /\ Taken(p) /\ HandshakeFirst(p) /\ (Opening(p) => Loop(p))
        /\ Wordless(fabric[e]) /\ Silent(e)
    BY <1>1, <1>3, <2>1 DEF NotUp
  <2>3. next_tx_seq[p] \in {0, 2}
    BY <1>10, <2>2 DEF Served
  <2>4. next_tx_seq[p] = 0 => fabric[e] = <<>> /\ next_rx_seq[e] = 0
    BY <1>1, <2>2 DEF Served
  <2>5. Dist(tloe_seqnum_prev(next_rx_seq[e]), next_tx_seq[p]) \in {1, 2, 3}
    <3>1. \/ next_tx_seq[p] = 0 /\ next_rx_seq[e] = 0
          \/ next_tx_seq[p] = 2 /\ next_rx_seq[e] \in {0, 1}
      BY <1>12, <2>3, <2>4
    <3> QED
      BY <3>1, PrevNumbers
  <2>6. Served(p)'
    <3>1. ASSUME NEW i \in DOMAIN fabric'[p]
          PROVE  Dist(fabric'[p][i].seq_num_ack, next_tx_seq[p]) <= SPAN + 2
      <4>1. CASE \E k \in DOMAIN fabric[p] : fabric'[p][i] = fabric[p][k]
        BY <1>10, <2>2, <4>1 DEF Served
      <4>2. CASE \E k \in DOMAIN new : fabric'[p][i] = new[k]
        <5>1. fabric'[p][i].seq_num_ack = tloe_seqnum_prev(next_rx_seq[e])
          BY <1>7, <4>2
        <5>2. \A d \in {1, 2, 3} : d <= SPAN + 2
          BY PrevNumbers, SMT
        <5> QED
          BY <2>5, <5>1, <5>2
      <4> QED
        BY <1>8, <4>1, <4>2
    <3>2. ASSUME next_tx_seq[p] = 0, NEW i \in DOMAIN fabric'[p]
          PROVE  fabric'[p][i].seq_num_ack = tloe_seqnum_prev(0)
      <4>1. CASE \E k \in DOMAIN fabric[p] : fabric'[p][i] = fabric[p][k]
        BY <2>2, <3>2, <4>1 DEF Served
      <4>2. CASE \E k \in DOMAIN new : fabric'[p][i] = new[k]
        BY <1>7, <2>4, <3>2, <4>2
      <4> QED
        BY <1>8, <4>1, <4>2
    <3>3. next_tx_seq'[p] = 0 =>
            /\ fabric'[e] = <<>> /\ next_rx_seq'[e] = 0
            /\ \A i \in DOMAIN fabric'[p] : fabric'[p][i].seq_num_ack = tloe_seqnum_prev(0)
      BY <1>5, <2>4, <3>2
    <3>4. \A i \in DOMAIN fabric'[p] :
             Dist(fabric'[p][i].seq_num_ack, next_tx_seq'[p]) <= SPAN + FIRST_SEQ
      BY <1>5, <1>10, <3>1
    <3>5. next_tx_seq'[p] \in {0, FIRST_SEQ}
      BY <1>5, <1>10, <2>3
    <3> QED
      BY <1>1, <3>3, <3>4, <3>5 DEF Served
  <2>7. Taken(p)'
    BY <1>5, <2>2 DEF Taken
  <2>8. HandshakeFirst(p)'
    <3>1. \A i \in DOMAIN fabric[p] : HandshakeFrame(e, fabric[p][i])
      BY <1>1, <1>3, <2>2 DEF HandshakeFirst, Handshaking
    <3>2. \A i \in DOMAIN fabric'[p] : HandshakeFrame(e, fabric'[p][i])
      BY <1>7, <1>8, <3>1
    <3>3. \A i \in DOMAIN fabric'[p] : ~LateFrame(fabric'[p][i])
      BY <3>2, HandshakeFrameParts DEF LateFrame
    <3>4. Handshaking(e, fabric'[p], FALSE)
      BY <3>2, <3>3 DEF Handshaking
    <3>5. Handshaking(e, fabric'[p], Up(e)')
      BY <1>9, <3>4, Zenon DEF Handshaking
    <3> QED
      BY <1>1, <3>5 DEF HandshakeFirst
  <2>9. Opening(p)' => Loop(p)'
    BY <1>5, <1>9, <2>2 DEF Loop
  <2>10. Wordless(fabric'[e]) /\ Silent(e)'
    BY <1>5, <2>2 DEF Silent
  <2> QED
    BY <1>1, <1>9, <2>6, <2>7, <2>8, <2>9, <2>10 DEF NotUp
<1>15. PICK least \in {0, 2} : least = Least(p)
  BY <1>1, AliveParts
<1>16. PICK first2 \in {2, 3} : first2 = First(p)
  BY <1>1, AliveParts
<1>17. /\ StreamOf(least, 2, e) /\ StreamOf(0, first2, p)
  BY <1>1, <1>3, <1>15, <1>16, AliveParts DEF p
<1>18. Stream(least, 2, 2, next_rx_seq[p], <<>>, fabric[p], fabric[e], ack_buffer[p])
  <2>1. CASE next_tx_seq[e] = 2
    BY <1>1, <1>3, <1>17, <2>1 DEF StreamOf, p
  <2>2. CASE next_tx_seq[e] = 0
    <3>1. ~Up(p)
      <4>1. 0 # 2
        OBVIOUS
      <4> QED
        BY <1>3, <2>2, <4>1
    <3>2. /\ fabric[p] = <<>> /\ next_rx_seq[p] = 0
          /\ \A i \in DOMAIN fabric[e] : fabric[e][i].seq_num_ack = tloe_seqnum_prev(0)
      BY <1>11, <2>2 DEF Served, p
    <3>3. Stream(0, 2, 2, 0, <<>>, <<>>, fabric[e], <<>>)
      BY <1>4, <3>2, StreamServes
    <3> QED
      BY <1>3, <1>15, <3>1, <3>2, <3>3
  <2> QED
    BY <1>12, <2>1, <2>2
<1>19. Stream(least, 2, 2, next_rx_seq[p], <<>>, fabric[p] \o new, fabric[e], ack_buffer[p])
  <2>1. ASSUME NEW k \in DOMAIN new PROVE Dist(new[k].seq_num, 2) \in 1 .. SPAN
    <3>1. new[k].seq_num \in {0, 1}
      BY <1>7, HandshakeFrameParts
    <3>2. Dist(new[k].seq_num, 2) \in {1, 2}
      BY <3>1, PrevNumbers
    <3>3. \A d \in {1, 2} : d \in 1 .. SPAN
      BY PrevNumbers, SMT
    <3> QED
      BY <3>2, <3>3
  <2>2. 2 \in SeqNum
    BY HandshakeNumbers
  <2> QED
    BY <1>4, <1>7, <1>18, <2>1, <2>2, StreamSends
<1>20. StreamFrom(e)'
  <2>1. Stream(least, 2, 2, next_rx_seq[p], <<>>, fabric'[p], fabric'[e], ack_buffer[p])
    BY <1>8, <1>19, StreamThins
  <2> QED
    BY <1>3, <1>5, <1>9, <1>15, <2>1 DEF StreamFrom, p
<1>21. StreamFrom(p)'
  <2>1. Stream(0, first2, next_tx_seq[p], next_rx_seq[e], retransmit_buffer[p],
               fabric[e], fabric[p], <<>>)
    BY <1>1, <1>3, <1>17 DEF StreamOf
  <2>2. ASSUME NEW k \in DOMAIN new
        PROVE  /\ Dist(new[k].seq_num_ack, next_rx_seq[e]) \in 1 .. ACK_HORIZON
               /\ Dist(new[k].seq_num_ack, next_rx_seq[e]) \in 1 .. SPAN
    <3>1. Dist(new[k].seq_num_ack, next_rx_seq[e]) = 1
      BY <1>7, <1>12, PrevNumbers
    <3>2. 1 \in 1 .. ACK_HORIZON /\ 1 \in 1 .. SPAN
      BY SpanSizes, Sizes, SMT
    <3> QED
      BY <3>1, <3>2
  <2>3. 0 \in {0, 2}
    OBVIOUS
  <2>4. Stream(0, first2, next_tx_seq[p], next_rx_seq[e], retransmit_buffer[p],
               fabric[e], fabric[p] \o new, <<>>)
    BY <1>4, <1>7, <2>1, <2>2, <2>3, StreamAcks
  <2>5. Stream(0, first2, next_tx_seq[p], next_rx_seq[e], retransmit_buffer[p],
               fabric'[e], fabric'[p], <<>>)
    BY <1>8, <2>4, StreamThins
  <2> QED
    BY <1>1, <1>3, <1>5, <1>9, <1>16, <2>5 DEF StreamFrom
<1>22. Fresh(p)' \/ Opening(p)' \/ Up(p)'
  BY <1>1, <1>9, AliveParts
<1>23. Alive'
  BY <1>1, <1>9, <1>13, <1>14, <1>20, <1>21, <1>22, Peers DEF Alive, p
<1> QED
  BY <1>23

\* A number equal to the expected one, by the code's comparison.
LEMMA CmpEqual ==
  ASSUME NEW a \in SeqNum, NEW b \in SeqNum, tloe_seqnum_cmp(a, b) = 0
  PROVE  a = b
BY SeqModAssumption, HalfRing, SMT DEF tloe_seqnum_cmp, SeqNum

\* A frame taken while opening: the handshake's next or, by the slave, its first
\* again; or the slave takes one the master has sent after its handshake.
LEMMA TakenFrame ==
  ASSUME RoomForHandshake, TypeOK, ConnVarsType, RestInv, Alive, NEW e \in Endpoint,
         recv_conn_Take(e), NEW p \in Endpoint, p = Peer(e), NEW f, f = Arrived(e)
  PROVE  /\ Opening(e) /\ fabric[e] # <<>> /\ f \in Frame /\ f = Head(fabric[e])
         /\ 1 \in DOMAIN fabric[e] /\ fabric[e][1] = f
         /\ ~Up(p) => next_tx_seq[p] = 2
         /\ next_rx_seq[e] \in {0, 1}
         /\ \/ LateFrame(f) /\ Up(p) /\ e = Slave /\ conn_flag[e] /\ next_rx_seq[e] = 1
            \/ /\ HandshakeFrame(p, f)
               /\ \/ f.seq_num = next_rx_seq[e]
                  \/ e = Slave /\ f.seq_num = 0 /\ next_rx_seq[e] = 1
               /\ f.seq_num = 1 => e = Master \/ conn_flag[e]
<1>1. main[e] = "opening" /\ fabric[e] # <<>> /\ Takes(e, f)
  BY DEF recv_conn_Take, recv_conn
<1>2. Opening(e)
  BY <1>1, AliveParts DEF Fresh, Up
<1>3. f \in Frame /\ f.seq_num \in SeqNum /\ next_rx_seq[e] \in SeqNum
  BY <1>1, FabricTypes DEF Frame, TypeOK
<1>4. 1 \in DOMAIN fabric[e] /\ fabric[e][1] = f /\ f = Head(fabric[e])
  BY <1>1, TailElements DEF Arrived, TypeOK
<1>5. FIRST_SEQ = 2
  BY SpanSizes
<1>6. /\ p # e /\ Peer(p) = e /\ NotUp(e) /\ Loop(e) /\ (~Up(p) => NotUp(p))
  BY <1>2, OpeningFacts
<1>7. /\ HandshakeFrame(p, f) \/ (LateFrame(f) /\ Up(p))
      /\ next_rx_seq[e] \in {0, 1}
  BY <1>4, <1>6 DEF NotUp, HandshakeFirst, Handshaking, Taken
<1>8. ~Up(p) => next_tx_seq[p] = 2
  BY <1>1, <1>5, <1>6 DEF NotUp, Served
<1>9. CASE e = Master
  <2>1. f.seq_num = next_rx_seq[e]
    BY <1>1, <1>3, <1>9, CmpEqual DEF Takes
  <2>2. ~LateFrame(f)
    <3>1. ~(0 >= 2) /\ ~(1 >= 2)
      BY SMT
    <3> QED
      BY <1>5, <1>7, <2>1, <3>1 DEF LateFrame
  <2> QED
    BY <1>1, <1>2, <1>3, <1>4, <1>7, <1>8, <1>9, <2>1, <2>2
<1>10. CASE e # Master
  <2>1. e = Slave /\ p = Master
    BY <1>6, <1>10 DEF Endpoint
  <2>2. conn_flag[e] => next_rx_seq[e] = 1
    BY <1>6, <2>1 DEF Loop
  <2>3. ~conn_flag[e] => f.type = "OPEN_CONNECTION"
    BY <1>1, <1>10 DEF Takes
  <2>4. LateFrame(f) => conn_flag[e]
    BY <2>3 DEF LateFrame
  <2>5. HandshakeFrame(p, f) =>
           f.seq_num \in {0, 1} /\ (f.type = "OPEN_CONNECTION" => f.seq_num = 0)
    BY HandshakeFrameParts
  <2>6. ASSUME HandshakeFrame(p, f)
        PROVE  /\ \/ f.seq_num = next_rx_seq[e]
                  \/ e = Slave /\ f.seq_num = 0 /\ next_rx_seq[e] = 1
               /\ f.seq_num = 1 => e = Master \/ conn_flag[e]
    <3>1. 0 # 1
      OBVIOUS
    <3> QED
      BY <1>7, <2>1, <2>2, <2>3, <2>5, <2>6, <3>1
  <2> QED
    BY <1>1, <1>2, <1>3, <1>4, <1>7, <1>8, <2>1, <2>2, <2>4, <2>6
<1> QED
  BY <1>9, <1>10

\* What taking a frame changes.
LEMMA TakeEffect ==
  ASSUME TypeOK, ConnVarsType, NEW e \in Endpoint, recv_conn_Take(e), NEW p \in Endpoint,
         p = Peer(e), NEW f, f = Arrived(e)
  PROVE  /\ next_rx_seq'[e] = tloe_seqnum_next(f.seq_num) /\ next_rx_seq'[p] = next_rx_seq[p]
         /\ credits'[e] = CreditSet(e, f) /\ credits'[p] = credits[p]
         /\ tx_flow_credits'[p] = tx_flow_credits[p]
         /\ tx_flow_credits[e] = [c \in Channel |-> 0] =>
               tx_flow_credits'[e] = [c \in Channel |-> 0]
         /\ conn_flag'[e] = (conn_flag[e] \/ f.type = "OPEN_CONNECTION")
         /\ conn_flag'[p] = conn_flag[p]
         /\ UNCHANGED <<retransmit_buffer, ack_buffer, tl_msg_buffer, opens>>
<1>1. p # e
  BY Peers
<1>2. /\ next_rx_seq' = [next_rx_seq EXCEPT ![e] = tloe_seqnum_next(f.seq_num)]
      /\ credits' = [credits EXCEPT ![e] = CreditSet(e, f)]
      /\ tx_flow_credits' = IF f.chan = 0 THEN tx_flow_credits
                            ELSE [tx_flow_credits EXCEPT ![e][f.chan] = 0]
      /\ conn_flag' = [conn_flag EXCEPT ![e] = @ \/ f.type = "OPEN_CONNECTION"]
      /\ UNCHANGED <<trafficVars, opens>>
  BY DEF recv_conn_Take, recv_conn
<1>3. f.chan \in Channel \cup {0}
  BY TypeTake DEF Frame
<1>4. /\ next_rx_seq'[e] = tloe_seqnum_next(f.seq_num) /\ next_rx_seq'[p] = next_rx_seq[p]
      /\ credits'[e] = CreditSet(e, f) /\ credits'[p] = credits[p]
  BY <1>1, <1>2 DEF TypeOK
<1>5. /\ tx_flow_credits'[p] = tx_flow_credits[p]
      /\ tx_flow_credits[e] = [c \in Channel |-> 0] =>
               tx_flow_credits'[e] = [c \in Channel |-> 0]
  BY <1>1, <1>2, <1>3 DEF TypeOK
<1>6. /\ conn_flag'[e] = (conn_flag[e] \/ f.type = "OPEN_CONNECTION")
      /\ conn_flag'[p] = conn_flag[p]
  BY <1>1, <1>2 DEF ConnVarsType
<1> QED
  BY <1>2, <1>4, <1>5, <1>6 DEF trafficVars

\* The receiver has nothing to report yet.
LEMMA StreamOpens ==
  ASSUME RoomForHandshake, NEW least \in {0, 2}, NEW first \in {2, 3}, NEW next \in SeqNum,
         NEW expected \in SeqNum,
         NEW buffer, Len(buffer) \in Nat, Len(buffer) <= WINDOW_SIZE,
         NEW frames \in Seq(Frame), frames # <<>>, NEW acks \in Seq(Frame),
         Stream(least, first, next, expected, buffer, frames, acks, <<>>),
         Numbered(Head(frames)), Head(frames).seq_num = expected
  PROVE  Stream(least, first, next, tloe_seqnum_next(expected), buffer, Tail(frames), acks, <<>>)
<1> DEFINE none == <<>>
<1>1. none \in Seq(AckEntry) /\ DOMAIN none = {} /\ none = <<>>
  BY EmptySeq, SMT
<1> HIDE DEF none
<1>2. \A i \in DOMAIN none : Dist(none[i].seq_num_ack, expected) <= ACK_HORIZON
  BY <1>1
<1>3. Stream(least, first, next, expected, buffer, frames, acks, none)
  BY <1>1
<1>4. Stream(least, first, next, tloe_seqnum_next(expected), buffer, Tail(frames), acks, none)
  BY <1>1, <1>2, <1>3, StreamAccepts
<1> QED
  BY <1>1, <1>4

\* Credit is still missing after a frame.
LEMMA MoreAlive ==
  ASSUME RoomForHandshake, TypeOK, ConnVarsType, RestInv, WindowInv, TypeOK', Alive,
         NEW e \in Endpoint, recv_conn_More(e)
  PROVE  Alive' \/ Doomed'
<1> DEFINE p == Peer(e)
<1>1. p \in Endpoint /\ p # e /\ Peer(p) = e
  BY Peers
<1>2. PICK f : f = Arrived(e)
  OBVIOUS
<1>3. /\ recv_conn_Take(e) /\ ~check_all_channels(CreditSet(e, f))
      /\ fabric' = Consume(e) /\ UNCHANGED <<next_tx_seq, connection, main>>
      /\ \/ UNCHANGED timer
         \/ e = Slave /\ ~conn_flag[e] /\ timer' = [timer EXCEPT ![e] = "never"]
  BY <1>2 DEF recv_conn_More
<1>4. /\ Opening(e) /\ fabric[e] # <<>> /\ f \in Frame /\ f = Head(fabric[e])
      /\ 1 \in DOMAIN fabric[e] /\ fabric[e][1] = f
      /\ ~Up(p) => next_tx_seq[p] = 2
      /\ next_rx_seq[e] \in {0, 1}
      /\ \/ LateFrame(f) /\ Up(p) /\ e = Slave /\ conn_flag[e] /\ next_rx_seq[e] = 1
         \/ /\ HandshakeFrame(p, f)
            /\ \/ f.seq_num = next_rx_seq[e]
               \/ e = Slave /\ f.seq_num = 0 /\ next_rx_seq[e] = 1
            /\ f.seq_num = 1 => e = Master \/ conn_flag[e]
  BY <1>1, <1>2, <1>3, TakenFrame
<1>5. /\ next_rx_seq'[e] = tloe_seqnum_next(f.seq_num) /\ next_rx_seq'[p] = next_rx_seq[p]
      /\ credits'[e] = CreditSet(e, f) /\ credits'[p] = credits[p]
      /\ tx_flow_credits'[p] = tx_flow_credits[p]
      /\ tx_flow_credits[e] = [c \in Channel |-> 0] =>
            tx_flow_credits'[e] = [c \in Channel |-> 0]
      /\ conn_flag'[e] = (conn_flag[e] \/ f.type = "OPEN_CONNECTION")
      /\ conn_flag'[p] = conn_flag[p]
      /\ UNCHANGED <<retransmit_buffer, ack_buffer, tl_msg_buffer, opens>>
  BY <1>1, <1>2, <1>3, TakeEffect
<1>6. /\ ~connection[e] /\ ~Up(e) /\ NotUp(e) /\ Loop(e) /\ First(e) = 2 /\ Least(e) = 0
      /\ retransmit_buffer[e] = <<>> /\ ack_buffer[e] = <<>>
      /\ ~Up(p) => NotUp(p)
      /\ Up(p) => Ahead(p) /\ next_tx_seq[e] = 2
  BY <1>1, <1>4, OpeningFacts
<1>7. /\ fabric[p] \in Seq(Frame) /\ fabric[e] \in Seq(Frame)
      /\ next_tx_seq[p] \in SeqNum /\ next_rx_seq[e] \in SeqNum
      /\ Len(retransmit_buffer[p]) \in Nat /\ Len(retransmit_buffer[p]) <= WINDOW_SIZE
  BY <1>1, LinkTypes
<1>8. fabric'[e] = Tail(fabric[e]) /\ fabric'[p] = fabric[p]
  BY <1>1, <1>3 DEF Consume, TypeOK
<1>9. Thinned(fabric'[e], fabric[e]) /\ Thinned(fabric'[p], fabric[p])
  BY <1>4, <1>7, <1>8, TailThins, SameThins
<1>10. FIRST_SEQ = 2
  BY SpanSizes
<1>11. /\ Served(e) /\ Taken(e) /\ HandshakeFirst(e) /\ Wordless(fabric[p]) /\ Silent(p)
  BY <1>6 DEF NotUp
<1>12. /\ Opening(e)' /\ ~Up(e)' /\ (Up(p)' <=> Up(p))
       /\ (Opening(p)' <=> Opening(p)) /\ (Fresh(p) => Fresh(p)')
       /\ First(e)' = First(e) /\ First(p)' = First(p)
       /\ Least(e)' = Least(e) /\ Least(p)' = Least(p)
  BY <1>3, <1>4, <1>5, <1>6 DEF Opening, Up, Fresh, First, Least
<1> HIDE DEF p
<1>13. CASE LateFrame(f)
  <2>1. Up(p)'
    <3>1. ASSUME HandshakeFrame(p, f) PROVE FALSE
      <4>1. f.chan # 0
        BY <3>1, HandshakeFrameParts
      <4> QED
        BY <1>13, <4>1 DEF LateFrame
    <3> QED
      BY <1>4, <1>12, <3>1
  <2>2. ~check_all_channels(credits'[e])
    BY <1>3, <1>5
  <2>3. Creditless(fabric'[e])
    <3>1. \A i \in DOMAIN fabric[e] : i # 1 => LateFrame(fabric[e][i])
      <4>1. \A i \in DOMAIN fabric[e] : i # 1 => 1 < i
        <5>1. DOMAIN fabric[e] = 1 .. Len(fabric[e])
          BY <1>7, LenProperties
        <5> QED
          BY <5>1, SMT
      <4>2. \A i, j \in DOMAIN fabric[e] :
                i < j /\ LateFrame(fabric[e][i]) => LateFrame(fabric[e][j])
        BY <1>11 DEF HandshakeFirst, Handshaking
      <4> QED
        BY <1>4, <1>13, <4>1, <4>2
    <3>2. \A i \in DOMAIN fabric[e] : LateFrame(fabric[e][i])
      BY <1>4, <1>13, <3>1
    <3>3. Creditless(fabric[e])
      BY <3>2 DEF LateFrame, Creditless
    <3> QED
      BY <1>9, <3>3, WordlessThins
  <2>4. Wordless(fabric'[p]) /\ Silent(p)'
    BY <1>5, <1>8, <1>11 DEF Silent
  <2>5. Hopeless(e)'
    BY <1>12, <2>1, <2>2, <2>3, <2>4 DEF Hopeless, p
  <2> QED
    BY <2>5 DEF Doomed
<1>14. CASE HandshakeFrame(p, f)
  <2>1. /\ f.seq_num \in {0, 1} /\ f.credit > CREDIT_INIT /\ f.chan # 0
        /\ f.seq_num = 0 => f.chan = CHANNEL_A
        /\ f.seq_num = 1 => f.chan = CHANNEL_D
        /\ f.type = IF p = Master /\ f.seq_num = 0 THEN "OPEN_CONNECTION" ELSE "NORMAL"
    BY <1>14, HandshakeFrameParts
  <2>2. credits'[e] = [credits[e] EXCEPT ![f.chan] = f.credit]
    BY <1>5, <2>1 DEF CreditSet
  <2>3. credits[e] \in [Channel -> Nat] /\ CHANNEL_A \in Channel /\ CHANNEL_D \in Channel
        /\ CHANNEL_A # CHANNEL_D
    BY DEF TypeOK, Channel, CHANNEL_A, CHANNEL_D
  <2>4. /\ credits[e][CHANNEL_A] > CREDIT_INIT <=> 1 <= next_rx_seq[e]
        /\ credits[e][CHANNEL_D] > CREDIT_INIT <=> 2 <= next_rx_seq[e]
    <3>1. ChannelOrder[1] = CHANNEL_A /\ ChannelOrder[2] = CHANNEL_D
      BY DEF ChannelOrder
    <3>2. 1 \in DOMAIN ChannelOrder /\ 2 \in DOMAIN ChannelOrder
      BY ChannelOrderType, SMT
    <3>3. \A i \in DOMAIN ChannelOrder :
            credits[e][ChannelOrder[i]] > CREDIT_INIT <=> i <= next_rx_seq[e]
      BY <1>11 DEF Taken
    <3> QED
      BY <3>1, <3>2, <3>3
  <2>5. f.seq_num = 0
    <3>1. SUFFICES ASSUME f.seq_num = 1 PROVE FALSE
      BY <2>1
    <3>2. next_rx_seq[e] = 1
      <4>1. \/ LateFrame(f)
            \/ f.seq_num = next_rx_seq[e]
            \/ f.seq_num = 0
        BY <1>4
      <4>2. ~LateFrame(f)
        BY <2>1 DEF LateFrame
      <4> QED
        BY <3>1, <4>1, <4>2, SMT
    <3>3. credits[e][CHANNEL_A] > CREDIT_INIT
      BY <2>4, <3>2, SMT
    <3>4. \A c \in Channel : CreditSet(e, f)[c] > CREDIT_INIT
      BY <1>5, <2>1, <2>2, <2>3, <3>1, <3>3 DEF Channel
    <3> QED
      BY <1>3, <3>4 DEF check_all_channels
  <2>6. next_rx_seq'[e] = 1
    BY <1>5, <2>5, PrevNumbers
  <2>7. Taken(e)'
    <3>1. /\ credits'[e][CHANNEL_A] > CREDIT_INIT
          /\ credits'[e][CHANNEL_D] = credits[e][CHANNEL_D]
      BY <2>1, <2>2, <2>3, <2>5
    <3>2. ~(credits'[e][CHANNEL_D] > CREDIT_INIT)
      BY <1>4, <2>4, <3>1, SMT
    <3>3. ChannelOrder[1] = CHANNEL_A /\ ChannelOrder[2] = CHANNEL_D
      BY DEF ChannelOrder
    <3>4. \A i \in DOMAIN ChannelOrder : i = 1 \/ i = 2
      BY ChannelOrderType, SMT
    <3>5. 1 <= 1 /\ ~(2 <= 1)
      BY SMT
    <3>6. \A i \in DOMAIN ChannelOrder : credits'[e][ChannelOrder[i]] > CREDIT_INIT <=> i <= 1
      BY <3>1, <3>2, <3>3, <3>4, <3>5
    <3> QED
      BY <2>6, <3>6 DEF Taken
  <2>8. e = Slave => conn_flag'[e]
    <3>1. e = Slave => p = Master
      BY <1>1 DEF Endpoint
    <3> QED
      BY <1>5, <2>1, <2>5, <3>1
  <2>9. CASE UNCHANGED timer
    <3>1. Loop(e)'
      BY <1>3, <1>6, <2>6, <2>8, <2>9 DEF Loop
    <3>2. Served(e)'
      BY <1>1, <1>3, <1>5, <1>9, <1>11, ServedThins DEF p
    <3>3. HandshakeFirst(e)'
      <4>1. Handshaking(p, fabric[e], Up(p))
        BY <1>11 DEF HandshakeFirst, p
      <4>2. Handshaking(p, fabric'[e], Up(p))
        BY <1>9, <4>1, HandshakingThins
      <4>3. Handshaking(p, fabric'[e], Up(p)')
        BY <1>12, <4>2, Zenon DEF Handshaking
      <4> QED
        BY <4>3 DEF HandshakeFirst, p
    <3>4. Up(p)' => Ahead(p)'
      BY <1>1, <1>3, <1>5, <1>6, <1>12 DEF Ahead
    <3>5. Wordless(fabric'[p]) /\ Silent(p)'
      BY <1>5, <1>8, <1>11 DEF Silent
    <3>6. NotUp(e)'
      BY <2>7, <3>1, <3>2, <3>3, <3>4, <3>5 DEF NotUp, p
    <3>7. ~Up(p)' => NotUp(p)'
      <4>1. SUFFICES ASSUME ~Up(p) PROVE NotUp(p)'
        BY <1>12
      <4>2. /\ Served(p) /\ Taken(p) /\ HandshakeFirst(p) /\ (Opening(p) => Loop(p))
            /\ Wordless(fabric[e]) /\ Silent(e) /\ next_tx_seq[p] = 2
        BY <1>1, <1>4, <1>6, <4>1 DEF NotUp
      <4>3. Served(p)'
        <5>1. 2 # 0
          OBVIOUS
        <5> QED
          BY <1>3, <1>8, <1>10, <4>2, <5>1 DEF Served
      <4>4. Taken(p)'
        BY <1>5, <4>2 DEF Taken
      <4>5. HandshakeFirst(p)'
        <5>1. Handshaking(e, fabric[p], Up(e)')
          BY <1>1, <1>6, <1>12, <4>2, Zenon DEF HandshakeFirst, Handshaking
        <5> QED
          BY <1>1, <1>8, <5>1 DEF HandshakeFirst
      <4>6. Opening(p)' => Loop(p)'
        BY <1>3, <1>5, <1>12, <2>9, <4>2 DEF Loop
      <4>7. Wordless(fabric'[e]) /\ Silent(e)'
        BY <1>5, <1>9, <4>2, WordlessThins DEF Silent
      <4> QED
        BY <1>1, <1>12, <4>3, <4>4, <4>5, <4>6, <4>7 DEF NotUp
    <3>8. StreamFrom(e)'
      <4>1. StreamFrom(e)
        BY DEF Alive
      <4> QED
        BY <1>3, <1>5, <1>9, <1>12, <4>1, StreamThins DEF StreamFrom, p
    <3>9. StreamFrom(p)'
      <4>1. PICK first2 \in {2, 3} : first2 = First(p)
        BY <1>1, AliveParts
      <4>2. Stream(0, first2, next_tx_seq[p], next_rx_seq[e], retransmit_buffer[p],
                   fabric[e], fabric[p], <<>>)
        BY <1>1, <1>6, <4>1, AliveParts DEF StreamOf
      <4>3. Stream(0, first2, next_tx_seq[p], next_rx_seq'[e], retransmit_buffer[p],
                   fabric'[e], fabric'[p], <<>>)
        <5>1. CASE next_rx_seq[e] = 0
          <6>1. Numbered(f)
            BY <2>1 DEF Numbered
          <6>2. 0 \in {0, 2}
            OBVIOUS
          <6>3. Stream(0, first2, next_tx_seq[p], tloe_seqnum_next(next_rx_seq[e]),
                       retransmit_buffer[p], Tail(fabric[e]), fabric[p], <<>>)
            BY <1>4, <1>7, <2>5, <4>2, <5>1, <6>1, <6>2, StreamOpens
          <6> QED
            BY <1>5, <1>8, <2>5, <5>1, <6>3
        <5>2. CASE next_rx_seq[e] = 1
          BY <1>9, <2>6, <4>2, <5>2, StreamThins
        <5> QED
          BY <1>4, <5>1, <5>2
      <4> QED
        BY <1>1, <1>3, <1>5, <1>6, <1>12, <4>1, <4>3 DEF StreamFrom
    <3>10. Fresh(p)' \/ Opening(p)' \/ Up(p)'
      BY <1>1, <1>12, AliveParts
    <3>11. Alive'
      BY <1>1, <1>12, <3>6, <3>7, <3>8, <3>9, <3>10, Peers DEF Alive, p
    <3> QED
      BY <3>11
  <2>10. CASE e = Slave /\ ~conn_flag[e] /\ timer' = [timer EXCEPT ![e] = "never"]
    <3>1. p = Master /\ p # Slave
      BY <1>1, <2>10 DEF Endpoint
    <3>2. next_tx_seq[e] = 0
      BY <1>6, <2>10 DEF Loop
    <3>3. 0 # 2
      OBVIOUS
    <3>4. ~Up(p)
      BY <1>6, <3>2, <3>3
    <3>5. Opening(p)
      BY <1>1, <1>4, <3>3, <3>4, AliveParts DEF Fresh
    <3>6. fabric[p] = <<>> /\ next_rx_seq[p] = 0
      BY <1>11, <3>2 DEF Served, p
    <3>7. NotUp(p)
      BY <1>6, <3>4
    <3>8. ~check_all_channels(credits'[p])
      <4>1. 1 \in DOMAIN ChannelOrder /\ ChannelOrder[1] = CHANNEL_A /\ ~(1 <= 0)
        BY ChannelOrderType, SMT DEF ChannelOrder
      <4>2. ~(credits[p][CHANNEL_A] > CREDIT_INIT)
        BY <3>6, <3>7, <4>1 DEF NotUp, Taken
      <4> QED
        BY <1>5, <2>3, <4>2 DEF check_all_channels
    <3>9. Creditless(fabric'[p])
      BY <1>8, <3>6 DEF Creditless
    <3>10. Wordless(fabric[e]) /\ Silent(e)
      BY <1>1, <3>7 DEF NotUp
    <3>11. Wordless(fabric'[e]) /\ Silent(e)'
      BY <1>5, <1>9, <3>10, WordlessThins DEF Silent
    <3>12. timer'[e] = "never"
      BY <2>10 DEF ConnVarsType
    <3>13. Hopeless(p)'
      BY <1>1, <1>12, <2>10, <3>5, <3>8, <3>9, <3>11, <3>12 DEF Hopeless
    <3> QED
      BY <1>1, <3>13 DEF Doomed
  <2> QED
    BY <1>3, <2>9, <2>10
<1> QED
  BY <1>4, <1>13, <1>14

\* All channels have credit: the handshake is over.
LEMMA DoneAlive ==
  ASSUME RoomForHandshake, TypeOK, ConnVarsType, RestInv, WindowInv, TypeOK', Alive,
         NEW e \in Endpoint, recv_conn_Done(e)
  PROVE  Alive'
<1> DEFINE p == Peer(e)
           last == LastFrame(e, 2)
           new == <<last>>
<1>1. p \in Endpoint /\ p # e /\ Peer(p) = e
  BY Peers
<1>2. PICK f : f = Arrived(e)
  OBVIOUS
<1>3. /\ recv_conn_Take(e) /\ check_all_channels(CreditSet(e, f)) /\ ~MustServe(e)
      /\ fabric' = [fabric EXCEPT ![e] = Tail(@),
                       ![p] = SendAll(@, <<LastFrame(e, next_rx_seq'[e])>>)]
      /\ next_tx_seq' = [next_tx_seq EXCEPT
                            ![e] = IF e = Master THEN tloe_seqnum_next(@) ELSE @]
      /\ connection' = [connection EXCEPT ![e] = TRUE]
      /\ main' = [main EXCEPT ![e] = "idle"] /\ UNCHANGED timer
  BY <1>2 DEF recv_conn_Done, recv_conn_Take, recv_conn
<1>4. /\ Opening(e) /\ fabric[e] # <<>> /\ f \in Frame /\ f = Head(fabric[e])
      /\ ~Up(p) => next_tx_seq[p] = 2
      /\ next_rx_seq[e] \in {0, 1}
      /\ \/ LateFrame(f)
         \/ HandshakeFrame(p, f) /\ (f.seq_num = 1 => e = Master \/ conn_flag[e])
  BY <1>1, <1>2, <1>3, TakenFrame
<1>5. /\ next_rx_seq'[e] = tloe_seqnum_next(f.seq_num) /\ next_rx_seq'[p] = next_rx_seq[p]
      /\ credits'[p] = credits[p]
      /\ tx_flow_credits'[p] = tx_flow_credits[p]
      /\ tx_flow_credits[e] = [c \in Channel |-> 0] =>
            tx_flow_credits'[e] = [c \in Channel |-> 0]
      /\ conn_flag'[p] = conn_flag[p]
      /\ UNCHANGED <<retransmit_buffer, ack_buffer, tl_msg_buffer, opens>>
  BY <1>1, <1>2, <1>3, TakeEffect
<1>6. /\ ~connection[e] /\ ~Up(e) /\ NotUp(e) /\ Loop(e) /\ First(e) = 2 /\ Least(e) = 0
      /\ retransmit_buffer[e] = <<>> /\ ack_buffer[e] = <<>>
      /\ ~Up(p) => NotUp(p) /\ Least(p) = 0 /\ ack_buffer[p] = <<>>
      /\ Up(p) => Ahead(p) /\ Least(p) = 2 /\ next_rx_seq[p] = 2
  BY <1>1, <1>4, OpeningFacts
<1>7. /\ fabric[p] \in Seq(Frame) /\ fabric[e] \in Seq(Frame)
      /\ next_tx_seq[p] \in SeqNum /\ next_rx_seq[p] \in SeqNum
      /\ Len(retransmit_buffer[p]) \in Nat /\ Len(retransmit_buffer[p]) <= WINDOW_SIZE
  BY <1>1, LinkTypes
<1>8. FIRST_SEQ = 2
  BY SpanSizes
<1>9. /\ Served(e) /\ Taken(e) /\ HandshakeFirst(e) /\ Wordless(fabric[p]) /\ Silent(p)
  BY <1>6 DEF NotUp
\* The frame is the last of the peer's handshake.
<1>10. next_rx_seq[e] = 1 /\ f.seq_num = 1 /\ Numbered(f) /\ (e = Master \/ conn_flag[e])
  <2>1. CHANNEL_A \in Channel /\ CHANNEL_D \in Channel /\ CHANNEL_A # CHANNEL_D
    BY DEF Channel, CHANNEL_A, CHANNEL_D
  <2>2. /\ credits[e][CHANNEL_A] > CREDIT_INIT <=> 1 <= next_rx_seq[e]
        /\ ~(credits[e][CHANNEL_D] > CREDIT_INIT)
    <3>1. ChannelOrder[1] = CHANNEL_A /\ ChannelOrder[2] = CHANNEL_D
      BY DEF ChannelOrder
    <3>2. 1 \in DOMAIN ChannelOrder /\ 2 \in DOMAIN ChannelOrder
      BY ChannelOrderType, SMT
    <3>3. ~(2 <= next_rx_seq[e])
      BY <1>4, SMT
    <3>4. \A i \in DOMAIN ChannelOrder :
             credits[e][ChannelOrder[i]] > CREDIT_INIT <=> i <= next_rx_seq[e]
      BY <1>9 DEF Taken
    <3> QED
      BY <3>1, <3>2, <3>3, <3>4
  <2>3. credits[e] \in [Channel -> Nat]
    BY DEF TypeOK
  <2>4. CreditSet(e, f)[CHANNEL_A] > CREDIT_INIT /\ CreditSet(e, f)[CHANNEL_D] > CREDIT_INIT
    BY <1>3, <2>1 DEF check_all_channels
  <2>5. f.chan = CHANNEL_D
    BY <2>1, <2>2, <2>3, <2>4 DEF CreditSet
  <2>6. credits[e][CHANNEL_A] > CREDIT_INIT
    BY <2>1, <2>3, <2>4, <2>5 DEF CreditSet, CHANNEL_D
  <2>7. next_rx_seq[e] = 1
    BY <1>4, <2>2, <2>6, SMT
  <2>8. f.chan # 0
    BY <2>5 DEF CHANNEL_D
  <2>9. HandshakeFrame(p, f) /\ (f.seq_num = 1 => e = Master \/ conn_flag[e])
    <3>1. ~LateFrame(f)
      BY <2>8 DEF LateFrame
    <3> QED
      BY <1>4, <3>1
  <2>10. f.seq_num = 1 /\ Numbered(f)
    BY <2>1, <2>5, <2>9, HandshakeFrameParts DEF Numbered
  <2> QED
    BY <2>7, <2>9, <2>10
<1>11. next_tx_seq[e] = 2
  <2>1. main[e] = "opening" /\ timer[e] \in {"run_out", "running", "never"}
    BY <1>4 DEF Opening, ConnVarsType
  <2>2. timer[e] = "running"
    BY <1>3, <1>6, <1>10, <2>1 DEF Loop, MustServe
  <2> QED
    BY <1>6, <1>8, <2>2 DEF Loop
<1>12. next_rx_seq'[e] = 2
  BY <1>5, <1>10, PrevNumbers
<1>13. /\ fabric'[e] = Tail(fabric[e]) /\ fabric'[p] = SendAll(fabric[p], new)
       /\ next_tx_seq'[p] = next_tx_seq[p]
       /\ next_tx_seq'[e] = IF e = Master THEN 3 ELSE 2
       /\ connection'[e] /\ connection'[p] = connection[p]
       /\ main'[e] = "idle" /\ main'[p] = main[p]
  BY <1>1, <1>3, <1>11, <1>12, PrevNumbers DEF TypeOK, ConnVarsType
<1>14. /\ new \in Seq(Frame) /\ \A k \in DOMAIN new : new[k] = last
  <2>1. 0 \in Nat /\ 0 \in Channel \cup {0}
    BY SMT
  <2>2. last \in Frame
    BY <1>11, <2>1, HandshakeNumbers, ConnFrameType DEF LastFrame
  <2> HIDE DEF last
  <2>3. new \in Seq(Frame)
    BY <2>2, OneFrame
  <2> QED
    BY <2>3
<1>15. /\ last.type = IF e = Master THEN "NORMAL" ELSE "ACKONLY"
       /\ last.seq_num = 2 /\ last.seq_num_ack = tloe_seqnum_prev(2)
       /\ last.chan = 0 /\ last.tlmsg = NoMsg
  BY <1>11 DEF LastFrame, ConnFrame
<1> HIDE DEF last, p
<1>16. LateFrame(last)
  <2>1. 2 >= 2
    BY SMT
  <2> QED
    BY <1>8, <1>15, <2>1 DEF LateFrame
<1> HIDE DEF new
<1>17. /\ Thinned(fabric'[p], fabric[p] \o new) /\ fabric[p] \o new \in Seq(Frame)
       /\ \A i \in DOMAIN fabric'[p] : \/ \E k \in DOMAIN fabric[p] : fabric'[p][i] = fabric[p][k]
                                       \/ \E k \in DOMAIN new : fabric'[p][i] = new[k]
       /\ Thinned(fabric'[e], fabric[e])
  BY <1>4, <1>7, <1>13, <1>14, AddedTo, TailThins
<1>18. /\ Up(e)' /\ ~Opening(e)' /\ (Up(p)' <=> Up(p))
       /\ (Opening(p)' <=> Opening(p)) /\ (Up(p) \/ Opening(p)) /\ Least(e)' = 2
       /\ First(e)' = (IF e = Master THEN 3 ELSE 2)
       /\ First(p)' = First(p) /\ Least(p)' = Least(p)
  <2>1. Up(e)' /\ ~Opening(e)'
    BY <1>4, <1>5, <1>13 DEF Opening, Up
  <2>2. (Up(p)' <=> Up(p)) /\ (Opening(p)' <=> Opening(p))
    BY <1>5, <1>13 DEF Opening, Up
  <2>3. Up(p) \/ Opening(p)
    <3>1. 2 # 0
      OBVIOUS
    <3> QED
      BY <1>1, <1>4, <3>1, AliveParts DEF Fresh
  <2>4. 2 + 1 = 3
    BY SMT
  <2> QED
    BY <1>8, <1>13, <2>1, <2>2, <2>3, <2>4 DEF First, Least
<1>19. ~Up(p)' => NotUp(p)'
  <2>1. SUFFICES ASSUME ~Up(p) PROVE NotUp(p)'
    BY <1>18
  <2>2. /\ Served(p) /\ Taken(p) /\ HandshakeFirst(p) /\ (Opening(p) => Loop(p))
        /\ Wordless(fabric[e]) /\ Silent(e) /\ next_tx_seq[p] = 2
    BY <1>1, <1>4, <1>6, <2>1 DEF NotUp
  <2>3. Served(p)'
    <3>1. ASSUME NEW i \in DOMAIN fabric'[p]
          PROVE  Dist(fabric'[p][i].seq_num_ack, 2) <= SPAN + 2
      <4>1. CASE \E k \in DOMAIN fabric[p] : fabric'[p][i] = fabric[p][k]
        BY <1>8, <2>2, <4>1 DEF Served
      <4>2. CASE \E k \in DOMAIN new : fabric'[p][i] = new[k]
        <5>1. Dist(fabric'[p][i].seq_num_ack, 2) = 1
          BY <1>14, <1>15, <4>2, PrevNumbers
        <5>2. 1 <= SPAN + 2
          BY PrevNumbers, SMT
        <5> QED
          BY <5>1, <5>2
      <4> QED
        BY <1>17, <4>1, <4>2
    <3>2. 2 # 0
      OBVIOUS
    <3> QED
      BY <1>8, <1>13, <2>2, <3>1, <3>2 DEF Served
  <2>4. Taken(p)'
    BY <1>5, <2>2 DEF Taken
  <2>5. HandshakeFirst(p)'
    <3>1. Handshaking(e, fabric[p], TRUE)
      BY <1>1, <2>2, Zenon DEF HandshakeFirst, Handshaking
    <3>2. Handshaking(e, fabric[p] \o new, TRUE)
      BY <1>7, <1>14, <1>16, <3>1, HandshakingSends
    <3>3. Handshaking(e, fabric'[p], TRUE)
      BY <1>17, <3>2, HandshakingThins
    <3>4. Handshaking(e, fabric'[p], Up(e)')
      BY <1>18, <3>3, Zenon DEF Handshaking
    <3> QED
      BY <1>1, <3>4 DEF HandshakeFirst
  <2>6. Opening(p)' => Loop(p)'
    BY <1>3, <1>5, <1>13, <1>18, <2>2 DEF Loop
  <2>7. Wordless(fabric'[e]) /\ Silent(e)'
    BY <1>5, <1>17, <2>2, WordlessThins DEF Silent
  <2>8. Ahead(e)'
    <3>1. next_tx_seq'[e] = First(e)' + Len(retransmit_buffer'[e])
      <4>1. 2 + 0 = 2 /\ 3 + 0 = 3 /\ Len(<<>>) = 0
        BY EmptySeq, SMT
      <4> QED
        BY <1>5, <1>6, <1>13, <1>18, <4>1
    <3>2. Recent(ack_buffer'[e], 2)
      BY <1>5, <1>6, SMT DEF Recent
    <3>3. next_tx_seq'[Peer(e)] = 2
      BY <1>13, <2>2 DEF p
    <3> QED
      BY <1>8, <1>12, <3>1, <3>2, <3>3 DEF Ahead
  <2> QED
    BY <1>1, <2>3, <2>4, <2>5, <2>6, <2>7, <2>8 DEF NotUp
<1>20. PICK least \in {0, 2} : least = Least(p)
  BY <1>1, AliveParts
<1>21. PICK first2 \in {2, 3} : first2 = First(p)
  BY <1>1, AliveParts
<1>22. StreamOf(least, 2, e) /\ StreamOf(0, first2, p)
  BY <1>1, <1>6, <1>20, <1>21, AliveParts DEF p
<1>23. Stream(least, 2, 2, next_rx_seq[p], <<>>, fabric[p], fabric[e], ack_buffer[p])
  BY <1>1, <1>6, <1>11, <1>22 DEF StreamOf, p
<1>24. next_rx_seq[p] <= 2 /\ least <= next_rx_seq[p] /\ Recent(ack_buffer[p], next_rx_seq[p])
  <2>1. CASE Up(p)
    <3>1. least = 2 /\ next_rx_seq[p] = 2 /\ Recent(ack_buffer[p], 2)
      BY <1>6, <1>8, <1>20, <2>1 DEF Ahead
    <3>2. 2 <= 2
      BY SMT
    <3> QED
      BY <3>1, <3>2
  <2>2. CASE ~Up(p)
    <3>1. least = 0 /\ ack_buffer[p] = <<>> /\ next_rx_seq[p] \in {0, 1}
      BY <1>6, <1>20, <2>2 DEF NotUp, Taken
    <3>2. \A n \in {0, 1} : n <= 2 /\ 0 <= n
      BY SMT
    <3>3. Recent(ack_buffer[p], next_rx_seq[p])
      BY <3>1, SMT DEF Recent
    <3> QED
      BY <3>1, <3>2, <3>3
  <2> QED
    BY <2>1, <2>2
<1>25. StreamFrom(e)'
  <2> DEFINE N == IF e = Master THEN 3 ELSE 2
  <2>1. Stream(least, N, N, next_rx_seq[p], <<>>, fabric[p], fabric[e], ack_buffer[p])
    <3>1. CASE e = Master
      <4>1. \A i \in DOMAIN fabric[e] : Dist(fabric[e][i].seq_num_ack, 2) <= SPAN + 2
        BY <1>8, <1>9, <1>11 DEF Served
      <4>2. Stream(least, 3, 3, next_rx_seq[p], <<>>, fabric[p], fabric[e], ack_buffer[p])
        BY <1>7, <1>23, <1>24, <4>1, StreamLast
      <4> QED
        BY <3>1, <4>2
    <3>2. CASE e # Master
      BY <1>23, <3>2
    <3> QED
      BY <3>1, <3>2
  <2>2. ASSUME NEW k \in DOMAIN new, Numbered(new[k]) PROVE Dist(new[k].seq_num, N) \in 1 .. SPAN
    <3>1. new[k] = last
      BY <1>14
    <3>2. e = Master
      BY <1>15, <2>2, <3>1 DEF Numbered
    <3>3. 1 \in 1 .. SPAN
      BY PrevNumbers, SMT
    <3> QED
      BY <1>15, <3>1, <3>2, <3>3, PrevNumbers
  <2>3. N \in SeqNum
    BY HandshakeNumbers, PrevNumbers
  <2>4. N = next_tx_seq'[e] /\ N = First(e)'
    BY <1>13, <1>18
  <2> HIDE DEF N
  <2>5. Stream(least, N, N, next_rx_seq[p], <<>>, fabric[p] \o new, fabric[e], ack_buffer[p])
    BY <1>7, <1>14, <2>1, <2>2, <2>3, StreamSends
  <2>6. Stream(least, N, N, next_rx_seq[p], <<>>, fabric'[p], fabric'[e], ack_buffer[p])
    BY <1>17, <2>5, StreamThins
  <2> QED
    BY <1>5, <1>6, <1>18, <1>20, <2>4, <2>6 DEF StreamFrom, p
<1>26. StreamFrom(p)'
  <2> DEFINE N == next_tx_seq[p]
             B == retransmit_buffer[p]
  <2>1. Stream(0, first2, N, 1, B, fabric[e], fabric[p], <<>>)
    BY <1>1, <1>6, <1>10, <1>22 DEF StreamOf
  <2>2. Stream(0, first2, N, 2, B, Tail(fabric[e]), fabric[p], <<>>)
    <3>1. 0 \in {0, 2} /\ 1 \in SeqNum /\ tloe_seqnum_next(1) = 2
      BY HandshakeNumbers, PrevNumbers
    <3> HIDE DEF N, B
    <3>2. Stream(0, first2, N, tloe_seqnum_next(1), B, Tail(fabric[e]), fabric[p], <<>>)
      BY <1>4, <1>7, <1>10, <2>1, <3>1, StreamOpens DEF N, B
    <3> QED
      BY <3>1, <3>2
  <2>3. Stream(2, first2, N, 2, B, Tail(fabric[e]), fabric[p], <<>>)
    BY <2>2, StreamRaises
  <2>4. ASSUME NEW k \in DOMAIN new
        PROVE  /\ Dist(new[k].seq_num_ack, 2) \in 1 .. ACK_HORIZON
               /\ Dist(new[k].seq_num_ack, 2) \in 1 .. SPAN
    <3>1. Dist(new[k].seq_num_ack, 2) = 1
      BY <1>14, <1>15, PrevNumbers
    <3>2. 1 \in 1 .. ACK_HORIZON /\ 1 \in 1 .. SPAN
      BY SpanSizes, Sizes, SMT
    <3> QED
      BY <3>1, <3>2
  <2>5. 2 \in {0, 2} /\ 2 \in SeqNum
    BY HandshakeNumbers
  <2>6. Stream(2, first2, N, 2, B, Tail(fabric[e]), fabric[p] \o new, <<>>)
    BY <1>7, <1>14, <2>3, <2>4, <2>5, StreamAcks
  <2>7. Stream(2, first2, N, 2, B, fabric'[e], fabric'[p], <<>>)
    <3>1. Tail(fabric[e]) = fabric'[e] /\ Thinned(fabric'[e], fabric'[e])
      BY <1>13, SameThins DEF TypeOK
    <3> QED
      BY <1>17, <2>6, <3>1, StreamThins
  <2> QED
    BY <1>1, <1>5, <1>6, <1>12, <1>13, <1>18, <1>21, <2>7 DEF StreamFrom
<1>27. Alive'
  BY <1>1, <1>18, <1>19, <1>25, <1>26, Peers DEF Alive, p
<1> QED
  BY <1>27

\* Every step of the program and its users keeps both streams, or dooms them.
LEMMA AliveStep ==
  ASSUME RoomForHandshake, CLOSE_UNCONNECTED = FALSE, FirstOpen', TypeOK, ConnVarsType, RestInv,
         WindowInv, AckBufferFresh, TypeOK', WindowInv', Alive, [ConnNext]_allVars
  PROVE  Alive' \/ Doomed'
<1>1. ASSUME NEW e \in Endpoint, Open(e) \/ Close(e) \/ Quit(e) \/ tloe_endpoint_close(e)
      PROVE  Alive' \/ Doomed'
  BY <1>1, CommandAlive DEF Doomed
<1>2. ASSUME NEW e \in Endpoint, OpenStep(e) PROVE Alive' \/ Doomed'
  <2>1. CASE serve_conn(e)
    BY <2>1, ServeAlive
  <2>2. CASE recv_conn_Drop(e)
    BY <2>2, WireAlive
  <2>3. CASE recv_conn_More(e)
    BY <2>3, MoreAlive
  <2>4. CASE recv_conn_Done(e)
    BY <2>4, DoneAlive
  <2> QED
    BY <1>2, <2>1, <2>2, <2>3, <2>4 DEF OpenStep
<1>3. ASSUME NEW e \in Endpoint, ConnWorker(e) \/ ConnSubmit(e) PROVE Alive'
  BY <1>3, WorkerAlive
<1>4. ASSUME NEW e \in Endpoint, Lose(e), UNCHANGED connVars PROVE Alive'
  BY <1>4, WireAlive
<1>5. CASE UNCHANGED allVars
  BY <1>5, WireAlive
<1> QED
  BY <1>1, <1>2, <1>3, <1>4, <1>5, NoCloseAlive DEF ConnNext, MainThread

-----------------------------------------------------------------------------
(***************************************************************************)
(* Endpoints that never connect again                                       *)
(***************************************************************************)
\* What the main thread of another endpoint leaves alone.
LEMMA MainOther ==
  ASSUME TypeOK, ConnVarsType, NEW e \in Endpoint, NEW q \in Endpoint, q # e,
         \/ Open(q) \/ Close(q) \/ Quit(q)
         \/ OpenStep(q) \/ CloseStep(q) \/ tloe_endpoint_close(q)
  PROVE  /\ UNCHANGED <<main[e], connection[e], opens[e], timer[e], conn_flag[e]>>
         /\ OpenStep(q) => UNCHANGED <<credits[e], tx_flow_credits[e], tl_msg_buffer[e],
                                       retransmit_buffer[e]>>
<1>1. CASE Open(q) \/ Close(q) \/ Quit(q) \/ tloe_endpoint_close(q)
  <2>1. UNCHANGED <<main[e], connection[e], opens[e], timer[e], conn_flag[e]>>
    BY <1>1 DEF Open, Close, Quit, tloe_endpoint_close, ConnVarsType
  <2>2. OpenStep(q) => main[q] = "opening"
    BY DEF OpenStep, serve_conn, recv_conn_Drop, recv_conn_More, recv_conn_Done, recv_conn_Take,
           recv_conn
  <2>3. OpenStep(q) => main'[q] \notin {"idle", "quitting", "gone"} \/ main'[q] = "idle"
    BY <1>1, <2>2 DEF Open, Close, Quit, tloe_endpoint_close
  <2>4. main[q] # "opening"
    BY <1>1 DEF Open, Close, Quit, tloe_endpoint_close
  <2> QED
    BY <2>1, <2>2, <2>4
<1>2. CASE OpenStep(q)
  <2>1. UNCHANGED <<trafficVars, opens>>
    BY <1>2 DEF OpenStep, serve_conn, recv_conn_Drop, recv_conn_More, recv_conn_Done,
                recv_conn_Take, recv_conn
  <2>2. UNCHANGED <<main[e], connection[e], timer[e]>>
    BY <1>2 DEF OpenStep, serve_conn, recv_conn_Drop, recv_conn_More, recv_conn_Done, ConnVarsType
  <2>3. conn_flag'[e] = conn_flag[e]
    BY <1>2 DEF OpenStep, serve_conn, recv_conn_Drop, recv_conn_More, recv_conn_Done,
                recv_conn_Take, ConnVarsType
  <2>4. UNCHANGED <<credits[e], tx_flow_credits[e]>>
    <3>1. CASE serve_conn(q) \/ recv_conn_Drop(q)
      BY <3>1 DEF serve_conn, recv_conn_Drop, creditVars
    <3>2. ASSUME recv_conn_Take(q) PROVE UNCHANGED <<credits[e], tx_flow_credits[e]>>
      BY <3>2 DEF recv_conn_Take, TypeOK
    <3> QED
      BY <1>2, <3>1, <3>2 DEF OpenStep, recv_conn_More, recv_conn_Done
  <2> QED
    BY <2>1, <2>2, <2>3, <2>4 DEF trafficVars
<1>3. CASE CloseStep(q)
  <2>1. UNCHANGED <<main[e], connection[e], opens[e], timer[e], conn_flag[e]>>
    <3>1. CASE recv_close_Drop(q)
      BY <3>1 DEF recv_close_Drop, connVars
    <3>2. CASE q = Master /\ (serve_close_master \/ recv_close_master)
      BY <3>2 DEF serve_close_master, recv_close_master, Reinit, ConnVarsType
    <3>3. CASE q = Slave /\ (recv_close_slave \/ serve_close_slave \/ last_recv_slave)
      BY <3>3 DEF recv_close_slave, serve_close_slave, last_recv_slave, Reinit, ConnVarsType
    <3> QED
      BY <1>3, <3>1, <3>2, <3>3 DEF CloseStep
  <2>2. main[q] # "opening"
    BY <1>3 DEF CloseStep, recv_close_Drop, recv_close, serve_close_master, recv_close_master,
                recv_close_slave, serve_close_slave, last_recv_slave
  <2>3. ~OpenStep(q)
    BY <2>2 DEF OpenStep, serve_conn, recv_conn_Drop, recv_conn_More, recv_conn_Done,
                recv_conn_Take, recv_conn
  <2> QED
    BY <2>1, <2>3
<1> QED
  BY <1>1, <1>2, <1>3

\* Who has closed, or quit without a connection, opens no more for the first time.
LEMMA ClosedStep ==
  ASSUME CLOSE_UNCONNECTED = FALSE, FirstOpen', TypeOK, ConnVarsType, [ConnNext]_allVars,
         NEW e \in Endpoint, Closed(e)
  PROVE  Closed(e)'
<1>1. CASE UNCHANGED connVars
  BY <1>1 DEF connVars, Closed
<1>2. ASSUME NEW q \in Endpoint, q # e,
             \/ Open(q) \/ Close(q) \/ Quit(q)
             \/ OpenStep(q) \/ CloseStep(q) \/ tloe_endpoint_close(q)
      PROVE  Closed(e)'
  BY <1>2, MainOther DEF Closed
<1>3. ~Open(e)
  <2>1. SUFFICES ASSUME Open(e) PROVE FALSE
    OBVIOUS
  <2>2. opens[e] >= 1 /\ opens'[e] = opens[e] + 1 /\ opens[e] \in Nat
    BY <2>1 DEF Open, Closed, ConnVarsType
  <2>3. opens'[e] <= 1
    BY DEF FirstOpen
  <2> QED
    BY <2>2, <2>3, SMT
<1>4. ~Close(e)
  BY DEF Close, Closed
<1>5. ~OpenStep(e)
  BY DEF OpenStep, serve_conn, recv_conn_Drop, recv_conn_More, recv_conn_Done,
         recv_conn_Take, recv_conn, Closed
<1>6. CASE Quit(e) \/ tloe_endpoint_close(e)
  BY <1>6 DEF Quit, tloe_endpoint_close, Closed, ConnVarsType
<1>7. CASE CloseStep(e)
  <2>1. /\ main[e] \in {"closing", "leaving"} /\ main'[e] \in {"closing", "leaving", "idle"}
        /\ connection' = connection /\ opens' = opens
    <3>1. CASE recv_close_Drop(e)
      BY <3>1 DEF recv_close_Drop, recv_close, connVars
    <3>2. CASE e = Master /\ (serve_close_master \/ recv_close_master)
      BY <3>2 DEF serve_close_master, recv_close_master, recv_close, Reinit, ConnVarsType
    <3>3. CASE e = Slave /\ (recv_close_slave \/ serve_close_slave \/ last_recv_slave)
      BY <3>3 DEF recv_close_slave, recv_close, serve_close_slave, last_recv_slave, Reinit,
                  ConnVarsType
    <3> QED
      BY <1>7, <3>1, <3>2, <3>3 DEF CloseStep
  <2> QED
    BY <2>1 DEF Closed
<1>8. \/ UNCHANGED connVars
      \/ \E q \in Endpoint : \/ Open(q) \/ Close(q) \/ Quit(q)
                             \/ OpenStep(q) \/ CloseStep(q) \/ tloe_endpoint_close(q)
  BY DEF ConnNext, MainThread, ConnWorker, ConnSubmit, allVars
<1> QED
  BY <1>1, <1>2, <1>3, <1>4, <1>5, <1>6, <1>7, <1>8

\* What TX and RX send repeats the credit of the window.
LEMMA SaidCreditless ==
  ASSUME NEW buffer, Creditless(buffer), NEW next, NEW expected, NEW reports,
         NEW frames, Said(frames, buffer, next, expected, reports)
  PROVE  Creditless(frames)
<1>1. ASSUME NEW k \in DOMAIN frames PROVE frames[k].chan = 0
  <2> DEFINE f == frames[k]
  <2>1. Says(f, buffer, next, expected, reports)
    BY DEF Said
  <2> HIDE DEF f
  <2>2. CASE ~Numbered(f)
    BY <2>1, <2>2 DEF Says, f
  <2>3. CASE Numbered(f)
    <3>1. PICK i \in DOMAIN buffer : ElementOf(f) = buffer[i]
      BY <2>1, <2>3 DEF Says
    <3>2. ElementOf(f).chan = f.chan
      BY DEF ElementOf
    <3> QED
      BY <3>1, <3>2 DEF Creditless, f
  <2> QED
    BY <2>2, <2>3
<1> QED
  BY <1>1 DEF Creditless

\* The worker of the peer p gives no credit.
LEMMA HopelessWorker ==
  ASSUME TypeOK, RestInv, WindowInv, TypeOK', NEW e \in Endpoint, Hopeless(e),
         NEW q \in Endpoint, ConnWorker(q) \/ ConnSubmit(q)
  PROVE  Hopeless(e)'
<1>1. PICK p \in Endpoint : p = Peer(e)
  BY Peers
<1>2. p # e /\ Peer(p) = e /\ (q = e \/ q = p)
  BY <1>1, Peers
<1>3. /\ Opening(e) /\ ~check_all_channels(credits[e])
      /\ Up(p) \/ (Opening(p) /\ p = Slave /\ timer[p] = "never")
      /\ Creditless(fabric[e]) /\ Wordless(fabric[p]) /\ Silent(p)
  BY <1>1 DEF Hopeless
<1>4. q = p /\ Up(p)
  <2>1. SUFFICES ASSUME Opening(q) PROVE FALSE
    BY <1>2, <1>3
  <2>2. ~connection[q] /\ main[q] = "opening"
    BY <2>1 DEF Opening
  <2>3. pc[q] = "select"
    BY <2>2 DEF RestInv, RestAt, AtRest
  <2> QED
    BY <2>2, <2>3 DEF ConnWorker, ConnSubmit
<1>5. /\ Transmits(p) \/ Receives(p) \/ Computes(p)
      /\ UNCHANGED Kept(e) /\ UNCHANGED connVars
  BY <1>2, <1>4, WorkerEffect DEF ConnWorker, ConnSubmit
<1>6. Opening(e)' /\ Up(p)' /\ credits'[e] = credits[e]
  BY <1>3, <1>4, <1>5 DEF connVars, Opening, Up, Kept
<1>7. /\ fabric[e] \in Seq(Frame) /\ fabric[p] \in Seq(Frame)
      /\ retransmit_buffer[p] \in Seq(Element)
  BY DEF TypeOK
<1>8. /\ Creditless(retransmit_buffer[p]) /\ tl_msg_buffer[p] = <<>>
      /\ tx_flow_credits[p] = [c \in Channel |-> 0]
  BY <1>3 DEF Silent
<1>9. Creditless(fabric'[e]) /\ Wordless(fabric'[p]) /\ Silent(p)'
  <2>1. CASE Transmits(p)
    <3>1. select_max_credit_channel(tx_flow_credits[p]) = 0
      BY <1>8 DEF select_max_credit_channel, Channel, CHANNEL_A, CHANNEL_D
    <3>2. Creditless(retransmit_buffer'[p])
      BY <1>7, <1>8, <2>1, <3>1, CreditlessKept DEF Transmits
    <3>3. PICK sent : /\ Said(sent, retransmit_buffer'[p], next_tx_seq[p], next_rx_seq[p],
                              ack_buffer[p])
                      /\ fabric' = [fabric EXCEPT ![e] = SendAll(@, sent)]
      BY <1>2, <2>1 DEF Transmits
    <3>4. sent \in Seq(Frame) /\ Creditless(sent)
      BY <3>2, <3>3, SaidCreditless DEF Said
    <3>5. fabric'[e] = SendAll(fabric[e], sent) /\ fabric'[p] = fabric[p]
      BY <1>2, <3>3 DEF TypeOK
    <3>6. Creditless(fabric'[e])
      BY <1>3, <1>7, <3>4, <3>5, WordlessSends
    <3>7. tl_msg_buffer'[p] = <<>> /\ tx_flow_credits'[p] = tx_flow_credits[p]
      BY <1>8, <2>1, <3>1 DEF Transmits
    <3> QED
      BY <1>3, <1>8, <3>2, <3>5, <3>6, <3>7 DEF Silent
  <2>2. CASE Receives(p)
    <3>1. /\ fabric[p] # <<>>
          /\ retransmit_buffer'[p] = slide_window(retransmit_buffer[p], Arrived(p).seq_num_ack)
          /\ tx_flow_credits'[p] = tx_flow_credits[p]
      BY <2>2 DEF Receives
    <3>2. Creditless(retransmit_buffer'[p])
      BY <1>7, <1>8, <3>1, CreditlessKept
    <3>3. PICK again : /\ Said(again, retransmit_buffer'[p], next_tx_seq[p], next_rx_seq[p], <<>>)
                       /\ fabric'[p] = Tail(fabric[p])
                       /\ fabric'[e] = SendAll(fabric[e], again)
      BY <1>2, <2>2 DEF Receives
    <3>4. again \in Seq(Frame) /\ Creditless(again)
      BY <3>2, <3>3, SaidCreditless DEF Said
    <3>5. Creditless(fabric'[e])
      BY <1>3, <1>7, <3>3, <3>4, WordlessSends
    <3>6. Wordless(fabric'[p])
      BY <1>3, <1>7, <3>1, <3>3, TailThins, WordlessThins
    <3>7. Arrived(p).tlmsg = NoMsg
      <4>1. 1 \in DOMAIN fabric[p] /\ Arrived(p) = fabric[p][1]
        BY <1>7, <3>1, TailElements DEF Arrived
      <4> QED
        BY <1>3, <4>1 DEF Wordless
    <3>8. tl_msg_buffer'[p] = tl_msg_buffer[p]
      BY <2>2, <3>7 DEF Receives
    <3> QED
      BY <1>8, <3>1, <3>2, <3>5, <3>6, <3>8 DEF Silent
  <2>3. CASE Computes(p)
    BY <1>3, <1>8, <2>3 DEF Computes, linkVars, Silent
  <2> QED
    BY <1>5, <2>1, <2>2, <2>3
<1> QED
  BY <1>1, <1>3, <1>6, <1>9 DEF Hopeless

\* Neither loop of an opening gives credit any more.
LEMMA HopelessOpening ==
  ASSUME TypeOK, ConnVarsType, TypeOK', NEW e \in Endpoint, Hopeless(e),
         NEW q \in Endpoint, OpenStep(q)
  PROVE  Hopeless(e)'
<1>1. PICK p \in Endpoint : p = Peer(e)
  BY Peers
<1>2. p # e /\ Peer(p) = e /\ (q = e \/ q = p)
  BY <1>1, Peers
<1>3. /\ Opening(e) /\ ~check_all_channels(credits[e])
      /\ Up(p) \/ (Opening(p) /\ p = Slave /\ timer[p] = "never")
      /\ Creditless(fabric[e]) /\ Wordless(fabric[p]) /\ Silent(p)
  BY <1>1 DEF Hopeless
<1>4. /\ main[q] = "opening" /\ UNCHANGED <<trafficVars, opens>>
  BY DEF OpenStep, serve_conn, recv_conn_Drop, recv_conn_More, recv_conn_Done, recv_conn_Take,
         recv_conn
<1>5. UNCHANGED <<retransmit_buffer, tl_msg_buffer, opens>>
  BY <1>4 DEF trafficVars
<1>6. /\ fabric[e] \in Seq(Frame) /\ fabric[p] \in Seq(Frame)
  BY DEF TypeOK
<1>7. ASSUME q = e PROVE Hopeless(e)'
  <2>1. /\ UNCHANGED <<main[p], connection[p], opens[p], timer[p], conn_flag[p]>>
        /\ UNCHANGED <<credits[p], tx_flow_credits[p], tl_msg_buffer[p], retransmit_buffer[p]>>
    BY <1>2, <1>7, MainOther
  <2>2. (Up(p)' <=> Up(p)) /\ (Opening(p)' <=> Opening(p)) /\ Silent(p)'
    BY <1>3, <2>1 DEF Up, Opening, Silent
  <2>3. ASSUME UNCHANGED <<main, connection>>, credits'[e] = credits[e],
               Creditless(fabric'[e]), Wordless(fabric'[p])
        PROVE  Hopeless(e)'
    BY <1>1, <1>3, <1>5, <2>1, <2>2, <2>3 DEF Hopeless, Opening
  <2>4. CASE serve_conn(e)
    <3>1. /\ fabric'[p] = SendAll(fabric[p], ServeFrames(e)) /\ fabric'[e] = fabric[e]
          /\ UNCHANGED <<main, connection, credits>>
      BY <1>1, <1>2, <2>4 DEF serve_conn, ToPeer, creditVars, TypeOK
    <3>2. ServeFrames(e) \in Seq(Frame) /\ Wordless(ServeFrames(e))
      BY ServeFramesParts DEF Wordless
    <3>3. Wordless(fabric'[p])
      BY <1>3, <1>6, <3>1, <3>2, WordlessSends
    <3> QED
      BY <1>3, <2>3, <3>1, <3>3
  <2>5. CASE recv_conn_Drop(e)
    <3>1. /\ \A r \in Endpoint : Thinned(fabric'[r], fabric[r])
          /\ UNCHANGED <<main, connection, credits>>
      BY <2>5, FabricTaken DEF recv_conn_Drop, recv_conn, creditVars
    <3> QED
      BY <1>3, <2>3, <3>1, WordlessThins
  <2>6. ASSUME recv_conn_Take(e) PROVE fabric[e] # <<>> /\ CreditSet(e, Arrived(e)) = credits[e]
    <3>1. fabric[e] # <<>>
      BY <2>6 DEF recv_conn_Take, recv_conn
    <3>2. 1 \in DOMAIN fabric[e] /\ Arrived(e) = fabric[e][1]
      BY <1>6, <3>1, TailElements DEF Arrived
    <3>3. Arrived(e).chan = 0
      BY <1>3, <3>2 DEF Creditless
    <3> QED
      BY <3>1, <3>3 DEF CreditSet
  <2>7. CASE recv_conn_More(e)
    <3>1. /\ fabric[e] # <<>> /\ credits' = [credits EXCEPT ![e] = credits[e]]
          /\ fabric' = Consume(e) /\ UNCHANGED <<main, connection>>
      BY <2>6, <2>7 DEF recv_conn_More, recv_conn_Take
    <3>2. \A r \in Endpoint : Thinned(fabric'[r], fabric[r])
      BY <3>1, FabricTaken
    <3> QED
      BY <1>3, <2>3, <3>1, <3>2, WordlessThins DEF TypeOK
  <2>8. ~recv_conn_Done(e)
    BY <1>3, <2>6 DEF recv_conn_Done
  <2> QED
    BY <1>7, <2>4, <2>5, <2>7, <2>8 DEF OpenStep
<1>8. ASSUME q = p PROVE Hopeless(e)'
  <2>1. /\ UNCHANGED <<main[e], connection[e], opens[e], timer[e], conn_flag[e]>>
        /\ credits'[e] = credits[e]
    BY <1>2, <1>8, MainOther
  <2>2. Opening(e)' /\ ~check_all_channels(credits'[e])
    BY <1>3, <2>1 DEF Opening
  <2>3. Opening(p) /\ p = Slave /\ timer[p] = "never"
    BY <1>3, <1>4, <1>8 DEF Up
  <2>4. ~serve_conn(p)
    BY <2>3 DEF serve_conn, TimerOut, MustServe
  <2>5. ASSUME Up(p)' \/ (Opening(p)' /\ timer'[p] = "never"),
               Creditless(fabric'[e]), Wordless(fabric'[p]),
               tx_flow_credits'[p] = tx_flow_credits[p]
        PROVE  Hopeless(e)'
    BY <1>1, <1>3, <1>5, <2>2, <2>3, <2>5 DEF Hopeless, Silent
  <2>6. CASE recv_conn_Drop(p)
    <3>1. /\ \A r \in Endpoint : Thinned(fabric'[r], fabric[r])
          /\ UNCHANGED <<main, connection, timer, tx_flow_credits>>
      BY <2>6, FabricTaken DEF recv_conn_Drop, recv_conn, creditVars
    <3>2. Opening(p)' /\ timer'[p] = "never"
      BY <1>5, <2>3, <3>1 DEF Opening
    <3> QED
      BY <1>3, <2>5, <3>1, <3>2, WordlessThins
  <2>7. ASSUME recv_conn_Take(p) PROVE tx_flow_credits'[p] = tx_flow_credits[p]
    <3>1. PICK f : f = Arrived(p)
      OBVIOUS
    <3>2. tx_flow_credits[p] = [c \in Channel |-> 0]
      BY <1>3 DEF Silent
    <3> QED
      BY <1>2, <2>7, <3>1, <3>2, TakeEffect
  <2>8. CASE recv_conn_More(p)
    <3>1. /\ recv_conn_Take(p) /\ fabric[p] # <<>> /\ fabric' = Consume(p)
          /\ UNCHANGED <<main, connection>>
      BY <2>8 DEF recv_conn_More, recv_conn_Take, recv_conn
    <3>2. timer'[p] = "never"
      BY <2>3, <2>8 DEF recv_conn_More, ConnVarsType
    <3>3. \A r \in Endpoint : Thinned(fabric'[r], fabric[r])
      BY <3>1, FabricTaken
    <3>4. Opening(p)'
      BY <1>5, <2>3, <3>1 DEF Opening
    <3> QED
      BY <1>3, <2>5, <2>7, <3>1, <3>2, <3>3, <3>4, WordlessThins
  <2>9. CASE recv_conn_Done(p)
    <3> DEFINE last == LastFrame(p, next_rx_seq'[p])
               new == <<last>>
    <3>1. /\ recv_conn_Take(p) /\ fabric[p] # <<>>
          /\ fabric' = [fabric EXCEPT ![p] = Tail(@), ![e] = SendAll(@, new)]
          /\ connection' = [connection EXCEPT ![p] = TRUE] /\ main' = [main EXCEPT ![p] = "idle"]
      BY <1>2, <2>9 DEF recv_conn_Done, recv_conn_Take, recv_conn
    <3>2. last \in Frame /\ last.chan = 0
      <4>1. next_rx_seq'[p] \in SeqNum /\ next_tx_seq[p] \in SeqNum
        BY DEF TypeOK
      <4>2. 0 \in Nat /\ 0 \in Channel \cup {0}
        BY SMT
      <4>3. last.chan = 0
        BY DEF LastFrame, ConnFrame
      <4> QED
        BY <4>1, <4>2, <4>3, ConnFrameType DEF LastFrame
    <3> HIDE DEF last
    <3>3. new \in Seq(Frame) /\ Creditless(new)
      BY <3>2, OneFrame, SMT DEF Creditless
    <3> HIDE DEF new
    <3>4. fabric'[p] = Tail(fabric[p]) /\ fabric'[e] = SendAll(fabric[e], new)
      BY <1>2, <3>1 DEF TypeOK
    <3>5. Creditless(fabric'[e])
      BY <1>3, <1>6, <3>3, <3>4, WordlessSends
    <3>6. Wordless(fabric'[p])
      BY <1>3, <1>6, <3>1, <3>4, TailThins, WordlessThins
    <3>7. Up(p)'
      BY <1>5, <2>3, <3>1 DEF Opening, Up, ConnVarsType
    <3> QED
      BY <2>5, <2>7, <3>1, <3>5, <3>6, <3>7
  <2> QED
    BY <1>8, <2>4, <2>6, <2>8, <2>9 DEF OpenStep
<1> QED
  BY <1>2, <1>7, <1>8

\* Who opens without hope does so until its peer closes.
LEMMA HopelessStep ==
  ASSUME CLOSE_UNCONNECTED = FALSE, FirstOpen', TypeOK, ConnVarsType, RestInv, WindowInv,
         TypeOK', [ConnNext]_allVars, NEW e \in Endpoint, Hopeless(e)
  PROVE  Hopeless(e)' \/ Closed(Peer(e))'
<1>1. PICK p \in Endpoint : p = Peer(e)
  BY Peers
<1>2. p # e /\ Peer(p) = e
  BY <1>1, Peers
<1>3. /\ Opening(e) /\ ~check_all_channels(credits[e])
      /\ Up(p) \/ (Opening(p) /\ p = Slave /\ timer[p] = "never")
      /\ Creditless(fabric[e]) /\ Wordless(fabric[p]) /\ Silent(p)
  BY <1>1 DEF Hopeless
<1>4. ASSUME UNCHANGED <<credits, tx_flow_credits, tl_msg_buffer, retransmit_buffer>>,
             Opening(e)', Up(p)' \/ (Opening(p)' /\ p = Slave /\ timer'[p] = "never"),
             \A r \in Endpoint : Thinned(fabric'[r], fabric[r])
      PROVE  Hopeless(e)'
  <2>1. Creditless(fabric'[e]) /\ Wordless(fabric'[p])
    BY <1>3, <1>4, WordlessThins
  <2>2. Silent(p)'
    BY <1>3, <1>4 DEF Silent
  <2> QED
    BY <1>1, <1>3, <1>4, <2>1, <2>2 DEF Hopeless
<1>5. ASSUME NEW q \in Endpoint, Open(q) \/ Close(q) \/ Quit(q) \/ tloe_endpoint_close(q)
      PROVE  Hopeless(e)' \/ Closed(p)'
  <2>1. main[q] \in {"idle", "quitting"} /\ (Close(q) => connection[q])
    BY <1>5 DEF Open, Close, Quit, tloe_endpoint_close
  <2>2. q = p /\ Up(p)
    <3>1. q # e /\ (q = p \/ q = e) /\ (q = p => ~Opening(p))
      BY <1>1, <1>3, <2>1, Peers DEF Opening
    <3> QED
      BY <1>3, <3>1
  <2>3. UNCHANGED <<main[e], connection[e], opens[e]>>
    BY <1>2, <1>5, <2>2, MainOther
  <2>4. Opening(e)'
    BY <1>3, <2>3 DEF Opening
  <2>5. CASE Open(p)
    BY <2>2, <2>5 DEF Open, Up
  <2>6. CASE Close(p)
    BY <2>2, <2>6 DEF Close, Closed, Up, ConnVarsType
  <2>7. CASE Quit(p) \/ tloe_endpoint_close(p)
    <3>1. /\ UNCHANGED <<credits, tx_flow_credits, tl_msg_buffer, retransmit_buffer, fabric>>
          /\ main'[p] \in {"quitting", "gone"} /\ UNCHANGED <<connection, opens>>
      BY <2>7 DEF Quit, tloe_endpoint_close, vars, creditVars, linkVars, ConnVarsType
    <3>2. Up(p)'
      BY <2>2, <3>1 DEF Up
    <3> QED
      BY <1>4, <2>4, <3>1, <3>2, FabricSame
  <2> QED
    BY <1>5, <2>2, <2>5, <2>6, <2>7
<1>6. ASSUME NEW q \in Endpoint, CloseStep(q) PROVE FALSE
  <2>1. main[q] \in {"closing", "leaving"}
    BY <1>6 DEF CloseStep, recv_close_Drop, recv_close, serve_close_master, recv_close_master,
                recv_close_slave, serve_close_slave, last_recv_slave
  <2>2. q = e \/ q = p
    BY <1>1, Peers
  <2> QED
    BY <1>3, <2>1, <2>2 DEF Opening, Up
<1>7. ASSUME UNCHANGED connVars,
             UNCHANGED <<credits, tx_flow_credits, tl_msg_buffer, retransmit_buffer>>,
             \A r \in Endpoint : Thinned(fabric'[r], fabric[r])
      PROVE  Hopeless(e)'
  <2>1. Opening(e)' /\ (Up(p)' <=> Up(p)) /\ (Opening(p)' <=> Opening(p))
        /\ timer'[p] = timer[p]
    BY <1>3, <1>7 DEF connVars, Opening, Up
  <2> QED
    BY <1>3, <1>4, <1>7, <2>1
<1>8. ASSUME NEW q \in Endpoint, Lose(q), UNCHANGED connVars PROVE Hopeless(e)'
  <2>1. UNCHANGED <<credits, tx_flow_credits, tl_msg_buffer, retransmit_buffer>>
    BY <1>8 DEF Lose, creditVars
  <2> QED
    BY <1>7, <1>8, <2>1, FabricLost
<1>9. CASE UNCHANGED allVars
  <2>1. /\ UNCHANGED connVars /\ fabric' = fabric
        /\ UNCHANGED <<credits, tx_flow_credits, tl_msg_buffer, retransmit_buffer>>
    BY <1>9 DEF allVars, vars, linkVars, creditVars
  <2> QED
    BY <1>7, <2>1, FabricSame
<1>10. ASSUME NEW q \in Endpoint, ConnWorker(q) \/ ConnSubmit(q) PROVE Hopeless(e)'
  BY <1>10, HopelessWorker
<1>11. ASSUME NEW q \in Endpoint, OpenStep(q) PROVE Hopeless(e)'
  BY <1>11, HopelessOpening
<1> QED
  BY <1>1, <1>5, <1>6, <1>8, <1>9, <1>10, <1>11 DEF ConnNext, MainThread

LEMMA DoomedStep ==
  ASSUME CLOSE_UNCONNECTED = FALSE, FirstOpen', TypeOK, ConnVarsType, RestInv, WindowInv,
         TypeOK', [ConnNext]_allVars, Doomed
  PROVE  Doomed'
<1>1. PICK e \in Endpoint : Closed(e) \/ Hopeless(e)
  BY DEF Doomed
<1>2. Peer(e) \in Endpoint
  BY Peers
<1>3. CASE Closed(e)
  BY <1>3, ClosedStep DEF Doomed
<1>4. CASE Hopeless(e)
  BY <1>2, <1>4, HopelessStep DEF Doomed
<1> QED
  BY <1>1, <1>3, <1>4

\* The users' commands only add to the connections opened.
LEMMA OpensStep ==
  ASSUME ConnVarsType, [ConnNext]_allVars
  PROVE  /\ FirstOpen' => FirstOpen
         /\ \A e \in Endpoint : opens'[e] = opens[e] \/ opens'[e] <= MAX_OPENS
<1>1. ASSUME NEW q \in Endpoint, Open(q)
      PROVE  \A e \in Endpoint : \/ opens'[e] = opens[e]
                                 \/ opens'[e] = opens[e] + 1 /\ opens[e] < MAX_OPENS
  BY <1>1 DEF Open, ConnVarsType
<1>2. CASE opens' = opens
  BY <1>2 DEF FirstOpen
<1>3. ASSUME NEW q \in Endpoint, MainThread(q), ~Open(q) PROVE opens' = opens
  <2>1. CASE Close(q) \/ Quit(q) \/ tloe_endpoint_close(q) \/ ConnSubmit(q)
    BY <2>1 DEF Close, Quit, tloe_endpoint_close, ConnSubmit, connVars
  <2>2. CASE OpenStep(q)
    BY <2>2 DEF OpenStep, serve_conn, recv_conn_Drop, recv_conn_More, recv_conn_Done,
                recv_conn_Take, recv_conn
  <2>3. CASE CloseStep(q)
    BY <2>3 DEF CloseStep, recv_close_Drop, serve_close_master, recv_close_master, connVars,
                recv_close_slave, serve_close_slave, last_recv_slave, Reinit
  <2> QED
    BY <1>3, <2>1, <2>2, <2>3 DEF MainThread
<1>4. opens' = opens \/ \E q \in Endpoint : Open(q)
  <2>1. CASE UNCHANGED allVars
    BY <2>1 DEF allVars, connVars
  <2>2. ASSUME NEW q \in Endpoint, ConnWorker(q) \/ UNCHANGED connVars PROVE opens' = opens
    BY <2>2 DEF ConnWorker, connVars
  <2> QED
    BY <1>3, <2>1, <2>2 DEF ConnNext
<1>5. ASSUME NEW q \in Endpoint, Open(q)
      PROVE  /\ FirstOpen' => FirstOpen
             /\ \A e \in Endpoint : opens'[e] = opens[e] \/ opens'[e] <= MAX_OPENS
  <2>1. \A e \in Endpoint : opens[e] \in Nat
    BY DEF ConnVarsType
  <2>2. MAX_OPENS \in Nat
    BY ConnectionAssumption
  <2> QED
    BY <1>1, <1>5, <2>1, <2>2, SMT DEF FirstOpen
<1> QED
  BY <1>2, <1>4, <1>5

LEMMA OpenInvStep ==
  ASSUME RoomForHandshake, CLOSE_UNCONNECTED = FALSE, TypeOK, ConnVarsType, RestInv, WindowInv,
         AckBufferFresh, TypeOK', WindowInv', OpenInv, [ConnNext]_allVars
  PROVE  OpenInv'
<1>1. SUFFICES ASSUME FirstOpen' PROVE Doomed' \/ Alive'
  BY DEF OpenInv
<1>2. Doomed \/ Alive
  BY <1>1, OpensStep DEF OpenInv
<1> QED
  BY <1>1, <1>2, DoomedStep, AliveStep

-----------------------------------------------------------------------------
(***************************************************************************)
(* What the stages mean for the frames under way                            *)
(***************************************************************************)
\* No number and no acknowledgement under way is old.
LEMMA AliveFrames ==
  ASSUME RoomForHandshake, TypeOK, WindowInv, Alive, NEW e \in Endpoint,
         NEW i \in DOMAIN fabric[Peer(e)], NEW f, f = fabric[Peer(e)][i]
  PROVE  /\ Numbered(f) => tloe_seqnum_cmp(f.seq_num, next_tx_seq[e]) = -1
         /\ tloe_seqnum_cmp(f.seq_num_ack, next_rx_seq[e]) = -1
<1>1. PICK p \in Endpoint : p = Peer(e)
  BY Peers
<1>2. p # e /\ Peer(p) = e
  BY <1>1, Peers
<1>3. /\ next_tx_seq[e] \in SeqNum /\ next_rx_seq[e] \in SeqNum
      /\ next_tx_seq[p] \in SeqNum /\ next_rx_seq[p] \in SeqNum
      /\ fabric[e] \in Seq(Frame) /\ fabric[p] \in Seq(Frame)
      /\ Len(retransmit_buffer[e]) \in Nat /\ Len(retransmit_buffer[e]) <= WINDOW_SIZE
      /\ Len(retransmit_buffer[p]) \in Nat /\ Len(retransmit_buffer[p]) <= WINDOW_SIZE
  BY <1>1, LinkTypes
<1>4. f.seq_num \in SeqNum /\ f.seq_num_ack \in SeqNum
  BY <1>1, <1>3, FrameNumbers
<1>5. ASSUME NEW a \in SeqNum, NEW b \in SeqNum, Dist(a, b) \in 1 .. HALF_MAX_SEQ_NUM - 1
      PROVE  tloe_seqnum_cmp(a, b) = -1
  BY <1>5, CmpIsOrder
<1>6. ASSUME Numbered(f) PROVE tloe_seqnum_cmp(f.seq_num, next_tx_seq[e]) = -1
  <2>1. PICK least \in {0, 2} : least = Least(p)
    BY <1>1, AliveParts
  <2>2. PICK first \in {2, 3} : first = First(e)
    BY <1>1, AliveParts
  <2>3. Stream(least, first, next_tx_seq[e], next_rx_seq[p], retransmit_buffer[e], fabric[p],
               fabric[e], ack_buffer[p])
    BY <1>1, <2>1, <2>2, AliveParts DEF StreamOf
  <2> DEFINE missing == Dist(next_rx_seq[p], next_tx_seq[e])
  <2>4. missing \in Nat /\ missing + SPAN < HALF_MAX_SEQ_NUM
    BY <1>3, <2>3, StreamSizes
  <2>5. Dist(f.seq_num, next_tx_seq[e]) \in 1 .. missing + SPAN
    BY <1>1, <1>6, <2>3 DEF Stream, NumbersInOrder
  <2> HIDE DEF missing
  <2>6. Dist(f.seq_num, next_tx_seq[e]) \in 1 .. HALF_MAX_SEQ_NUM - 1
    BY <2>4, <2>5, SpanSizes, Sizes, SMT
  <2> QED
    BY <1>3, <1>4, <1>5, <2>6
<1>7. tloe_seqnum_cmp(f.seq_num_ack, next_rx_seq[e]) = -1
  <2>1. PICK least \in {0, 2} : least = Least(e)
    BY AliveParts
  <2>2. PICK first \in {2, 3} : first = First(p)
    BY <1>1, AliveParts
  <2>3. Stream(least, first, next_tx_seq[p], next_rx_seq[e], retransmit_buffer[p], fabric[e],
               fabric[p], ack_buffer[e])
    BY <1>1, <1>2, <2>1, <2>2, AliveParts DEF StreamOf
  <2> DEFINE N == next_tx_seq[p]
             R == next_rx_seq[e]
             kept == Len(retransmit_buffer[p])
             missing == Dist(R, N)
             n == f.seq_num_ack
  <2>4. missing \in Nat /\ Dist(n, N) \in Nat
    BY <1>3, <1>4, MissingType
  <2>5. Dist(n, N) \in missing + 1 .. kept + ACK_HORIZON
    BY <1>1, <2>3 DEF Stream, AcksInOrder
  <2>6. n \in SeqNum /\ N \in SeqNum /\ R \in SeqNum /\ kept \in Nat /\ kept <= WINDOW_SIZE
    BY <1>3, <1>4
  <2> HIDE DEF n, N, R, kept, missing
  <2>7. Dist(n, R) = Dist(n, N) - missing
    <3>1. Dist(n, N) >= missing
      BY <2>4, <2>5, SMT
    <3> QED
      BY <2>6, <3>1, DistSum DEF missing
  <2>8. Dist(n, R) \in 1 .. HALF_MAX_SEQ_NUM - 1
    BY <2>4, <2>5, <2>6, <2>7, Sizes, SMT
  <2>9. tloe_seqnum_cmp(n, R) = -1
    BY <1>5, <2>6, <2>8
  <2> QED
    BY <2>9 DEF n, R
<1> QED
  BY <1>6, <1>7

LEMMA OpenInvStale ==
  ASSUME RoomForHandshake, TypeOK, WindowInv, OpenInv, FirstOpen
  PROVE  NoStaleFrame
<1>1. SUFFICES ASSUME Connected PROVE NoStaleFrame
  BY DEF NoStaleFrame
<1>2. Alive
  BY <1>1 DEF OpenInv, Doomed, Connected, Closed, Hopeless, Opening
<1>3. ASSUME NEW e \in Endpoint, NEW i \in DOMAIN fabric[Peer(e)]
      PROVE  LET f == fabric[Peer(e)][i]
             IN  /\ f.type # "ACKONLY" => tloe_seqnum_cmp(f.seq_num, next_tx_seq[e]) < 0
                 /\ tloe_seqnum_cmp(f.seq_num_ack, next_rx_seq[e]) < 0
  <2>1. PICK f : f = fabric[Peer(e)][i]
    OBVIOUS
  <2>2. /\ Numbered(f) => tloe_seqnum_cmp(f.seq_num, next_tx_seq[e]) = -1
        /\ tloe_seqnum_cmp(f.seq_num_ack, next_rx_seq[e]) = -1
    BY <1>2, <2>1, AliveFrames
  <2>3. \A n : n = -1 => n < 0
    BY SMT
  <2> QED
    BY <2>1, <2>2, <2>3 DEF Numbered
<1> QED
  BY <1>3 DEF NoStaleFrame

LEMMA OpenInvInit ==
  ASSUME RoomForHandshake, ConnInit
  PROVE  OpenInv
<1>1. FIRST_SEQ = 2 /\ 0 \in {0, 2} /\ 0 \in SeqNum
  BY SpanSizes, HandshakeNumbers
<1>2. ASSUME NEW e \in Endpoint PROVE Fresh(e) /\ NotUp(e) /\ StreamFrom(e)
  <2>1. PICK p \in Endpoint : p = Peer(e)
    BY Peers
  <2>2. Fresh(e) /\ ~Opening(e) /\ ~Up(p) /\ First(e) = 2 /\ Least(p) = 0
    BY <1>1, SMT DEF ConnInit, Fresh, Opening, Up, First, Least
  <2>3. /\ fabric[e] = <<>> /\ fabric[p] = <<>> /\ next_tx_seq[e] = 0 /\ next_rx_seq[e] = 0
        /\ next_rx_seq[p] = 0 /\ ack_buffer[p] = <<>> /\ retransmit_buffer[e] = <<>>
        /\ retransmit_buffer[p] = <<>> /\ tl_msg_buffer[p] = <<>>
        /\ tx_flow_credits[p] = [c \in Channel |-> 0]
        /\ credits[e] = [c \in Channel |-> CREDIT_INIT]
    BY DEF ConnInit
  <2>4. DOMAIN <<>> = {} /\ Len(<<>>) = 0 /\ 0 <= 0
    BY EmptySeq, SMT
  <2>5. Served(e)
    BY <2>1, <2>3, <2>4 DEF Served
  <2>6. Taken(e)
    <3>1. \A i \in DOMAIN ChannelOrder : ChannelOrder[i] \in Channel /\ ~(i <= 0)
      BY ChannelOrderType, SMT DEF ChannelOrder, Channel
    <3>2. \A c \in Channel : ~(credits[e][c] > CREDIT_INIT)
      BY <2>3, ConnectionAssumption, SMT
    <3> QED
      BY <2>3, <3>1, <3>2 DEF Taken
  <2>7. HandshakeFirst(e) /\ Wordless(fabric[p]) /\ Silent(p)
    BY <2>3, <2>4 DEF HandshakeFirst, Handshaking, Wordless, Silent, Creditless
  <2>8. NotUp(e)
    BY <2>1, <2>2, <2>5, <2>6, <2>7 DEF NotUp
  <2>9. Stream(0, 2, 0, 0, <<>>, <<>>, <<>>, <<>>)
    <3>1. Dist(0, 0) = 0
      BY <1>1, DistSum
    <3> QED
      BY <2>4, <3>1 DEF Stream, NumbersInOrder, AcksInOrder
  <2>10. StreamFrom(e)
    BY <2>1, <2>2, <2>3, <2>9 DEF StreamFrom
  <2> QED
    BY <2>2, <2>8, <2>10
<1> QED
  BY <1>2 DEF OpenInv, Alive

LEMMA OpensBound ==
  ASSUME ConnVarsType, [ConnNext]_allVars, \A e \in Endpoint : opens[e] <= MAX_OPENS
  PROVE  \A e \in Endpoint : opens'[e] <= MAX_OPENS
BY OpensStep

-----------------------------------------------------------------------------
\* As long as no user has opened twice, either both endpoints are connected or
\* may still be, and then everything under way is in order, or one has closed
\* or opens without hope; with any losses.  (open_conn_master, open_conn_slave,
\* TX, RX)
THEOREM FirstConnectionStages ==
  ASSUME RoomForHandshake, CLOSE_UNCONNECTED = FALSE
  PROVE  ConnSpec /\ []AckBufferFresh => []OpenInv
BY OpenInvInit, OpenInvStep, ConnRestInit, ConnTypeStep, ConnVarsStep, RestStep, ConnWindowStep,
   PTL DEF ConnSpec

\* In the first connection no frame of the handshake, however often it was
\* repeated, and none repeated later can be taken for a new one, and every
\* acknowledgement compares as behind what its sender waits for; with any
\* losses.  (recv_conn_*, send_frame of tloe_connection.c, TX, RX)
THEOREM FirstConnectionNotStale ==
  ASSUME RoomForHandshake, CLOSE_UNCONNECTED = FALSE
  PROVE  ConnSpec /\ []AckBufferFresh => [](FirstOpen => NoStaleFrame)
BY OpenInvStale, FirstConnectionStages, ConnRestInit, ConnTypeStep, ConnVarsStep, RestStep,
   ConnWindowStep, PTL DEF ConnSpec

\* So it is always, where each user opens once.
THEOREM SingleConnectionNotStale ==
  ASSUME RoomForHandshake, CLOSE_UNCONNECTED = FALSE, MAX_OPENS <= 1
  PROVE  ConnSpec /\ []AckBufferFresh => []NoStaleFrame
<1> DEFINE Bounded == \A e \in Endpoint : opens[e] <= MAX_OPENS
<1>1. ConnInit => Bounded
  BY ConnectionAssumption, SMT DEF ConnInit
<1>2. ConnVarsType /\ Bounded /\ [ConnNext]_allVars => Bounded'
  BY OpensBound
<1>3. ConnVarsType /\ Bounded => FirstOpen
  BY ConnectionAssumption, SMT DEF FirstOpen, ConnVarsType
<1> HIDE DEF Bounded
<1> QED
  BY <1>1, <1>2, <1>3, FirstConnectionNotStale, ConnRestInit, ConnTypeStep, ConnVarsStep, PTL
     DEF ConnSpec

-----------------------------------------------------------------------------
(***************************************************************************)
(* Nothing lost: the first connection can always go on                      *)
(***************************************************************************)
\* No frame has been dropped, neither under way nor by a full fabric.
NoFrameLost == lost = 0 /\ \A e \in Endpoint : Len(fabric[e]) < FABRIC_CAP

\* Until the slave is connected, the frame it waits for comes first.
HandshakeStarts ==
    LET q == fabric[Slave]
        n == next_rx_seq[Slave]
    IN  /\ n = 1 => conn_flag[Slave] /\ q # <<>> /\ q[1].seq_num = 1
        /\ n = 0 /\ q # <<>> => q[1].seq_num = 0 /\ Len(q) >= 2 /\ q[2].seq_num = 1

\* The master's last frame of the handshake, the only one the slave's worker
\* waits for that is in no window.
LastFrameUnderWay ==
    \E i \in DOMAIN fabric[Slave] :
        Numbered(fabric[Slave][i]) /\ fabric[Slave][i].seq_num = FIRST_SEQ

AllKept == Dist(next_rx_seq[Slave], next_tx_seq[Master]) <= Len(retransmit_buffer[Master])

Unbroken ==
    /\ ~Up(Slave) => HandshakeStarts
    /\ Up(Master) => LastFrameUnderWay \/ (Up(Slave) /\ AllKept)

UnbrokenInv == FirstOpen => Doomed \/ (Alive /\ Unbroken)

\* A fabric that is not full afterwards has taken every frame.
LEMMA AllSent ==
  ASSUME NEW q \in Seq(Frame), NEW new \in Seq(Frame), Len(SendAll(q, new)) < FABRIC_CAP
  PROVE  /\ SendAll(q, new) = q \o new
         /\ \A i \in DOMAIN q : i \in DOMAIN (q \o new) /\ (q \o new)[i] = q[i]
         /\ \A i \in DOMAIN new : /\ Len(q) + i \in DOMAIN (q \o new)
                                  /\ (q \o new)[Len(q) + i] = new[i]
         /\ Len(q \o new) = Len(q) + Len(new) /\ Len(q) \in Nat /\ Len(new) \in Nat
<1> DEFINE all == q \o new
<1>1. /\ all \in Seq(Frame) /\ Len(all) = Len(q) + Len(new)
      /\ \A i \in 1 .. Len(all) : all[i] = IF i <= Len(q) THEN q[i] ELSE new[i - Len(q)]
  BY ConcatProperties
<1>2. /\ Len(q) \in Nat /\ Len(new) \in Nat /\ Len(all) \in Nat
      /\ DOMAIN q = 1 .. Len(q) /\ DOMAIN new = 1 .. Len(new) /\ DOMAIN all = 1 .. Len(all)
  BY <1>1, LenProperties
<1>3. FABRIC_CAP \in Nat
  BY SizeAssumption
<1> HIDE DEF all
<1>4. Len(all) <= FABRIC_CAP
  <2>1. SUFFICES ASSUME ~(Len(all) <= FABRIC_CAP) PROVE FALSE
    OBVIOUS
  <2>2. SendAll(q, new) = SubSeq(all, 1, FABRIC_CAP)
    BY <2>1 DEF SendAll, all
  <2>3. Len(SubSeq(all, 1, FABRIC_CAP)) = FABRIC_CAP
    BY <1>1, <1>2, <1>3, <2>1, SMT
  <2> QED
    BY <1>3, <2>2, <2>3, SMT
<1>5. SendAll(q, new) = all
  BY <1>4 DEF SendAll, all
<1>6. \A i \in DOMAIN q : i \in DOMAIN all /\ all[i] = q[i]
  BY <1>1, <1>2, SMT
<1>7. \A i \in DOMAIN new : Len(q) + i \in DOMAIN all /\ all[Len(q) + i] = new[i]
  BY <1>1, <1>2, SMT
<1> QED
  BY <1>1, <1>2, <1>5, <1>6, <1>7 DEF all

LEMMA SentIsThere ==
  ASSUME NEW q \in Seq(Frame), NEW new \in Seq(Frame), Len(SendAll(q, new)) < FABRIC_CAP,
         NEW i \in DOMAIN new
  PROVE  \E k \in DOMAIN SendAll(q, new) : SendAll(q, new)[k] = new[i]
<1>1. Len(q) + i \in DOMAIN (q \o new) /\ (q \o new)[Len(q) + i] = new[i]
  BY AllSent
<1>2. SendAll(q, new) = q \o new
  BY AllSent
<1> QED
  BY <1>1, <1>2

\* More frames for the slave, behind those under way: its worker is sent what
\* it is sent, and the handshake starts where it started, as long as nothing
\* but a handshake comes first.
LEMMA StartsGrow ==
  ASSUME fabric[Slave] \in Seq(Frame), NEW new \in Seq(Frame),
         fabric'[Slave] = SendAll(fabric[Slave], new), Len(fabric'[Slave]) < FABRIC_CAP,
         next_rx_seq'[Slave] = next_rx_seq[Slave], conn_flag'[Slave] = conn_flag[Slave]
  PROVE  /\ LastFrameUnderWay => LastFrameUnderWay'
         /\ HandshakeStarts
               /\ (\/ fabric[Slave] # <<>> \/ next_rx_seq[Slave] = 1
                   \/ Len(new) >= 2 /\ new[1].seq_num = 0 /\ new[2].seq_num = 1) =>
            HandshakeStarts'
<1> DEFINE q == fabric[Slave]
           n == next_rx_seq[Slave]
           more == fabric'[Slave]
<1>0. q \in Seq(Frame) /\ more = SendAll(q, new) /\ Len(SendAll(q, new)) < FABRIC_CAP
  OBVIOUS
<1> HIDE DEF q, n, more
<1>1. /\ more = q \o new
      /\ \A i \in DOMAIN q : i \in DOMAIN more /\ more[i] = q[i]
      /\ \A i \in DOMAIN new : Len(q) + i \in DOMAIN more /\ more[Len(q) + i] = new[i]
      /\ Len(more) = Len(q) + Len(new) /\ Len(q) \in Nat /\ Len(new) \in Nat
      /\ q \in Seq(Frame)
  <2>1. /\ SendAll(q, new) = q \o new
        /\ \A i \in DOMAIN q : i \in DOMAIN (q \o new) /\ (q \o new)[i] = q[i]
        /\ \A i \in DOMAIN new : /\ Len(q) + i \in DOMAIN (q \o new)
                                 /\ (q \o new)[Len(q) + i] = new[i]
        /\ Len(q \o new) = Len(q) + Len(new) /\ Len(q) \in Nat /\ Len(new) \in Nat
    BY <1>0, AllSent
  <2>2. more = q \o new
    BY <1>0, <2>1
  <2> QED
    BY <1>0, <2>1, <2>2, Zenon
<1>2. DOMAIN q = 1 .. Len(q) /\ DOMAIN new = 1 .. Len(new)
  BY <1>1, LenProperties
<1>3. q # <<>> <=> Len(q) > 0
  BY <1>1, EmptySeq, SMT
<1>4. more \in Seq(Frame)
  BY <1>1, ConcatProperties
<1>5. LastFrameUnderWay => LastFrameUnderWay'
  BY <1>1 DEF LastFrameUnderWay, q, more
<1>6. ASSUME HandshakeStarts,
             \/ q # <<>> \/ n = 1
             \/ Len(new) >= 2 /\ new[1].seq_num = 0 /\ new[2].seq_num = 1
      PROVE  HandshakeStarts'
  <2>1. /\ n = 1 => conn_flag[Slave] /\ q # <<>> /\ q[1].seq_num = 1
        /\ n = 0 /\ q # <<>> => q[1].seq_num = 0 /\ Len(q) >= 2 /\ q[2].seq_num = 1
    BY <1>6 DEF HandshakeStarts, q, n
  <2>2. more # <<>> <=> Len(more) > 0
    BY <1>1, <1>4, EmptySeq, SMT
  <2>3. CASE q # <<>>
    <3>1. 1 \in DOMAIN q /\ more[1] = q[1] /\ Len(more) > 0
      BY <1>1, <1>2, <1>3, <2>3, SMT
    <3>2. n = 0 => Len(more) >= 2 /\ more[2] = q[2]
      BY <1>1, <1>2, <2>1, <2>3, SMT
    <3>3. /\ n = 1 => conn_flag[Slave] /\ more # <<>> /\ more[1].seq_num = 1
          /\ n = 0 /\ more # <<>> =>
                more[1].seq_num = 0 /\ Len(more) >= 2 /\ more[2].seq_num = 1
      BY <2>1, <2>2, <2>3, <3>1, <3>2
    <3> QED
      BY <3>3 DEF HandshakeStarts, n, more
  <2>4. CASE q = <<>>
    <3>1. n # 1
      BY <2>1, <2>4
    <3>2. Len(new) >= 2 /\ new[1].seq_num = 0 /\ new[2].seq_num = 1
      BY <1>6, <2>4, <3>1
    <3>3. Len(q) = 0 /\ 1 \in DOMAIN new /\ 2 \in DOMAIN new
      BY <1>1, <1>2, <1>3, <2>4, <3>2, SMT
    <3>4. 0 + 1 = 1 /\ 0 + 2 = 2
      BY SMT
    <3>5. more[1] = new[1] /\ more[2] = new[2] /\ Len(more) >= 2
      BY <1>1, <3>2, <3>3, <3>4, SMT
    <3> QED
      BY <3>1, <3>2, <3>5 DEF HandshakeStarts, n, more
  <2> QED
    BY <2>3, <2>4
<1> QED
  BY <1>5, <1>6 DEF q, n

\* A frame taken by the slave, other than the master's last.
LEMMA UnderWayTaken ==
  ASSUME fabric[Slave] \in Seq(Frame), fabric[Slave] # <<>>,
         fabric'[Slave] = Tail(fabric[Slave]), LastFrameUnderWay,
         ~(Numbered(Head(fabric[Slave])) /\ Head(fabric[Slave]).seq_num = FIRST_SEQ)
  PROVE  LastFrameUnderWay'
<1> DEFINE q == fabric[Slave]
           rest == Tail(q)
<1>1. PICK i \in DOMAIN q : Numbered(q[i]) /\ q[i].seq_num = FIRST_SEQ
  BY DEF LastFrameUnderWay
<1>2. /\ rest \in Seq(Frame) /\ Len(rest) = Len(q) - 1 /\ Head(q) = q[1]
      /\ \A k \in 1 .. Len(rest) : rest[k] = q[k + 1]
  BY HeadTailProperties
<1>3. Len(q) \in Nat /\ DOMAIN q = 1 .. Len(q) /\ DOMAIN rest = 1 .. Len(rest) /\ Len(rest) \in Nat
  BY <1>2, LenProperties
<1> HIDE DEF q, rest
<1>4. i # 1
  BY <1>1, <1>2 DEF q
<1>5. i - 1 \in DOMAIN rest /\ rest[i - 1] = q[(i - 1) + 1] /\ (i - 1) + 1 = i
  BY <1>2, <1>3, <1>4, SMT
<1> QED
  BY <1>1, <1>5 DEF LastFrameUnderWay, q, rest

LEMMA BothEnds ==
  ASSUME RoomForHandshake
  PROVE  /\ Master \in Endpoint /\ Slave \in Endpoint /\ Master # Slave /\ FIRST_SEQ = 2
         /\ Peer(Slave) = Master /\ Peer(Master) = Slave
         /\ \A e \in Endpoint : e = Master \/ e = Slave
BY EndpointAssumption, SpanSizes DEF Endpoint, Peer

\* A slave that has answered the master's first frame waits for the second.
LEMMA SlaveAnswered ==
  ASSUME RoomForHandshake, Alive, ~Up(Slave), next_tx_seq[Slave] = 2
  PROVE  next_rx_seq[Slave] = 1 /\ conn_flag[Slave]
<1>1. NotUp(Slave) /\ (Fresh(Slave) \/ Opening(Slave))
  BY BothEnds, AliveParts
<1>2. Opening(Slave)
  BY <1>1 DEF Fresh
<1> QED
  BY <1>1, <1>2 DEF NotUp, Loop

\* So it is where the master is connected and the slave is not.
LEMMA SlaveBehind ==
  ASSUME RoomForHandshake, Alive, Up(Master), ~Up(Slave)
  PROVE  next_rx_seq[Slave] = 1
<1>1. NotUp(Slave)
  BY BothEnds, AliveParts
<1>2. next_tx_seq[Slave] = 2
  BY <1>1, BothEnds DEF NotUp, Ahead
<1> QED
  BY <1>2, SlaveAnswered

\* A worker runs, and its user submits, only once its endpoint is connected.
LEMMA WorkerUp ==
  ASSUME RestInv, Alive, NEW e \in Endpoint, ConnWorker(e) \/ ConnSubmit(e)
  PROVE  Up(e)
<1>1. SUFFICES ASSUME Fresh(e) \/ Opening(e) PROVE FALSE
  BY AliveParts
<1>2. ~connection[e] /\ main[e] \in {"idle", "opening"}
  BY <1>1 DEF Fresh, Opening
<1>3. pc[e] = "select"
  BY <1>2 DEF RestInv, RestAt, AtRest
<1> QED
  BY <1>2, <1>3 DEF ConnWorker, ConnSubmit

\* The workers keep what the window holds for a slave that misses no more.
LEMMA WorkerKeeps ==
  ASSUME RoomForHandshake, TypeOK, WindowInv, AckBufferFresh, TypeOK', WindowInv', Alive,
         Up(Master), Up(Slave), NEW e \in Endpoint,
         Transmits(e) \/ Receives(e) \/ Computes(e), UNCHANGED Kept(Peer(e)), AllKept
  PROVE  AllKept'
<1>1. PICK p \in Endpoint : p = Peer(e) /\ p # e /\ Peer(p) = e
  BY Peers
<1>2. /\ Master \in Endpoint /\ Slave \in Endpoint /\ Peer(Slave) = Master /\ Peer(Master) = Slave
      /\ FIRST_SEQ = 2 /\ {e, p} = {Master, Slave}
  BY <1>1, BothEnds
<1>3. /\ StreamOf(Least(Slave), First(Master), Master)
      /\ StreamOf(Least(Master), First(Slave), Slave)
  BY <1>2, AliveParts
<1>4. StreamOf(2, 2, Master) /\ StreamOf(2, 2, Slave)
  <2>1. StreamOf(2, 2, Master)
    BY <1>2, <1>3 DEF StreamOf, Stream, AllKept
  <2>2. Least(Master) = 2 /\ First(Slave) = 2
    BY BothEnds DEF Up, Least, First
  <2> QED
    BY <1>3, <2>1, <2>2
<1>5. StreamOf(2, 2, e) /\ StreamOf(2, 2, p)
  BY <1>2, <1>4
<1>6. 2 \in {0, 2} /\ 2 \in {2, 3}
  OBVIOUS
<1>7. StreamOf(2, 2, e)' /\ StreamOf(2, 2, p)'
  <2>1. CASE Transmits(e)
    BY <1>1, <1>5, <1>6, <2>1, StreamsTransmit
  <2>2. CASE Receives(e)
    BY <1>1, <1>5, <1>6, <2>2, StreamsReceive
  <2>3. CASE Computes(e)
    <3>1. UNCHANGED <<next_tx_seq, next_rx_seq, retransmit_buffer, fabric, ack_buffer>>
      BY <2>3 DEF Computes, linkVars
    <3> QED
      BY <1>5, <3>1 DEF StreamOf
  <2> QED
    BY <2>1, <2>2, <2>3
<1>8. StreamOf(2, 2, Master)'
  BY <1>2, <1>7
<1>9. ~(next_rx_seq'[Slave] \in 2 .. 2 - 1)
  BY <1>2, SMT DEF TypeOK, SeqNum
<1> QED
  BY <1>2, <1>8, <1>9 DEF StreamOf, Stream, Awaits, AllKept

\* The frame a worker waits for is accepted.
LEMMA AcceptsAwaited ==
  ASSUME TypeOK, NEW e \in Endpoint, Receive(e), fabric[e] # <<>>, Numbered(Arrived(e)),
         Arrived(e).seq_num = next_rx_seq[e]
  PROVE  next_rx_seq'[e] = tloe_seqnum_next(next_rx_seq[e])
<1>1. next_rx_seq[e] \in SeqNum
  BY DEF TypeOK
<1>2. tloe_rx_get_req_type(Arrived(e).seq_num, next_rx_seq[e]) = "REQ_NORMAL"
  BY <1>1, SMT DEF tloe_rx_get_req_type, tloe_seqnum_cmp, SeqNum
<1>3. ~RX_Empty(e) /\ ~RX_AckOnly(e) /\ ~RX_Duplicate(e) /\ ~RX_OutOfSequence(e)
  BY <1>2 DEF RX_Empty, RX_AckOnly, RX_Duplicate, RX_OutOfSequence, RX_Class, Numbered
<1>4. Accept(e)
  BY <1>3 DEF Receive, RX_Normal, RX_Zero
<1>5. next_rx_seq' = [next_rx_seq EXCEPT ![e] = tloe_seqnum_next(next_rx_seq[e])]
  BY <1>4, AcceptsExpected
<1> QED
  BY <1>5 DEF TypeOK

LEMMA WorkerUnbroken ==
  ASSUME RoomForHandshake, TypeOK, RestInv, WindowInv, AckBufferFresh, TypeOK', WindowInv',
         NoFrameLost', Alive, Alive', Unbroken, NEW e \in Endpoint,
         ConnWorker(e) \/ ConnSubmit(e)
  PROVE  Unbroken'
<1>1. PICK p \in Endpoint : p = Peer(e) /\ p # e /\ Peer(p) = e
  BY Peers
<1>2. /\ Master \in Endpoint /\ Slave \in Endpoint /\ Peer(Slave) = Master /\ Peer(Master) = Slave
      /\ FIRST_SEQ = 2 /\ Master # Slave
  BY BothEnds
<1>3. Up(e) /\ UNCHANGED connVars
  BY WorkerUp DEF ConnWorker, ConnSubmit
<1>4. /\ Transmits(e) \/ (Receive(e) /\ Receives(e)) \/ Computes(e)
      /\ UNCHANGED Kept(p)
  BY <1>1, TransmitSends, ReceiveEffect, ComputeEffect DEF ConnWorker, ConnSubmit, Worker
<1>5. (Up(Master)' <=> Up(Master)) /\ (Up(Slave)' <=> Up(Slave))
  BY <1>3 DEF connVars, Up
<1>6. fabric[Slave] \in Seq(Frame) /\ Len(fabric'[Slave]) < FABRIC_CAP
  BY <1>2 DEF NoFrameLost, TypeOK
\* What the master's worker does.
<1>7. ASSUME e = Master PROVE Unbroken'
  <2>1. \E new \in Seq(Frame) : fabric'[Slave] = SendAll(fabric[Slave], new)
    <3>1. CASE Transmits(e)
      BY <1>1, <1>2, <1>7, <3>1 DEF Transmits, Said, TypeOK
    <3>2. CASE Receives(e)
      BY <1>1, <1>2, <1>7, <3>2 DEF Receives, Said
    <3>3. CASE Computes(e)
      <4>1. fabric'[Slave] = fabric[Slave] \o <<>> /\ <<>> \in Seq(Frame)
        BY <1>6, <3>3, EmptySeq, ConcatProperties DEF Computes, linkVars
      <4>2. SendAll(fabric[Slave], <<>>) = fabric[Slave] \o <<>>
        BY <1>6, <4>1, LenProperties, SizeAssumption, SMT DEF SendAll
      <4> QED
        BY <4>1, <4>2
    <3> QED
      BY <1>4, <3>1, <3>2, <3>3
  <2>2. PICK new \in Seq(Frame) : fabric'[Slave] = SendAll(fabric[Slave], new)
    BY <2>1
  <2>3. next_rx_seq'[Slave] = next_rx_seq[Slave] /\ conn_flag'[Slave] = conn_flag[Slave]
    BY <1>1, <1>2, <1>3, <1>4, <1>7 DEF Kept, connVars
  <2>4. /\ LastFrameUnderWay => LastFrameUnderWay'
        /\ HandshakeStarts /\ next_rx_seq[Slave] = 1 => HandshakeStarts'
    BY <1>6, <2>2, <2>3, StartsGrow
  <2>5. ~Up(Slave)' => HandshakeStarts'
    BY <1>3, <1>5, <1>7, <2>4, SlaveBehind DEF Unbroken
  <2>6. Up(Slave) /\ AllKept => AllKept'
    BY <1>1, <1>2, <1>3, <1>4, <1>7, WorkerKeeps
  <2> QED
    BY <1>3, <1>5, <1>7, <2>4, <2>5, <2>6 DEF Unbroken
\* What the slave's worker does.
<1>8. ASSUME e = Slave, Up(Master) PROVE LastFrameUnderWay' \/ AllKept'
  <2>1. AllKept => AllKept'
    BY <1>1, <1>2, <1>3, <1>4, <1>8, WorkerKeeps
  <2>2. ASSUME LastFrameUnderWay, ~AllKept, ~(Receive(e) /\ Receives(e))
        PROVE  LastFrameUnderWay'
    <3>1. fabric'[Slave] = fabric[Slave]
      BY <1>1, <1>2, <1>4, <1>8, <2>2 DEF Transmits, Computes, linkVars, TypeOK
    <3> QED
      BY <2>2, <3>1 DEF LastFrameUnderWay
  <2>3. ASSUME LastFrameUnderWay, ~AllKept, Receive(e), Receives(e)
        PROVE  LastFrameUnderWay' \/ AllKept'
    <3>1. fabric[Slave] # <<>> /\ fabric'[Slave] = Tail(fabric[Slave])
      BY <1>8, <2>3 DEF Receives
    <3>2. SUFFICES ASSUME Numbered(Arrived(Slave)), Arrived(Slave).seq_num = 2 PROVE AllKept'
      BY <1>2, <1>6, <2>3, <3>1, UnderWayTaken DEF Arrived
    <3>3. /\ next_rx_seq[Slave] = 2
          /\ next_tx_seq[Master] = First(Master) + Len(retransmit_buffer[Master])
      <4>1. StreamOf(Least(Slave), First(Master), Master)
        BY <1>2, AliveParts
      <4>2. Awaits(Least(Slave), First(Master), next_tx_seq[Master], next_rx_seq[Slave],
                   retransmit_buffer[Master], ack_buffer[Slave])
        BY <1>2, <2>3, <4>1 DEF StreamOf, Stream, AllKept
      <4>3. Least(Slave) = 2 /\ First(Master) = 3
        BY <1>2, <1>3, <1>8, SMT DEF Up, Least, First
      <4>4. next_rx_seq[Slave] \in 2 .. 3 - 1
        BY <4>2, <4>3 DEF Awaits
      <4> QED
        BY <4>2, <4>4, SMT DEF Awaits
    <3>4. First(Master) = 3
      BY <1>2, <1>8, SMT DEF Up, First
    <3>5. Arrived(Slave) = Arrived(e)
      BY <1>8
    <3>6. next_rx_seq'[Slave] = 3
      BY <1>2, <1>8, <2>3, <3>1, <3>2, <3>3, <3>5, AcceptsAwaited, PrevNumbers
    <3>7. /\ next_tx_seq'[Master] = next_tx_seq[Master]
          /\ retransmit_buffer'[Master] = retransmit_buffer[Master]
      BY <1>1, <1>2, <1>4, <1>8 DEF Kept
    <3>8. next_tx_seq[Master] \in SeqNum /\ Len(retransmit_buffer[Master]) \in Nat
      BY <1>2, LinkTypes
    <3>9. Dist(3, next_tx_seq[Master]) = Len(retransmit_buffer[Master])
      BY <3>3, <3>4, <3>8, SMT DEF Dist, SeqNum
    <3> QED
      BY <3>6, <3>7, <3>8, <3>9, SMT DEF AllKept
  <2> QED
    BY <1>3, <1>8, <2>1, <2>2, <2>3 DEF Unbroken
<1>9. e = Master \/ e = Slave
  BY BothEnds
<1> QED
  BY <1>3, <1>5, <1>7, <1>8, <1>9 DEF Unbroken

\* The frame a slave takes, or drops, while it opens is the one it waits for.
LEMMA SlaveReads ==
  ASSUME RoomForHandshake, TypeOK, ConnVarsType, RestInv, Alive, Unbroken, Opening(Slave),
         fabric[Slave] # <<>>, NEW f, f = Arrived(Slave)
  PROVE  /\ f.seq_num = next_rx_seq[Slave] /\ next_rx_seq[Slave] \in {0, 1}
         /\ f.seq_num = 0 => f.type = "OPEN_CONNECTION"
         /\ f.seq_num = 1 => conn_flag[Slave]
         /\ f.seq_num # FIRST_SEQ
<1>1. NotUp(Slave) /\ ~Up(Slave)
  BY BothEnds, OpeningFacts
<1>2. next_rx_seq[Slave] \in {0, 1} /\ HandshakeStarts
  BY <1>1 DEF NotUp, Taken, Unbroken
<1>3. 1 \in DOMAIN fabric[Slave] /\ fabric[Slave][1] = f
  BY BothEnds, TailElements DEF Arrived, TypeOK
<1>4. f.seq_num = next_rx_seq[Slave] /\ (f.seq_num = 1 => conn_flag[Slave])
  BY <1>2, <1>3 DEF HandshakeStarts
<1>5. ASSUME f.seq_num = 0 PROVE f.type = "OPEN_CONNECTION"
  <2>1. HandshakeFrame(Master, f) \/ LateFrame(f)
    BY <1>1, <1>3, BothEnds DEF NotUp, HandshakeFirst, Handshaking
  <2>2. ~LateFrame(f)
    BY <1>5, BothEnds, SMT DEF LateFrame
  <2> QED
    BY <1>5, <2>1, <2>2, HandshakeFrameParts
<1>6. 0 # 2 /\ 1 # 2
  OBVIOUS
<1> QED
  BY <1>2, <1>4, <1>5, <1>6, BothEnds

\* A step that leaves alone what the slave reads.
LEMMA UnbrokenKept ==
  ASSUME Unbroken, fabric'[Slave] = fabric[Slave], next_rx_seq'[Slave] = next_rx_seq[Slave],
         conn_flag'[Slave] = conn_flag[Slave], Up(Slave)' <=> Up(Slave), Up(Master)' => Up(Master),
         Up(Master) /\ Up(Slave) => UNCHANGED <<next_tx_seq, retransmit_buffer>>
  PROVE  Unbroken'
BY DEF Unbroken, HandshakeStarts, LastFrameUnderWay, AllKept

LEMMA CommandUnbroken ==
  ASSUME RoomForHandshake, TypeOK, ConnVarsType, Alive, Alive', Unbroken, NEW e \in Endpoint,
         Open(e) \/ Close(e) \/ Quit(e) \/ tloe_endpoint_close(e)
  PROVE  Unbroken'
<1>1. UNCHANGED <<fabric, next_rx_seq, next_tx_seq, retransmit_buffer>>
  BY DEF Open, Close, Quit, tloe_endpoint_close, vars, linkVars
<1>2. CASE Close(e)
  <2>1. main'[e] = "closing"
    BY <1>2 DEF Close, ConnVarsType
  <2> QED
    BY <2>1 DEF Alive, Fresh, Opening, Up
<1>3. CASE Quit(e) \/ tloe_endpoint_close(e)
  <2>1. /\ UNCHANGED <<connection, conn_flag, opens>>
        /\ \A q \in Endpoint : main'[q] = main[q] \/ main'[q] \in {"quitting", "gone"}
    BY <1>3 DEF Quit, tloe_endpoint_close, ConnVarsType
  <2>2. \A q \in Endpoint : Up(q)' <=> Up(q)
    <3>1. ASSUME NEW q \in Endpoint, Up(q)' PROVE Up(q)
      <4>1. ~Fresh(q) /\ ~Opening(q)
        BY <2>1, <3>1 DEF Up, Fresh, Opening
      <4> QED
        BY <4>1, AliveParts
    <3>2. ASSUME NEW q \in Endpoint, Up(q) PROVE Up(q)'
      BY <2>1, <3>2 DEF Up
    <3> QED
      BY <3>1, <3>2
  <2> QED
    BY <1>1, <2>1, <2>2, BothEnds, UnbrokenKept
<1>4. CASE Open(e)
  <2>1. /\ main[e] = "idle" /\ ~connection[e] /\ UNCHANGED connection
        /\ \A q \in Endpoint : q # e => main'[q] = main[q] /\ conn_flag'[q] = conn_flag[q]
                                         /\ opens'[q] = opens[q]
    BY <1>4 DEF Open, ConnVarsType
  <2>2. \A q \in Endpoint : Up(q)' <=> Up(q)
    BY <2>1 DEF Up
  <2>3. CASE e = Master
    BY <1>1, <2>1, <2>2, <2>3, BothEnds, UnbrokenKept
  <2>4. CASE e = Slave
    <3>1. Fresh(Slave)
      BY <2>1, <2>4, AliveParts DEF Opening, Up
    <3>2. next_rx_seq[Slave] = 0 /\ ~Up(Slave)
      BY <3>1 DEF Fresh, Up
    <3>3. HandshakeStarts'
      BY <1>1, <3>2, SMT DEF Unbroken, HandshakeStarts
    <3> QED
      BY <1>1, <2>2, <3>2, <3>3, BothEnds DEF Unbroken, LastFrameUnderWay
  <2> QED
    BY <2>3, <2>4, BothEnds
<1> QED
  BY <1>2, <1>3, <1>4

LEMMA ServeUnbroken ==
  ASSUME RoomForHandshake, TypeOK, ConnVarsType, NoFrameLost', Alive, Unbroken,
         NEW e \in Endpoint, serve_conn(e)
  PROVE  Unbroken'
<1>1. /\ fabric' = ToPeer(e, ServeFrames(e)) /\ main[e] = "opening"
      /\ UNCHANGED <<connection, main, conn_flag, opens, next_rx_seq, retransmit_buffer>>
  BY DEF serve_conn, trafficVars
<1>2. /\ \A q \in Endpoint : Up(q)' <=> Up(q)
      /\ ~Up(e)
  BY <1>1 DEF Up
<1>3. CASE e = Master
  <2> DEFINE new == ServeFrames(Master)
  <2>1. new \in Seq(Frame)
    BY <1>3, ServeFramesParts
  <2>2. Len(new) >= 2 /\ new[1].seq_num = 0 /\ new[2].seq_num = 1
    BY ChannelOrderType, SMT DEF ServeFrames, ConnFrame, ChannelOrder
  <2>3. fabric'[Slave] = SendAll(fabric[Slave], new)
    BY <1>1, <1>3, BothEnds DEF ToPeer, TypeOK
  <2>4. fabric[Slave] \in Seq(Frame) /\ Len(fabric'[Slave]) < FABRIC_CAP
    BY BothEnds DEF TypeOK, NoFrameLost
  <2> HIDE DEF new
  <2>5. HandshakeStarts => HandshakeStarts'
    BY <1>1, <2>1, <2>2, <2>3, <2>4, StartsGrow
  <2> QED
    BY <1>2, <1>3, <2>5, BothEnds DEF Unbroken
<1>4. CASE e = Slave
  <2>1. fabric'[Slave] = fabric[Slave]
    BY <1>1, <1>4, BothEnds DEF ToPeer, TypeOK
  <2> QED
    BY <1>1, <1>2, <1>4, <2>1, BothEnds, UnbrokenKept
<1> QED
  BY <1>3, <1>4, BothEnds

LEMMA DropUnbroken ==
  ASSUME RoomForHandshake, TypeOK, ConnVarsType, RestInv, Alive, Unbroken, NEW e \in Endpoint,
         recv_conn_Drop(e)
  PROVE  Unbroken'
<1>1. /\ main[e] = "opening" /\ fabric[e] # <<>> /\ ~Takes(e, Arrived(e)) /\ fabric' = Consume(e)
      /\ UNCHANGED <<next_tx_seq, next_rx_seq, connection, main, conn_flag, opens>>
      /\ UNCHANGED retransmit_buffer
  BY DEF recv_conn_Drop, recv_conn, trafficVars
<1>2. \A q \in Endpoint : Up(q)' <=> Up(q)
  BY <1>1 DEF Up
<1>3. CASE e = Master
  <2>1. fabric'[Slave] = fabric[Slave]
    BY <1>1, <1>3, BothEnds DEF Consume, TypeOK
  <2> QED
    BY <1>1, <1>2, <2>1, BothEnds, UnbrokenKept
\* The slave drops none.
<1>4. CASE e = Slave
  <2>1. Opening(Slave)
    BY <1>1, <1>4, AliveParts DEF Fresh, Up
  <2>2. Arrived(Slave).type = "OPEN_CONNECTION" \/ conn_flag[Slave]
    BY <1>1, <1>4, <2>1, SlaveReads
  <2> QED
    BY <1>1, <1>4, <2>2, BothEnds DEF Takes
<1> QED
  BY <1>3, <1>4, BothEnds

LEMMA MoreUnbroken ==
  ASSUME RoomForHandshake, TypeOK, ConnVarsType, RestInv, Alive, Alive', Unbroken,
         NEW e \in Endpoint, recv_conn_More(e)
  PROVE  Unbroken'
<1>1. PICK f : f = Arrived(e)
  OBVIOUS
<1>2. PICK p \in Endpoint : p = Peer(e) /\ p # e
  BY Peers
<1>3. /\ recv_conn_Take(e) /\ fabric' = Consume(e)
      /\ UNCHANGED <<next_tx_seq, connection, main>>
  BY DEF recv_conn_More
<1>4. /\ Opening(e) /\ fabric[e] # <<>> /\ f = Head(fabric[e])
      /\ next_rx_seq[e] \in {0, 1}
  BY <1>1, <1>2, <1>3, TakenFrame
<1>5. /\ next_rx_seq'[e] = tloe_seqnum_next(f.seq_num) /\ next_rx_seq'[p] = next_rx_seq[p]
      /\ conn_flag'[e] = (conn_flag[e] \/ f.type = "OPEN_CONNECTION")
      /\ conn_flag'[p] = conn_flag[p]
      /\ UNCHANGED <<retransmit_buffer, opens>>
  BY <1>1, <1>2, <1>3, TakeEffect
<1>6. \A q \in Endpoint : (Up(q)' <=> Up(q)) /\ (Opening(q)' <=> Opening(q))
  BY <1>3, <1>5 DEF Up, Opening
<1>7. CASE e = Master
  <2>1. fabric'[Slave] = fabric[Slave] /\ p = Slave
    BY <1>2, <1>3, <1>7, BothEnds DEF Consume, TypeOK
  <2> QED
    BY <1>3, <1>5, <1>6, <2>1, BothEnds, UnbrokenKept
\* The slave takes the master's first frame and now waits for its second.
<1>8. CASE e = Slave
  <2> DEFINE q == fabric[Slave]
             rest == Tail(q)
  <2>1. /\ f.seq_num = next_rx_seq[Slave] /\ next_rx_seq[Slave] \in {0, 1}
        /\ f.seq_num = 0 => f.type = "OPEN_CONNECTION"
        /\ f.seq_num # FIRST_SEQ
    BY <1>1, <1>4, <1>8, SlaveReads
  <2>2. ~Up(Slave) /\ ~Up(Slave)' /\ NotUp(Slave)'
    BY <1>4, <1>6, <1>8, BothEnds DEF Opening, Up, Alive
  <2>3. next_rx_seq'[Slave] \in {0, 1}
    BY <2>2 DEF NotUp, Taken
  <2>4. next_rx_seq[Slave] = 0 /\ next_rx_seq'[Slave] = 1
    <3>1. 2 \notin {0, 1}
      OBVIOUS
    <3> QED
      BY <1>5, <1>8, <2>1, <2>3, <3>1, PrevNumbers
  <2>5. conn_flag'[Slave]
    BY <1>5, <1>8, <2>1, <2>4
  <2>6. q[1].seq_num = 0 /\ Len(q) >= 2 /\ q[2].seq_num = 1
    BY <1>4, <1>8, <2>2, <2>4 DEF Unbroken, HandshakeStarts
  <2>7. q \in Seq(Frame) /\ q # <<>> /\ fabric'[Slave] = rest
    BY <1>3, <1>4, <1>8, BothEnds DEF Consume, TypeOK
  <2>8. rest # <<>> /\ rest[1].seq_num = 1
    <3>1. /\ rest \in Seq(Frame) /\ Len(rest) = Len(q) - 1
          /\ \A k \in 1 .. Len(rest) : rest[k] = q[k + 1]
      BY <2>7, HeadTailProperties
    <3>2. Len(q) \in Nat
      BY <2>7, LenProperties
    <3> HIDE DEF q, rest
    <3>3. Len(rest) >= 1 /\ rest[1] = q[2]
      BY <2>6, <3>1, <3>2, SMT
    <3>4. rest # <<>>
      BY <3>3, EmptySeq, SMT
    <3> QED
      BY <2>6, <3>3, <3>4
  <2>9. HandshakeStarts'
    BY <2>4, <2>5, <2>7, <2>8, SMT DEF HandshakeStarts
  <2>10. LastFrameUnderWay => LastFrameUnderWay'
    BY <1>1, <1>4, <1>8, <2>1, <2>7, UnderWayTaken
  <2> QED
    BY <1>6, <2>2, <2>9, <2>10, BothEnds DEF Unbroken
<1> QED
  BY <1>7, <1>8, BothEnds

\* The master's last frame is sent, or the slave takes the last it needs.
LEMMA DoneUnbroken ==
  ASSUME RoomForHandshake, TypeOK, ConnVarsType, RestInv, NoFrameLost', Alive, Unbroken,
         NEW e \in Endpoint, recv_conn_Done(e)
  PROVE  Unbroken'
<1>1. PICK f : f = Arrived(e)
  OBVIOUS
<1>2. PICK p \in Endpoint : p = Peer(e) /\ p # e
  BY Peers
<1>3. /\ recv_conn_Take(e)
      /\ fabric' = [fabric EXCEPT ![e] = Tail(@),
                       ![p] = SendAll(@, <<LastFrame(e, next_rx_seq'[e])>>)]
      /\ connection' = [connection EXCEPT ![e] = TRUE]
      /\ main' = [main EXCEPT ![e] = "idle"]
  BY <1>2 DEF recv_conn_Done
<1>4. /\ Opening(e) /\ fabric[e] # <<>> /\ f = Head(fabric[e])
      /\ ~Up(p) => next_tx_seq[p] = 2
  BY <1>1, <1>2, <1>3, TakenFrame
<1>5. /\ next_rx_seq'[p] = next_rx_seq[p] /\ conn_flag'[p] = conn_flag[p]
      /\ next_rx_seq'[e] = tloe_seqnum_next(f.seq_num) /\ f \in Frame
      /\ UNCHANGED <<retransmit_buffer, opens>>
  BY <1>1, <1>2, <1>3, TakeEffect, TakenFrame
<1>6. Up(e)' /\ (Up(p)' <=> Up(p)) /\ ~Up(e)
  BY <1>2, <1>3, <1>4, <1>5 DEF Up, Opening, ConnVarsType
<1>7. CASE e = Master
  <2>1. p = Slave
    BY <1>2, <1>7, BothEnds
  <2>2. next_tx_seq[Master] = 2
    <3>1. CASE Up(Slave)
      BY <1>4, <1>7, <2>1, <3>1, BothEnds, OpeningFacts
    <3>2. CASE ~Up(Slave)
      <4>1. next_rx_seq[Slave] = 1
        BY <1>4, <2>1, <3>2, SlaveAnswered
      <4>2. Served(Master)
        BY <1>6, <1>7, BothEnds DEF Alive, NotUp
      <4> QED
        BY <4>1, <4>2, BothEnds, SMT DEF Served
    <3> QED
      BY <3>1, <3>2
  <2> DEFINE last == LastFrame(Master, next_rx_seq'[Master])
             new == <<last>>
  <2>3. last.seq_num = FIRST_SEQ /\ Numbered(last)
    BY <2>2, BothEnds DEF LastFrame, ConnFrame, Numbered
  <2>4. new \in Seq(Frame)
    <3>1. next_rx_seq'[Master] \in SeqNum /\ next_tx_seq[Master] \in SeqNum
      BY <1>5, <1>7, BothEnds, NextPrev DEF Frame, TypeOK
    <3>2. last \in Frame
      <4>1. last = ConnFrame("NORMAL", next_tx_seq[Master], next_rx_seq'[Master], 0, 0)
        BY DEF LastFrame
      <4>2. 0 \in Channel \cup {0} /\ 0 \in Nat
        BY SMT
      <4> HIDE DEF last
      <4> QED
        BY <3>1, <4>1, <4>2, ConnFrameType
    <3> HIDE DEF last
    <3> QED
      BY <3>2, SMT
  <2>5. fabric'[Slave] = SendAll(fabric[Slave], new) /\ fabric[Slave] \in Seq(Frame)
    BY <1>2, <1>3, <1>7, <2>1, BothEnds DEF TypeOK
  <2>6. Len(fabric'[Slave]) < FABRIC_CAP
    BY BothEnds DEF NoFrameLost
  <2>7. LastFrameUnderWay'
    <3>1. Len(SendAll(fabric[Slave], new)) < FABRIC_CAP
      BY <2>5, <2>6
    <3> HIDE DEF last
    <3>2. 1 \in DOMAIN new /\ new[1] = last
      BY SMT
    <3> HIDE DEF new
    <3>3. \E i \in DOMAIN SendAll(fabric[Slave], new) : SendAll(fabric[Slave], new)[i] = new[1]
      BY <2>4, <2>5, <3>1, <3>2, SentIsThere
    <3> QED
      BY <2>3, <2>5, <3>2, <3>3 DEF LastFrameUnderWay
  <2>8. ~Up(Slave) => HandshakeStarts'
    <3>1. ASSUME ~Up(Slave) PROVE next_rx_seq[Slave] = 1 /\ HandshakeStarts
      BY <1>4, <2>1, <3>1, SlaveAnswered DEF Unbroken
    <3> HIDE DEF new
    <3> QED
      BY <1>5, <2>1, <2>4, <2>5, <2>6, <3>1, StartsGrow
  <2> QED
    BY <1>6, <2>1, <2>7, <2>8 DEF Unbroken
<1>8. CASE e = Slave
  <2>1. p = Master /\ fabric'[Slave] = Tail(fabric[Slave]) /\ fabric[Slave] \in Seq(Frame)
    BY <1>2, <1>3, <1>8, BothEnds DEF TypeOK
  <2>2. f.seq_num # FIRST_SEQ
    BY <1>1, <1>4, <1>8, SlaveReads
  <2>3. LastFrameUnderWay => LastFrameUnderWay'
    BY <1>4, <1>8, <2>1, <2>2, UnderWayTaken
  <2> QED
    BY <1>6, <1>8, <2>1, <2>3 DEF Unbroken
<1> QED
  BY <1>7, <1>8, BothEnds

LEMMA UnbrokenStep ==
  ASSUME RoomForHandshake, TypeOK, ConnVarsType, RestInv, WindowInv, AckBufferFresh, TypeOK',
         WindowInv', NoFrameLost, NoFrameLost', Alive, Alive', Unbroken, [ConnNext]_allVars
  PROVE  Unbroken'
<1>1. ASSUME NEW e \in Endpoint, OpenStep(e) PROVE Unbroken'
  BY <1>1, ServeUnbroken, DropUnbroken, MoreUnbroken, DoneUnbroken DEF OpenStep
<1>2. ASSUME NEW e \in Endpoint PROVE ~Lose(e)
  BY SMT DEF Lose, NoFrameLost
<1>3. CASE UNCHANGED allVars
  <2>1. /\ UNCHANGED <<fabric, next_rx_seq, next_tx_seq, retransmit_buffer>>
        /\ UNCHANGED <<connection, main, conn_flag, opens>>
    BY <1>3 DEF allVars, vars, linkVars, connVars
  <2>2. \A q \in Endpoint : Up(q)' <=> Up(q)
    BY <2>1 DEF Up
  <2> QED
    BY <2>1, <2>2, BothEnds, UnbrokenKept
<1> QED
  BY <1>1, <1>2, <1>3, CommandUnbroken, WorkerUnbroken, NoCloseAlive DEF ConnNext, MainThread

LEMMA UnbrokenInvStep ==
  ASSUME RoomForHandshake, CLOSE_UNCONNECTED = FALSE, TypeOK, ConnVarsType, RestInv, WindowInv,
         AckBufferFresh, TypeOK', WindowInv', NoFrameLost, NoFrameLost', UnbrokenInv,
         [ConnNext]_allVars
  PROVE  UnbrokenInv'
<1>1. SUFFICES ASSUME FirstOpen' PROVE Doomed' \/ (Alive' /\ Unbroken')
  BY DEF UnbrokenInv
<1>2. Doomed \/ (Alive /\ Unbroken)
  BY <1>1, OpensStep DEF UnbrokenInv
<1> QED
  BY <1>1, <1>2, DoomedStep, AliveStep, UnbrokenStep

LEMMA UnbrokenInvInit ==
  ASSUME RoomForHandshake, ConnInit
  PROVE  UnbrokenInv
<1>1. \A e \in Endpoint : fabric[e] = <<>> /\ next_rx_seq[e] = 0 /\ ~connection[e]
  BY DEF ConnInit
<1>2. ~Up(Master) /\ HandshakeStarts
  BY <1>1, BothEnds, SMT DEF Up, HandshakeStarts
<1> QED
  BY <1>2, OpenInvInit DEF UnbrokenInv, OpenInv, Unbroken

\* What the receiver waits for comes or can be sent again.
LEMMA UnbrokenReaches ==
  ASSUME RoomForHandshake, TypeOK, WindowInv, UnbrokenInv, FirstOpen
  PROVE  NextFrameReachable
<1>1. SUFFICES ASSUME Connected PROVE NextFrameReachable
  BY DEF NextFrameReachable
<1>2. Alive /\ Unbroken
  BY <1>1 DEF UnbrokenInv, Doomed, Connected, Closed, Hopeless, Opening
<1>3. \A e \in Endpoint : Up(e) /\ connection[e]
  BY <1>1, <1>2 DEF Connected, Alive, Fresh, Opening
<1>4. ASSUME NEW e \in Endpoint
      PROVE  LET p == Peer(e)
             IN  \/ Dist(next_rx_seq[p], next_tx_seq[e]) <= Len(retransmit_buffer[e])
                 \/ \E i \in DOMAIN fabric[p] : /\ fabric[p][i].type # "ACKONLY"
                                                /\ fabric[p][i].seq_num = next_rx_seq[p]
  <2>1. PICK p \in Endpoint : p = Peer(e)
    BY Peers
  <2>2. SUFFICES ASSUME ~(Dist(next_rx_seq[p], next_tx_seq[e]) <= Len(retransmit_buffer[e]))
                 PROVE  \E i \in DOMAIN fabric[p] : /\ fabric[p][i].type # "ACKONLY"
                                                    /\ fabric[p][i].seq_num = next_rx_seq[p]
    BY <2>1
  <2>3. Least(p) = 2 /\ First(e) = IF e = Master THEN 3 ELSE 2
    BY <1>3, BothEnds, SMT DEF Least, First
  <2>4. StreamOf(Least(p), First(e), e)
    BY <1>2, <2>1, AliveParts
  <2>5. next_rx_seq[p] \in 2 .. First(e) - 1
    BY <2>1, <2>2, <2>3, <2>4 DEF StreamOf, Stream, Awaits
  <2>6. e = Master /\ next_rx_seq[p] = 2
    BY <2>3, <2>5, SMT
  <2>7. p = Slave
    BY <2>1, <2>6, BothEnds
  <2>8. LastFrameUnderWay
    BY <1>2, <1>3, <2>2, <2>6, <2>7, BothEnds DEF Unbroken, AllKept
  <2> QED
    BY <2>6, <2>7, <2>8, BothEnds DEF LastFrameUnderWay, Numbered
<1> QED
  BY <1>4 DEF NextFrameReachable

-----------------------------------------------------------------------------
\* Where no frame is lost, the first connection can always make progress,
\* however often the handshake was repeated: the frame an endpoint waits for is
\* kept to be sent again or under way.  (The last frame of open_conn_master is
\* sent once and kept nowhere.  With it lost this is false: conn_wedged.)
THEOREM FirstConnectionGoesOn ==
  ASSUME RoomForHandshake, CLOSE_UNCONNECTED = FALSE
  PROVE  ConnSpec /\ []AckBufferFresh /\ []NoFrameLost => [](FirstOpen => NextFrameReachable)
BY UnbrokenInvInit, UnbrokenInvStep, UnbrokenReaches, ConnRestInit, ConnTypeStep, ConnVarsStep,
   RestStep, ConnWindowStep, PTL DEF ConnSpec

-----------------------------------------------------------------------------
(***************************************************************************)
(* The credit of the first connection                                       *)
(***************************************************************************)
\* What a numbered frame carries that its receiver has yet to accept: what the
\* window keeps for it or, where it is in no window, what a handshake says.
\* Its first frames set credit and are for the open loops; its last is blank.
Blank(f) == f.chan = 0 /\ f.tlmsg = NoMsg

SaysSame(f, next, missing, buffer) ==
    LET age == Dist(f.seq_num, next)
    IN  Numbered(f) /\ age <= missing =>
           IF age <= Len(buffer) THEN ElementOf(f) = buffer[Len(buffer) - age + 1]
                                 ELSE f.seq_num < FIRST_SEQ \/ Blank(f)

CarriedFrom(e) ==
    \A i \in DOMAIN fabric[Peer(e)] :
        SaysSame(fabric[Peer(e)][i], next_tx_seq[e], Unseen(e), retransmit_buffer[e])

Contents == \A e \in Endpoint : CarriedFrom(e)

\* An endpoint not connected yet owes no credit, and believes in what it starts
\* with or what the handshake says.
CreditBefore ==
    \A e \in Endpoint : ~connection[e] =>
        /\ tx_flow_credits[e] = [c \in Channel |-> 0]
        /\ \A c \in Channel : credits[e][c] \in {CREDIT_INIT, CREDIT}

\* Of the connected ones, no credit is made; or all of it is there.
CreditSoFar == \A e \in Endpoint : connection[e] => \A c \in Channel : CreditNow(e, c) <= CREDIT
CreditThere == \A e \in Endpoint : connection[e] => \A c \in Channel : CreditNow(e, c) = CREDIT

\* The receiver misses less.
LEMMA CarriedFewer ==
  ASSUME NEW f, f.seq_num \in SeqNum, NEW next \in SeqNum, NEW missing \in Nat,
         NEW fewer \in Nat, fewer <= missing, NEW buffer, SaysSame(f, next, missing, buffer)
  PROVE  SaysSame(f, next, fewer, buffer)
<1>1. Dist(f.seq_num, next) \in Nat
  BY MissingType
<1>2. Dist(f.seq_num, next) <= fewer => Dist(f.seq_num, next) <= missing
  BY <1>1, SMT
<1> QED
  BY <1>2 DEF SaysSame

\* The sender repeats what it keeps.
LEMMA CarriedCopy ==
  ASSUME NEW buffer \in Seq(Element), NEW next \in SeqNum, IsWindow(buffer, next), NEW f,
         NEW i \in DOMAIN buffer, ElementOf(f) = buffer[i], NEW missing
  PROVE  SaysSame(f, next, missing, buffer)
<1> DEFINE L == Len(buffer)
           age == Dist(f.seq_num, next)
<1>1. L \in Nat /\ i \in 1 .. L
  BY LenProperties
<1>2. age = L - i + 1
  <2>1. f.seq_num = buffer[i].seq_num
    BY DEF ElementOf
  <2> QED
    BY <2>1 DEF IsWindow
<1> HIDE DEF L, age
<1>3. age <= L /\ L - age + 1 = i
  BY <1>1, <1>2, SMT
<1> QED
  BY <1>3 DEF SaysSame, L, age

\* The sender numbers a frame and keeps it (TX), ...
LEMMA CarriedNext ==
  ASSUME NEW f, f.seq_num \in SeqNum, NEW next \in SeqNum, NEW missing \in Nat,
         NEW buffer \in Seq(Element), NEW x \in Element,
         Numbered(f) => Dist(f.seq_num, next) \in 1 .. SEQ_MOD - 2,
         SaysSame(f, next, missing, buffer)
  PROVE  SaysSame(f, tloe_seqnum_next(next), missing + 1, Append(buffer, x))
<1> DEFINE L == Len(buffer)
           more == Append(buffer, x)
           age == Dist(f.seq_num, next)
           older == Dist(f.seq_num, tloe_seqnum_next(next))
<1> SUFFICES ASSUME Numbered(f), older <= missing + 1
             PROVE  IF older <= Len(more) THEN ElementOf(f) = more[Len(more) - older + 1]
                                          ELSE f.seq_num < FIRST_SEQ \/ Blank(f)
  BY DEF SaysSame
<1>1. age \in 1 .. SEQ_MOD - 2 /\ older = age + 1
  <2>1. age \in 1 .. SEQ_MOD - 2
    OBVIOUS
  <2>2. age < SEQ_MOD - 1
    BY <2>1, SeqModAssumption, SMT
  <2> QED
    BY <2>1, <2>2, DistStep
<1>2. L \in Nat /\ Len(more) = L + 1 /\ \A i \in 1 .. L : more[i] = buffer[i]
  BY LenProperties, AppendProperties
<1> HIDE DEF older, more, L
<1>3. IF age <= L THEN ElementOf(f) = buffer[L - age + 1] ELSE f.seq_num < FIRST_SEQ \/ Blank(f)
  <2>1. age <= missing
    <3> HIDE DEF age
    <3> QED
      BY <1>1, SeqModAssumption, SMT
  <2> QED
    BY <2>1 DEF SaysSame, L
<1> HIDE DEF age
<1>4. age \in Nat /\ age >= 1
  BY <1>1, SeqModAssumption, SMT
<1>5. CASE age <= L
  <2>1. older <= Len(more) /\ Len(more) - older + 1 = L - age + 1 /\ L - age + 1 \in 1 .. L
    BY <1>1, <1>2, <1>4, <1>5, SMT
  <2> QED
    BY <1>2, <1>3, <1>5, <2>1
<1>6. CASE ~ age <= L
  <2>1. ~ older <= Len(more)
    BY <1>1, <1>2, <1>4, <1>6, SMT
  <2> QED
    BY <1>3, <1>6, <2>1
<1> QED
  BY <1>5, <1>6

\* ... or, as the last of its handshake, does not.
LEMMA CarriedLast ==
  ASSUME NEW f, f.seq_num \in SeqNum, NEW next \in SeqNum, NEW missing \in Nat,
         Numbered(f) => Dist(f.seq_num, next) \in 1 .. SEQ_MOD - 2,
         SaysSame(f, next, missing, <<>>)
  PROVE  SaysSame(f, tloe_seqnum_next(next), missing + 1, <<>>)
<1> DEFINE age == Dist(f.seq_num, next)
           older == Dist(f.seq_num, tloe_seqnum_next(next))
<1>1. Len(<<>>) = 0
  BY EmptySeq
<1> SUFFICES ASSUME Numbered(f), older <= missing + 1
             PROVE  ~ older <= 0 /\ (f.seq_num < FIRST_SEQ \/ Blank(f))
  BY <1>1 DEF SaysSame
<1>2. age \in 1 .. SEQ_MOD - 2 /\ older = age + 1
  <2>1. age \in 1 .. SEQ_MOD - 2
    OBVIOUS
  <2>2. age < SEQ_MOD - 1
    BY <2>1, SeqModAssumption, SMT
  <2> QED
    BY <2>1, <2>2, DistStep
<1> HIDE DEF older
<1>3. age <= missing /\ ~ age <= 0 /\ ~ older <= 0
  <2> HIDE DEF age
  <2> QED
    BY <1>2, SeqModAssumption, SMT
<1> QED
  BY <1>1, <1>3 DEF SaysSame

\* The window slides, and keeps what the receiver misses.
LEMMA CarriedSlid ==
  ASSUME NEW f, f.seq_num \in SeqNum, NEW next \in SeqNum, NEW missing \in Nat,
         NEW buffer \in Seq(Element), NEW n, NEW left, left = slide_window(buffer, n),
         missing <= Len(left) \/ left = buffer,
         Numbered(f) => Dist(f.seq_num, next) \in 1 .. SEQ_MOD - 2,
         SaysSame(f, next, missing, buffer)
  PROVE  SaysSame(f, next, missing, left)
<1> DEFINE I == {i \in DOMAIN buffer : tloe_seqnum_cmp(buffer[i].seq_num, n) > 0}
           L == Len(buffer)
           K == Len(left)
           age == Dist(f.seq_num, next)
<1>1. /\ left \in Seq(Element) /\ K <= L
      /\ \A i \in 1 .. K : left[i] = buffer[L - K + i]
  <2>1. left = SuffixFrom(buffer, I) /\ I \subseteq DOMAIN buffer
    BY DEF slide_window
  <2> HIDE DEF I
  <2> QED
    BY <2>1, SuffixFromType
<1>2. L \in Nat /\ K \in Nat
  BY <1>1, LenProperties
<1>3. SUFFICES ASSUME Numbered(f), age <= missing, missing <= K
               PROVE  age <= K /\ ElementOf(f) = left[K - age + 1]
  BY DEF SaysSame
<1>4. age \in 1 .. SEQ_MOD - 2
  BY <1>3
<1> HIDE DEF L, K
<1>5. age <= K /\ age <= L /\ K - age + 1 \in 1 .. K /\ L - K + (K - age + 1) = L - age + 1
  <2> HIDE DEF age
  <2> QED
    BY <1>1, <1>2, <1>3, <1>4, SeqModAssumption, SMT
<1>6. ElementOf(f) = buffer[L - age + 1]
  BY <1>3, <1>5 DEF SaysSame, L
<1> QED
  BY <1>1, <1>5, <1>6

\* How far what is under way, and what its receiver misses, reaches back.
LEMMA AliveAges ==
  ASSUME RoomForHandshake, TypeOK, WindowInv, Alive, NEW e \in Endpoint
  PROVE  /\ Unseen(e) \in Nat /\ Unseen(e) <= SPAN + 1 /\ Unseen(e) < HALF_MAX_SEQ_NUM
         /\ \A i \in DOMAIN fabric[Peer(e)] :
               LET f == fabric[Peer(e)][i]
               IN  /\ f \in Frame /\ f.seq_num \in SeqNum
                   /\ Numbered(f) => Dist(f.seq_num, next_tx_seq[e]) \in 1 .. SEQ_MOD - 2
         /\ \/ Unseen(e) <= Len(retransmit_buffer[e])
            \/ /\ next_rx_seq[Peer(e)] >= Least(Peer(e))
               /\ next_tx_seq[e] = First(e) + Len(retransmit_buffer[e])
<1>1. PICK p \in Endpoint : p = Peer(e)
  BY Peers
<1>2. /\ next_tx_seq[e] \in SeqNum /\ next_rx_seq[p] \in SeqNum /\ fabric[p] \in Seq(Frame)
      /\ Len(retransmit_buffer[e]) \in Nat /\ Len(retransmit_buffer[e]) <= WINDOW_SIZE
  BY <1>1, LinkTypes
<1>3. PICK least \in {0, 2} : least = Least(p)
  BY <1>1, AliveParts
<1>4. PICK first \in {2, 3} : first = First(e)
  BY <1>1, AliveParts
<1>5. Stream(least, first, next_tx_seq[e], next_rx_seq[p], retransmit_buffer[e], fabric[p],
             fabric[e], ack_buffer[p])
  BY <1>1, <1>3, <1>4, AliveParts DEF StreamOf
<1> DEFINE missing == Dist(next_rx_seq[p], next_tx_seq[e])
<1>6. /\ missing \in Nat /\ missing <= SPAN + 1 /\ missing + SPAN < HALF_MAX_SEQ_NUM
      /\ missing <= Len(retransmit_buffer[e])
           \/ Awaits(least, first, next_tx_seq[e], next_rx_seq[p], retransmit_buffer[e],
                     ack_buffer[p])
  BY <1>2, <1>5, StreamSizes
<1>7. missing = Unseen(e)
  BY <1>1 DEF Unseen
<1>8. ASSUME NEW i \in DOMAIN fabric[p]
      PROVE  LET f == fabric[p][i]
             IN  /\ f \in Frame /\ f.seq_num \in SeqNum
                 /\ Numbered(f) => Dist(f.seq_num, next_tx_seq[e]) \in 1 .. SEQ_MOD - 2
  <2> DEFINE f == fabric[p][i]
  <2>1. f.seq_num \in SeqNum
    BY <1>2, FrameNumbers
  <2>2. f \in Frame
    <3>1. i \in 1 .. Len(fabric[p])
      BY <1>2, LenProperties
    <3> QED
      BY <1>2, <3>1, ElementOfSeq
  <2>3. Numbered(f) => Dist(f.seq_num, next_tx_seq[e]) \in 1 .. missing + SPAN
    BY <1>5 DEF Stream, NumbersInOrder
  <2> HIDE DEF missing, f
  <2>4. Numbered(f) => Dist(f.seq_num, next_tx_seq[e]) \in 1 .. SEQ_MOD - 2
    BY <1>6, <2>3, SpanSizes, Sizes, SMT
  <2> QED
    BY <2>1, <2>2, <2>4 DEF f
<1>9. missing < HALF_MAX_SEQ_NUM
  <2> HIDE DEF missing
  <2> QED
    BY <1>6, SpanSizes, Sizes, SMT
<1>10. ASSUME Awaits(least, first, next_tx_seq[e], next_rx_seq[p], retransmit_buffer[e],
                     ack_buffer[p])
       PROVE  next_rx_seq[p] >= least /\ next_tx_seq[e] = first + Len(retransmit_buffer[e])
  BY <1>10, SMT DEF Awaits
<1> HIDE DEF missing
<1>11. /\ Unseen(e) \in Nat /\ Unseen(e) <= SPAN + 1 /\ Unseen(e) < HALF_MAX_SEQ_NUM
       /\ \/ Unseen(e) <= Len(retransmit_buffer[e])
          \/ /\ next_rx_seq[Peer(e)] >= Least(Peer(e))
             /\ next_tx_seq[e] = First(e) + Len(retransmit_buffer[e])
  BY <1>1, <1>3, <1>4, <1>6, <1>7, <1>9, <1>10
<1>12. \A i \in DOMAIN fabric[Peer(e)] :
          LET f == fabric[Peer(e)][i]
          IN  /\ f \in Frame /\ f.seq_num \in SeqNum
              /\ Numbered(f) => Dist(f.seq_num, next_tx_seq[e]) \in 1 .. SEQ_MOD - 2
  BY <1>1, <1>8
<1> QED
  BY <1>11, <1>12

\* An acknowledgement releases nothing the receiver still waits for.
LEMMA AliveReleased ==
  ASSUME RoomForHandshake, TypeOK, WindowInv, Alive, NEW e \in Endpoint, fabric[e] # <<>>,
         retransmit_buffer'[e] = slide_window(retransmit_buffer[e], Arrived(e).seq_num_ack)
  PROVE  Released(e)
<1> DEFINE B == retransmit_buffer[e]
           left == slide_window(B, Head(fabric[e]).seq_num_ack)
           I == {i \in DOMAIN B : tloe_seqnum_cmp(B[i].seq_num, Head(fabric[e]).seq_num_ack) > 0}
<1>1. PICK p \in Endpoint : p = Peer(e)
  BY Peers
<1>2. /\ next_tx_seq[e] \in SeqNum /\ next_rx_seq[p] \in SeqNum /\ fabric[e] \in Seq(Frame)
      /\ B \in Seq(Element) /\ IsWindow(B, next_tx_seq[e])
      /\ Len(B) \in Nat /\ Len(B) <= WINDOW_SIZE
  BY <1>1, LinkTypes
<1>3. PICK least \in {0, 2} : least = Least(p)
  BY <1>1, AliveParts
<1>4. PICK first \in {2, 3} : first = First(e)
  BY <1>1, AliveParts
<1>5. Stream(least, first, next_tx_seq[e], next_rx_seq[p], B, fabric[p], fabric[e], ack_buffer[p])
  BY <1>1, <1>3, <1>4, AliveParts DEF StreamOf
<1>6. left = retransmit_buffer'[e] /\ Unseen(e) = Dist(next_rx_seq[p], next_tx_seq[e])
  BY <1>1 DEF Arrived, Unseen
<1>7. CASE Unseen(e) <= Len(B)
  <2>1. \A k \in 2 .. 2 - 1 : FALSE
    BY SMT
  <2>2. Stream(2, 2, next_tx_seq[e], next_rx_seq[p], B, fabric[p], fabric[e], ack_buffer[p])
    BY <1>5, <1>6, <1>7 DEF Stream
  <2>3. 2 \in {0, 2} /\ 2 \in {2, 3}
    OBVIOUS
  <2>4. Stream(2, 2, next_tx_seq[e], next_rx_seq[p], left, fabric[p], Tail(fabric[e]),
               ack_buffer[p])
    <3> HIDE DEF B
    <3>1. LET l == slide_window(B, Head(fabric[e]).seq_num_ack)
          IN  Stream(2, 2, next_tx_seq[e], next_rx_seq[p], l, fabric[p], Tail(fabric[e]),
                     ack_buffer[p])
      BY <1>2, <2>2, <2>3, StreamSlides
    <3> QED
      BY <3>1
  <2>5. Dist(next_rx_seq[p], next_tx_seq[e]) <= Len(left)
    BY <2>1, <2>4 DEF Stream, Awaits
  <2> QED
    BY <1>6, <2>5 DEF Released
<1>8. CASE Awaits(least, first, next_tx_seq[e], next_rx_seq[p], B, ack_buffer[p])
  <2>1. Len(left) = Len(B)
    <3> HIDE DEF B
    <3>1. LET l == slide_window(B, Head(fabric[e]).seq_num_ack)
          IN  next_rx_seq[p] \in least .. first - 1 /\ next_tx_seq[e] = first + Len(B) =>
                 Len(l) = Len(B)
      BY <1>2, <1>5, StreamSlides
    <3> QED
      BY <1>8, <3>1 DEF Awaits
  <2>2. left = SuffixFrom(B, I) /\ I \subseteq DOMAIN B
    BY DEF slide_window
  <2> HIDE DEF B, I, left
  <2>3. /\ left \in Seq(Element)
        /\ \A i \in 1 .. Len(left) : left[i] = B[Len(B) - Len(left) + i]
    BY <1>2, <2>2, SuffixFromType
  <2>4. \A i \in 1 .. Len(left) : Len(B) - Len(left) + i = i
    BY <1>2, <2>1, SMT
  <2>5. left = B
    BY <1>2, <2>1, <2>3, <2>4, SeqEqual
  <2> QED
    BY <1>6, <2>5 DEF Released, B
<1> QED
  BY <1>5, <1>6, <1>7, <1>8 DEF Stream

LEMMA FirstArrived ==
  ASSUME TypeOK, NEW e \in Endpoint, fabric[e] # <<>>
  PROVE  1 \in DOMAIN fabric[e] /\ Arrived(e) = fabric[e][1]
<1>1. fabric[e] \in Seq(Frame)
  BY DEF TypeOK
<1>2. fabric[e] = <<>> \/ Len(fabric[e]) # 0
  BY <1>1, EmptySeq
<1>3. Len(fabric[e]) \in Nat /\ DOMAIN fabric[e] = 1 .. Len(fabric[e])
  BY <1>1, LenProperties
<1>4. 1 \in DOMAIN fabric[e]
  BY <1>2, <1>3, SMT
<1> QED
  BY <1>1, <1>4, HeadTailProperties DEF Arrived

\* What the worker accepts comes next in the window, or is the blank last frame
\* of the handshake.
LEMMA AliveAwaited ==
  ASSUME RoomForHandshake, TypeOK, RestInv, WindowInv, Alive, Contents, NEW e \in Endpoint, Accept(e)
  PROVE  Awaited(e)
<1> DEFINE p == Peer(e)
           B == retransmit_buffer[p]
           f == Arrived(e)
<1>1. p \in Endpoint /\ Peer(p) = e
  BY Peers
<1>2. RX(e) /\ Numbered(f) /\ f.seq_num = next_rx_seq[e] /\ fabric[e] # <<>> /\ pc[e] = "rx"
  BY AcceptsExpected DEF RX
<1>3. 1 \in DOMAIN fabric[e] /\ f = fabric[e][1]
  BY <1>2, FirstArrived
<1>4. SaysSame(f, next_tx_seq[p], Unseen(p), B)
  BY <1>1, <1>3 DEF Contents, CarriedFrom
<1>5. Dist(f.seq_num, next_tx_seq[p]) = Unseen(p)
  BY <1>1, <1>2 DEF Unseen
<1>6. Unseen(p) \in Nat /\ Unseen(p) \in 1 .. SEQ_MOD - 2
  BY <1>1, <1>2, <1>3, <1>5, AliveAges
<1>7. Unseen(p) >= 1 /\ Unseen(p) <= Unseen(p)
  BY <1>6, SMT
<1>8. ASSUME ~ Unseen(p) <= Len(B) PROVE ~ f.seq_num < FIRST_SEQ
  <2>1. connection[e]
    <3>1. SUFFICES ASSUME ~connection[e] PROVE FALSE
      OBVIOUS
    <3>2. main[e] \in {"idle", "opening"}
      BY <3>1, AliveParts DEF Fresh, Opening, Up
    <3> QED
      BY <1>2, <3>1, <3>2 DEF RestInv, RestAt, AtRest
  <2>2. Least(e) = 2
    BY <2>1, SpanSizes DEF Least
  <2>3. next_rx_seq[e] >= 2 /\ next_rx_seq[e] \in SeqNum
    BY <1>1, <1>8, <2>2, AliveAges DEF TypeOK
  <2> QED
    BY <1>2, <2>3, SpanSizes, SMT DEF SeqNum
<1> HIDE DEF f, B
<1>9. IF Unseen(p) <= Len(B) THEN ElementOf(f) = B[Len(B) - Unseen(p) + 1]
                             ELSE f.chan = 0 /\ f.tlmsg = NoMsg
  BY <1>2, <1>4, <1>5, <1>7, <1>8 DEF SaysSame, Blank
<1> QED
  BY <1>7, <1>9 DEF Awaited, f, B

LEMMA AliveInOrder ==
  ASSUME RoomForHandshake, TypeOK, RestInv, WindowInv, Alive, Contents
  PROVE  InOrder
<1>1. ASSUME NEW e \in Endpoint, RX(e) PROVE Released(e)
  <2>1. /\ fabric[e] # <<>>
        /\ retransmit_buffer'[e] = slide_window(retransmit_buffer[e], Arrived(e).seq_num_ack)
    BY <1>1 DEF RX, TypeOK
  <2> QED
    BY <2>1, AliveReleased
<1> QED
  BY <1>1, AliveAges, AliveAwaited DEF InOrder, Near

\* Losing frames changes nothing.
LEMMA ContentsThins ==
  ASSUME Contents, UNCHANGED <<next_tx_seq, next_rx_seq, retransmit_buffer>>,
         \A q \in Endpoint : Thinned(fabric'[q], fabric[q])
  PROVE  Contents'
<1> SUFFICES ASSUME NEW e \in Endpoint, NEW i \in DOMAIN fabric'[Peer(e)]
             PROVE  SaysSame(fabric'[Peer(e)][i], next_tx_seq'[e], Unseen(e)', retransmit_buffer'[e])
  BY DEF Contents, CarriedFrom
<1>1. PICK j \in DOMAIN fabric[Peer(e)] : fabric'[Peer(e)][i] = fabric[Peer(e)][j]
  BY Peers, LeftOf
<1>2. Unseen(e)' = Unseen(e)
  BY DEF Unseen
<1> QED
  BY <1>1, <1>2 DEF Contents, CarriedFrom

\* What TX and RX send are copies of what the window keeps.
LEMMA SaidCarried ==
  ASSUME NEW buffer \in Seq(Element), NEW next \in SeqNum, IsWindow(buffer, next),
         NEW n, NEW expected, NEW reports, NEW frames, Said(frames, buffer, n, expected, reports),
         NEW k \in DOMAIN frames, NEW missing
  PROVE  SaysSame(frames[k], next, missing, buffer)
<1>1. CASE Numbered(frames[k])
  <2>1. PICK i \in DOMAIN buffer : ElementOf(frames[k]) = buffer[i]
    BY <1>1 DEF Said, Says
  <2> QED
    BY <2>1, CarriedCopy
<1>2. CASE ~Numbered(frames[k])
  BY <1>2 DEF SaysSame
<1> QED
  BY <1>1, <1>2

LEMMA ContentsTransmit ==
  ASSUME RoomForHandshake, TypeOK, WindowInv, TypeOK', WindowInv', Alive, Contents,
         NEW e \in Endpoint, Transmits(e), UNCHANGED Kept(Peer(e))
  PROVE  Contents'
<1> DEFINE N == next_tx_seq[e]
           B == retransmit_buffer[e]
<1>1. PICK p \in Endpoint : p = Peer(e)
  BY Peers
<1>2. p # e /\ Peer(p) = e /\ \A q \in Endpoint : q = e \/ q = p
  BY <1>1, Peers
<1>3. /\ N \in SeqNum /\ B \in Seq(Element) /\ fabric[p] \in Seq(Frame)
      /\ next_rx_seq[p] \in SeqNum
  BY <1>1, LinkTypes
<1>4. PICK sent : /\ Said(sent, retransmit_buffer'[e], N, next_rx_seq[e], ack_buffer[e])
                  /\ fabric' = [fabric EXCEPT ![p] = SendAll(@, sent)]
  BY <1>1 DEF Transmits
<1>5. /\ sent \in Seq(Frame) /\ fabric'[e] = fabric[e] /\ fabric'[p] = SendAll(fabric[p], sent)
  BY <1>1, <1>2, <1>4 DEF Said, TypeOK
<1>6. /\ next_tx_seq'[p] = next_tx_seq[p] /\ retransmit_buffer'[p] = retransmit_buffer[p]
      /\ next_rx_seq'[p] = next_rx_seq[p] /\ next_rx_seq'[e] = next_rx_seq[e]
  BY <1>1 DEF Kept, Transmits
<1>7. Unseen(p)' = Unseen(p) /\ Unseen(e)' = Dist(next_rx_seq[p], next_tx_seq'[e])
  BY <1>1, <1>2, <1>6 DEF Unseen
<1>8. /\ next_tx_seq'[e] \in SeqNum /\ retransmit_buffer'[e] \in Seq(Element)
      /\ IsWindow(retransmit_buffer'[e], next_tx_seq'[e])
  BY DEF TypeOK, WindowInv, IsWindow
<1>9. CarriedFrom(p)'
  <2>1. CarriedFrom(p)
    BY DEF Contents
  <2> QED
    BY <1>2, <1>5, <1>6, <1>7, <2>1 DEF CarriedFrom
<1>10. ASSUME NEW j \in DOMAIN fabric[p]
       PROVE  SaysSame(fabric[p][j], next_tx_seq'[e], Unseen(e)', retransmit_buffer'[e])
  <2>1. SaysSame(fabric[p][j], N, Unseen(e), B)
    BY <1>1 DEF Contents, CarriedFrom
  <2>2. CASE next_tx_seq'[e] = N /\ retransmit_buffer'[e] = B
    <3>1. Unseen(e)' = Unseen(e)
      BY <1>1, <1>7, <2>2 DEF Unseen
    <3> QED
      BY <2>1, <2>2, <3>1
  <2>3. ASSUME next_tx_seq'[e] = tloe_seqnum_next(N), NEW x \in Element,
               retransmit_buffer'[e] = Append(B, x)
        PROVE  SaysSame(fabric[p][j], next_tx_seq'[e], Unseen(e)', retransmit_buffer'[e])
    <3>1. /\ Unseen(e) \in Nat /\ Unseen(e) < HALF_MAX_SEQ_NUM /\ fabric[p][j].seq_num \in SeqNum
          /\ Numbered(fabric[p][j]) => Dist(fabric[p][j].seq_num, N) \in 1 .. SEQ_MOD - 2
      BY <1>1, AliveAges
    <3>2. Unseen(e) < SEQ_MOD - 1
      BY <3>1, HalfRing, SMT
    <3>3. Unseen(e)' = Unseen(e) + 1
      BY <1>1, <1>3, <1>7, <2>3, <3>2, DistStep DEF Unseen
    <3> HIDE DEF N, B
    <3>4. SaysSame(fabric[p][j], tloe_seqnum_next(N), Unseen(e) + 1, Append(B, x))
      BY <1>3, <2>1, <3>1, CarriedNext DEF N
    <3> QED
      BY <2>3, <3>3, <3>4
  <2> QED
    BY <2>2, <2>3 DEF Transmits
<1>11. CarriedFrom(e)'
  <2> SUFFICES ASSUME NEW i \in DOMAIN fabric'[p]
               PROVE  SaysSame(fabric'[p][i], next_tx_seq'[e], Unseen(e)', retransmit_buffer'[e])
    BY <1>1 DEF CarriedFrom
  <2>1. CASE \E j \in DOMAIN fabric[p] : fabric'[p][i] = fabric[p][j]
    BY <1>10, <2>1
  <2>2. CASE \E j \in DOMAIN sent : fabric'[p][i] = sent[j]
    BY <1>4, <1>8, <2>2, SaidCarried
  <2> QED
    BY <1>3, <1>5, <2>1, <2>2, AddedTo
<1> QED
  BY <1>2, <1>9, <1>11 DEF Contents

LEMMA ContentsReceive ==
  ASSUME RoomForHandshake, TypeOK, WindowInv, TypeOK', WindowInv', Alive, Contents,
         NEW e \in Endpoint, Receives(e), UNCHANGED Kept(Peer(e))
  PROVE  Contents'
<1> DEFINE N == next_tx_seq[e]
           B == retransmit_buffer[e]
           f == Arrived(e)
<1>1. PICK p \in Endpoint : p = Peer(e)
  BY Peers
<1>2. p # e /\ Peer(p) = e /\ \A q \in Endpoint : q = e \/ q = p
  BY <1>1, Peers
<1>3. /\ N \in SeqNum /\ B \in Seq(Element) /\ fabric[p] \in Seq(Frame) /\ fabric[e] \in Seq(Frame)
      /\ next_tx_seq[p] \in SeqNum /\ next_rx_seq[e] \in SeqNum
  BY <1>1, LinkTypes
<1>4. PICK again : /\ Said(again, retransmit_buffer'[e], N, next_rx_seq[e], <<>>)
                   /\ fabric'[e] = Tail(fabric[e])
                   /\ fabric'[p] = SendAll(fabric[p], again)
  BY <1>1 DEF Receives
<1>5. /\ next_tx_seq'[p] = next_tx_seq[p] /\ retransmit_buffer'[p] = retransmit_buffer[p]
      /\ next_rx_seq'[p] = next_rx_seq[p] /\ next_tx_seq'[e] = N
      /\ retransmit_buffer'[e] = slide_window(B, f.seq_num_ack) /\ fabric[e] # <<>>
  BY <1>1 DEF Kept, Receives
<1>6. Unseen(e)' = Unseen(e) /\ Unseen(p)' = Dist(next_rx_seq'[e], next_tx_seq[p])
  BY <1>1, <1>2, <1>5 DEF Unseen
<1>7. /\ next_tx_seq'[e] \in SeqNum /\ retransmit_buffer'[e] \in Seq(Element)
      /\ IsWindow(retransmit_buffer'[e], next_tx_seq'[e])
  BY DEF TypeOK, WindowInv, IsWindow
<1>8. CarriedFrom(e)'
  <2>1. ASSUME NEW j \in DOMAIN fabric[p]
        PROVE  SaysSame(fabric[p][j], N, Unseen(e), retransmit_buffer'[e])
    <3>1. SaysSame(fabric[p][j], N, Unseen(e), B)
      BY <1>1 DEF Contents, CarriedFrom
    <3>2. /\ Unseen(e) \in Nat /\ fabric[p][j].seq_num \in SeqNum
          /\ Numbered(fabric[p][j]) => Dist(fabric[p][j].seq_num, N) \in 1 .. SEQ_MOD - 2
      BY <1>1, AliveAges
    <3>3. Unseen(e) <= Len(retransmit_buffer'[e]) \/ retransmit_buffer'[e] = B
      BY <1>5, AliveReleased DEF Released
    <3> HIDE DEF N, B
    <3> QED
      BY <1>3, <1>5, <3>1, <3>2, <3>3, CarriedSlid
  <2> SUFFICES ASSUME NEW i \in DOMAIN fabric'[p]
               PROVE  SaysSame(fabric'[p][i], next_tx_seq'[e], Unseen(e)', retransmit_buffer'[e])
    BY <1>1 DEF CarriedFrom
  <2>2. CASE \E j \in DOMAIN fabric[p] : fabric'[p][i] = fabric[p][j]
    BY <1>5, <1>6, <2>1, <2>2
  <2>3. CASE \E j \in DOMAIN again : fabric'[p][i] = again[j]
    BY <1>4, <1>7, <2>3, SaidCarried
  <2>4. again \in Seq(Frame)
    BY <1>4 DEF Said
  <2> QED
    BY <1>3, <1>4, <2>2, <2>3, <2>4, AddedTo
<1>9. Unseen(p) \in Nat /\ Unseen(p)' \in Nat /\ Unseen(p)' <= Unseen(p)
  <2>1. Unseen(p) \in Nat
    BY AliveAges
  <2>2. CASE next_rx_seq'[e] = next_rx_seq[e]
    <3>1. Unseen(p)' = Unseen(p)
      BY <1>2, <1>6, <2>2 DEF Unseen
    <3> QED
      BY <2>1, <3>1, SMT
  <2>3. CASE /\ Numbered(f) /\ f.seq_num = next_rx_seq[e]
             /\ next_rx_seq'[e] = tloe_seqnum_next(next_rx_seq[e])
    <3>1. 1 \in DOMAIN fabric[e] /\ f = fabric[e][1]
      BY <1>5, FirstArrived
    <3>2. Dist(next_rx_seq[e], next_tx_seq[p]) \in 1 .. SEQ_MOD - 2
      BY <1>2, <2>3, <3>1, AliveAges
    <3>3. Dist(next_rx_seq[e], next_tx_seq[p]) > 0
      BY <3>2, SMT
    <3>4. Unseen(p)' = Unseen(p) - 1
      BY <1>2, <1>3, <1>6, <2>3, <3>3, DistStep DEF Unseen
    <3>5. Unseen(p) > 0
      BY <1>2, <3>3 DEF Unseen
    <3> QED
      BY <2>1, <3>4, <3>5, SMT
  <2> QED
    BY <2>2, <2>3 DEF Receives
<1>10. CarriedFrom(p)'
  <2> SUFFICES ASSUME NEW i \in DOMAIN fabric'[e]
               PROVE  SaysSame(fabric'[e][i], next_tx_seq'[p], Unseen(p)', retransmit_buffer'[p])
    BY <1>2 DEF CarriedFrom
  <2>1. PICK j \in DOMAIN fabric[e] : fabric'[e][i] = fabric[e][j]
    <3>1. Thinned(fabric'[e], fabric[e])
      BY <1>3, <1>4, <1>5, TailThins
    <3> QED
      BY <3>1, LeftOf
  <2>2. SaysSame(fabric[e][j], next_tx_seq[p], Unseen(p), retransmit_buffer[p])
    BY <1>2 DEF Contents, CarriedFrom
  <2>3. fabric[e][j].seq_num \in SeqNum
    BY <1>3, FrameNumbers
  <2> QED
    BY <1>3, <1>5, <1>9, <2>1, <2>2, <2>3, CarriedFewer
<1> QED
  BY <1>2, <1>8, <1>10 DEF Contents

\* The workers, and the users' requests.
LEMMA ContentsWorker ==
  ASSUME RoomForHandshake, TypeOK, WindowInv, TypeOK', WindowInv', Alive, Contents,
         NEW e \in Endpoint, ConnWorker(e) \/ ConnSubmit(e)
  PROVE  Contents'
<1>1. (Transmits(e) \/ Receives(e) \/ Computes(e)) /\ UNCHANGED Kept(Peer(e))
  BY WorkerEffect DEF ConnWorker, ConnSubmit
<1>2. CASE Computes(e)
  BY <1>2, FabricSame, ContentsThins DEF Computes, linkVars
<1> QED
  BY <1>1, <1>2, ContentsTransmit, ContentsReceive


\* A frame of the handshake is for the open loops.
LEMMA HandshakeCarried ==
  ASSUME RoomForHandshake, NEW e, NEW f, HandshakeFrame(e, f), NEW missing
  PROVE  SaysSame(f, 2, missing, <<>>)
<1>1. f.seq_num \in {0, 1} /\ Len(<<>>) = 0 /\ FIRST_SEQ = 2
  BY HandshakeFrameParts, EmptySeq, SpanSizes
<1>2. Dist(f.seq_num, 2) \in {1, 2}
  BY <1>1, PrevNumbers
<1>3. ~ Dist(f.seq_num, 2) <= 0
  BY <1>2, SMT
<1>4. f.seq_num < 2
  BY <1>1, SMT
<1> QED
  BY <1>1, <1>3, <1>4 DEF SaysSame

\* The handshake is sent (serve_conn).
LEMMA ContentsServe ==
  ASSUME RoomForHandshake, TypeOK, ConnVarsType, RestInv, Alive, Contents,
         NEW e \in Endpoint, serve_conn(e)
  PROVE  Contents'
<1> DEFINE new == ServeFrames(e)
<1>1. PICK p \in Endpoint : p = Peer(e)
  BY Peers
<1>2. p # e /\ Peer(p) = e /\ \A q \in Endpoint : q = e \/ q = p
  BY <1>1, Peers
<1>3. Opening(e)
  BY AliveParts DEF serve_conn, Fresh, Up
<1>4. NotUp(e) /\ retransmit_buffer[e] = <<>> /\ FIRST_SEQ = 2
  BY <1>1, <1>3, OpeningFacts, SpanSizes
<1>5. /\ fabric'[p] = SendAll(fabric[p], new) /\ fabric'[e] = fabric[e]
      /\ next_tx_seq'[e] = 2 /\ next_tx_seq'[p] = next_tx_seq[p]
      /\ UNCHANGED <<next_rx_seq, retransmit_buffer>>
  BY <1>1, <1>2, ChannelOrderType DEF serve_conn, ToPeer, trafficVars, TypeOK
<1>6. new \in Seq(Frame) /\ fabric[p] \in Seq(Frame)
      /\ \A k \in DOMAIN new : HandshakeFrame(e, new[k])
  BY ServeFramesParts DEF TypeOK
<1>7. \/ next_tx_seq[e] = 2
      \/ next_tx_seq[e] = 0 /\ fabric[p] = <<>>
  BY <1>1, <1>4 DEF NotUp, Served
<1>8. Unseen(p)' = Unseen(p)
  BY <1>2, <1>5 DEF Unseen
<1>9. CarriedFrom(p)'
  <2>1. CarriedFrom(p)
    BY DEF Contents
  <2> QED
    BY <1>2, <1>5, <1>8, <2>1 DEF CarriedFrom
<1> HIDE DEF new
<1>10. CarriedFrom(e)'
  <2> SUFFICES ASSUME NEW i \in DOMAIN fabric'[p]
               PROVE  SaysSame(fabric'[p][i], next_tx_seq'[e], Unseen(e)', retransmit_buffer'[e])
    BY <1>1 DEF CarriedFrom
  <2>1. CASE \E k \in DOMAIN new : fabric'[p][i] = new[k]
    BY <1>4, <1>5, <1>6, <2>1, HandshakeCarried
  <2>2. ASSUME NEW k \in DOMAIN fabric[p], fabric'[p][i] = fabric[p][k]
        PROVE  SaysSame(fabric'[p][i], next_tx_seq'[e], Unseen(e)', retransmit_buffer'[e])
    <3>1. next_tx_seq'[e] = next_tx_seq[e]
      <4>1. DOMAIN <<>> = {}
        BY EmptySeq, SMT
      <4> QED
        BY <1>5, <1>7, <2>2, <4>1
    <3>2. Unseen(e)' = Unseen(e)
      BY <1>5, <3>1 DEF Unseen
    <3>3. SaysSame(fabric[p][k], next_tx_seq[e], Unseen(e), retransmit_buffer[e])
      BY <1>1 DEF Contents, CarriedFrom
    <3> QED
      BY <1>5, <2>2, <3>1, <3>2, <3>3
  <2> QED
    BY <1>5, <1>6, <2>1, <2>2, AddedTo
<1> QED
  BY <1>2, <1>9, <1>10 DEF Contents

\* What an endpoint takes before it is connected, unless it never will be, is
\* of the handshake, and gives all its credit.
LEMMA TakeInOrder ==
  ASSUME RoomForHandshake, TypeOK, ConnVarsType, RestInv, Alive, NEW e \in Endpoint,
         (recv_conn_More(e) /\ Alive') \/ recv_conn_Done(e), NEW f, f = Arrived(e)
  PROVE  /\ HandshakeFrame(Peer(e), f) /\ Opening(e) /\ f \in Frame
         /\ f.seq_num = next_rx_seq[e] \/ (f.seq_num = 0 /\ next_rx_seq[e] = 1)
         /\ next_rx_seq[e] \in {0, 1} /\ fabric[e] # <<>>
         /\ recv_conn_Done(e) => f.seq_num = 1 /\ next_rx_seq[e] = 1
<1>1. PICK p \in Endpoint : p = Peer(e) /\ p # e
  BY Peers
<1>2. recv_conn_Take(e)
  BY DEF recv_conn_More, recv_conn_Done
<1>3. /\ Opening(e) /\ fabric[e] # <<>> /\ f \in Frame /\ next_rx_seq[e] \in {0, 1}
      /\ \/ LateFrame(f) /\ next_rx_seq[e] = 1
         \/ /\ HandshakeFrame(p, f)
            /\ f.seq_num = next_rx_seq[e] \/ (f.seq_num = 0 /\ next_rx_seq[e] = 1)
  BY <1>1, <1>2, TakenFrame
<1>4. next_rx_seq'[e] = tloe_seqnum_next(f.seq_num) /\ credits'[e] = CreditSet(e, f)
      /\ UNCHANGED opens
  BY <1>1, <1>2, TakeEffect
<1>5. NotUp(e) /\ ~connection[e] /\ FIRST_SEQ = 2
  BY <1>1, <1>3, OpeningFacts, SpanSizes
<1>6. /\ 1 \in DOMAIN ChannelOrder /\ 2 \in DOMAIN ChannelOrder
      /\ ChannelOrder[1] = CHANNEL_A /\ ChannelOrder[2] = CHANNEL_D
      /\ CHANNEL_A \in Channel /\ CHANNEL_D \in Channel
      /\ CHANNEL_A # CHANNEL_D /\ CHANNEL_D # 0
  BY ChannelOrderType, SMT DEF ChannelOrder, Channel, CHANNEL_A, CHANNEL_D
<1>7. ~(credits[e][CHANNEL_D] > CREDIT_INIT)
  <2>1. ~(2 <= next_rx_seq[e])
    BY <1>3, SMT
  <2> QED
    BY <1>5, <1>6, <2>1 DEF NotUp, Taken
<1>8. CASE recv_conn_Done(e)
  <2>1. CreditSet(e, f)[CHANNEL_D] > CREDIT_INIT /\ CreditSet(e, f)[CHANNEL_A] > CREDIT_INIT
    BY <1>6, <1>8 DEF recv_conn_Done, check_all_channels
  <2>2. credits[e] \in [Channel -> Nat]
    BY DEF TypeOK
  <2>3. f.chan = CHANNEL_D
    BY <1>6, <1>7, <2>1, <2>2 DEF CreditSet
  <2>4. HandshakeFrame(p, f)
    BY <1>3, <1>6, <2>3 DEF LateFrame
  <2>5. f.seq_num = 1
    BY <1>6, <2>3, <2>4, HandshakeFrameParts
  <2>6. 1 # 0
    OBVIOUS
  <2> QED
    BY <1>1, <1>3, <2>4, <2>5, <2>6 DEF LateFrame
<1>9. CASE recv_conn_More(e) /\ Alive' /\ ~recv_conn_Done(e)
  <2>1. SUFFICES ASSUME LateFrame(f), next_rx_seq[e] = 1 PROVE FALSE
    BY <1>1, <1>3, <1>9
  <2>2. f.seq_num \in Nat /\ f.seq_num >= 2 /\ f.chan = 0
    BY <1>3, <1>5, <2>1 DEF LateFrame, Frame, SeqNum
  <2>3. credits'[e] = credits[e]
    BY <1>4, <2>2 DEF CreditSet
  <2>4. ~connection'[e]
    BY <1>5, <1>9 DEF recv_conn_More
  <2>5. Taken(e)'
    BY <1>9, <2>4 DEF Alive, Up, NotUp
  <2>6. ~(2 <= next_rx_seq'[e]) /\ next_rx_seq'[e] \in {0, 1}
    BY <2>5, SMT DEF Taken
  <2>7. credits[e][CHANNEL_A] > CREDIT_INIT
    <3>1. 1 <= next_rx_seq[e]
      BY <2>1, SMT
    <3> QED
      BY <1>5, <1>6, <3>1 DEF NotUp, Taken
  <2>8. 1 <= next_rx_seq'[e]
    BY <1>6, <2>3, <2>5, <2>7 DEF Taken
  <2>9. next_rx_seq'[e] = 1
    BY <2>6, <2>8, SMT
  <2>10. f.seq_num \in SeqNum /\ 0 \in SeqNum
    BY <1>3, HandshakeNumbers DEF Frame
  <2>11. f.seq_num = 0
    BY <1>4, <2>9, <2>10, PrevNumbers, SeqModAssumption, SMT DEF tloe_seqnum_next, SeqNum
  <2> QED
    BY <2>2, <2>11, SMT
<1> QED
  BY <1>8, <1>9

\* The receiver takes a frame of the handshake, and misses no more than before.
LEMMA TakenMisses ==
  ASSUME RoomForHandshake, TypeOK, ConnVarsType, RestInv, WindowInv, Alive, NEW e \in Endpoint,
         (recv_conn_More(e) /\ Alive') \/ recv_conn_Done(e)
  PROVE  LET p == Peer(e)
             missing == Dist(next_rx_seq'[e], next_tx_seq[p])
         IN  /\ missing \in Nat /\ Unseen(p) \in Nat /\ missing <= Unseen(p)
             /\ next_rx_seq'[e] \in {1, 2}
<1>1. PICK p \in Endpoint : p = Peer(e)
  BY Peers
<1>2. PICK f : f = Arrived(e)
  OBVIOUS
<1>3. Peer(p) = e /\ next_tx_seq[p] \in SeqNum /\ next_rx_seq[e] \in SeqNum
  BY <1>1, Peers DEF TypeOK
<1>4. recv_conn_Take(e)
  BY DEF recv_conn_More, recv_conn_Done
<1>5. /\ HandshakeFrame(p, f) /\ fabric[e] # <<>> /\ next_rx_seq[e] \in {0, 1}
      /\ f.seq_num = next_rx_seq[e] \/ (f.seq_num = 0 /\ next_rx_seq[e] = 1)
  BY <1>1, <1>2, TakeInOrder
<1>6. next_rx_seq'[e] = tloe_seqnum_next(f.seq_num)
  BY <1>1, <1>2, <1>4, TakeEffect
<1>7. Unseen(p) = Dist(next_rx_seq[e], next_tx_seq[p]) /\ Unseen(p) \in Nat
  BY <1>1, <1>3, AliveAges DEF Unseen
<1>8. CASE f.seq_num = 0 /\ next_rx_seq[e] = 1
  <2>1. next_rx_seq'[e] = 1
    BY <1>6, <1>8, PrevNumbers
  <2>2. Unseen(p) <= Unseen(p)
    BY <1>7, SMT
  <2> QED
    BY <1>1, <1>7, <1>8, <2>1, <2>2
<1>9. CASE f.seq_num = next_rx_seq[e]
  <2>1. 1 \in DOMAIN fabric[e] /\ f = fabric[e][1]
    BY <1>2, <1>5, FirstArrived
  <2>2. Numbered(f)
    <3>1. f.type \in {"OPEN_CONNECTION", "NORMAL"}
      BY <1>5, HandshakeFrameParts
    <3> QED
      BY <3>1 DEF Numbered
  <2>3. Dist(next_rx_seq[e], next_tx_seq[p]) \in 1 .. SEQ_MOD - 2
    BY <1>3, <1>9, <2>1, <2>2, AliveAges
  <2>4. Dist(next_rx_seq[e], next_tx_seq[p]) > 0
    BY <2>3, SMT
  <2>5. Dist(next_rx_seq'[e], next_tx_seq[p]) = Unseen(p) - 1 /\ Unseen(p) > 0
    BY <1>3, <1>6, <1>7, <1>9, <2>4, DistStep
  <2>6. Unseen(p) - 1 \in Nat /\ Unseen(p) - 1 <= Unseen(p)
    BY <1>7, <2>5, SMT
  <2>7. next_rx_seq'[e] \in {1, 2}
    BY <1>5, <1>6, <1>9, PrevNumbers
  <2> QED
    BY <1>1, <1>7, <2>5, <2>6, <2>7
<1> QED
  BY <1>5, <1>8, <1>9

\* What is left of the frames on the way to it.
LEMMA ContentsTaken ==
  ASSUME RoomForHandshake, TypeOK, ConnVarsType, RestInv, WindowInv, Alive, Contents,
         NEW e \in Endpoint, (recv_conn_More(e) /\ Alive') \/ recv_conn_Done(e),
         NEW p \in Endpoint, p = Peer(e)
  PROVE  CarriedFrom(p)'
<1>1. Peer(p) = e /\ p # e
  BY Peers
<1>2. recv_conn_Take(e)
  BY DEF recv_conn_More, recv_conn_Done
<1>3. fabric[e] # <<>> /\ fabric[e] \in Seq(Frame)
  BY <1>2 DEF recv_conn_Take, recv_conn, TypeOK
<1>4. fabric'[e] = Tail(fabric[e]) /\ next_tx_seq'[p] = next_tx_seq[p]
  BY <1>1 DEF recv_conn_More, recv_conn_Done, Consume, TypeOK
<1>5. retransmit_buffer' = retransmit_buffer
  BY <1>2, TakeEffect
<1>6. /\ next_tx_seq[p] \in SeqNum
      /\ Unseen(p)' \in Nat /\ Unseen(p) \in Nat /\ Unseen(p)' <= Unseen(p)
  BY <1>1, <1>4, TakenMisses DEF Unseen, TypeOK
<1> SUFFICES ASSUME NEW i \in DOMAIN fabric'[e]
             PROVE  SaysSame(fabric'[e][i], next_tx_seq'[p], Unseen(p)', retransmit_buffer'[p])
  BY <1>1 DEF CarriedFrom
<1>7. PICK j \in DOMAIN fabric[e] : fabric'[e][i] = fabric[e][j]
  <2>1. Thinned(fabric'[e], fabric[e])
    BY <1>3, <1>4, TailThins
  <2> QED
    BY <2>1, LeftOf
<1>8. SaysSame(fabric[e][j], next_tx_seq[p], Unseen(p), retransmit_buffer[p])
  BY <1>1 DEF Contents, CarriedFrom
<1>9. fabric[e][j].seq_num \in SeqNum
  BY <1>3, <1>6, FrameNumbers
<1> QED
  BY <1>4, <1>5, <1>6, <1>7, <1>8, <1>9, CarriedFewer

LEMMA ContentsMore ==
  ASSUME RoomForHandshake, TypeOK, ConnVarsType, RestInv, WindowInv, Alive, Alive', Contents,
         NEW e \in Endpoint, recv_conn_More(e)
  PROVE  Contents'
<1>1. PICK p \in Endpoint : p = Peer(e)
  BY Peers
<1>2. p # e /\ Peer(p) = e /\ \A q \in Endpoint : q = e \/ q = p
  BY <1>1, Peers
<1>3. recv_conn_Take(e)
  BY DEF recv_conn_More
<1>4. /\ fabric'[p] = fabric[p] /\ next_tx_seq' = next_tx_seq
      /\ next_rx_seq'[p] = next_rx_seq[p] /\ retransmit_buffer' = retransmit_buffer
  BY <1>1, <1>2, <1>3, TakeEffect DEF recv_conn_More, Consume, TypeOK
<1>5. CarriedFrom(e)'
  <2>1. Unseen(e)' = Unseen(e)
    BY <1>1, <1>4 DEF Unseen
  <2>2. CarriedFrom(e)
    BY DEF Contents
  <2> QED
    BY <1>1, <1>4, <2>1, <2>2 DEF CarriedFrom
<1>6. CarriedFrom(p)'
  BY <1>1, ContentsTaken
<1> QED
  BY <1>2, <1>5, <1>6 DEF Contents

\* The handshake is over: one more frame, which carries nothing.
LEMMA ContentsDone ==
  ASSUME RoomForHandshake, TypeOK, ConnVarsType, RestInv, WindowInv, Alive, Contents,
         NEW e \in Endpoint, recv_conn_Done(e)
  PROVE  Contents'
<1> DEFINE N == next_tx_seq[e]
           last == LastFrame(e, next_rx_seq'[e])
           new == <<last>>
<1>1. PICK p \in Endpoint : p = Peer(e)
  BY Peers
<1>2. p # e /\ Peer(p) = e /\ \A q \in Endpoint : q = e \/ q = p
  BY <1>1, Peers
<1>3. recv_conn_Take(e)
  BY DEF recv_conn_Done
<1>4. Opening(e) /\ next_rx_seq'[e] \in {1, 2}
  BY TakeInOrder, TakenMisses
<1>5. retransmit_buffer[e] = <<>>
  BY <1>1, <1>4, OpeningFacts
<1>6. /\ fabric'[p] = SendAll(fabric[p], new)
      /\ next_tx_seq'[e] = IF e = Master THEN tloe_seqnum_next(N) ELSE N
      /\ next_rx_seq'[p] = next_rx_seq[p] /\ retransmit_buffer' = retransmit_buffer
  BY <1>1, <1>2, <1>3, TakeEffect DEF recv_conn_Done, TypeOK
<1>7. /\ N \in SeqNum /\ fabric[p] \in Seq(Frame) /\ next_rx_seq[p] \in SeqNum
  BY DEF TypeOK
<1>8. next_rx_seq'[e] \in SeqNum
  BY <1>4, HandshakeNumbers
<1>9. last \in Frame
  <2>1. 0 \in Nat /\ 0 \in Channel \cup {0}
    BY SMT
  <2> HIDE DEF N
  <2> QED
    BY <1>7, <1>8, <2>1, ConnFrameType DEF LastFrame, N
<1>10. /\ last.type = (IF e = Master THEN "NORMAL" ELSE "ACKONLY")
       /\ last.seq_num = N /\ last.chan = 0 /\ last.tlmsg = NoMsg
  BY DEF LastFrame, ConnFrame
<1> HIDE DEF last
<1>11. new \in Seq(Frame) /\ \A k \in DOMAIN new : new[k] = last
  BY <1>9, OneFrame
<1> HIDE DEF new
<1>12. /\ Unseen(e) \in Nat /\ Unseen(e) < HALF_MAX_SEQ_NUM
       /\ Unseen(e) = Dist(next_rx_seq[p], N)
  BY <1>1, AliveAges DEF Unseen
<1>13. Unseen(e)' = Dist(next_rx_seq[p], next_tx_seq'[e])
  BY <1>1, <1>6 DEF Unseen
<1>14. ASSUME NEW k \in DOMAIN fabric[p]
       PROVE  SaysSame(fabric[p][k], next_tx_seq'[e], Unseen(e)', <<>>)
  <2>1. SaysSame(fabric[p][k], N, Unseen(e), <<>>)
    BY <1>1, <1>5 DEF Contents, CarriedFrom
  <2>2. /\ fabric[p][k].seq_num \in SeqNum
        /\ Numbered(fabric[p][k]) => Dist(fabric[p][k].seq_num, N) \in 1 .. SEQ_MOD - 2
    BY <1>1, AliveAges
  <2> HIDE DEF N
  <2>3. CASE e = Master
    <3>1. Unseen(e) < SEQ_MOD - 1
      BY <1>12, HalfRing, SMT
    <3>2. Unseen(e)' = Unseen(e) + 1
      BY <1>6, <1>7, <1>12, <1>13, <2>3, <3>1, DistStep
    <3>3. SaysSame(fabric[p][k], tloe_seqnum_next(N), Unseen(e) + 1, <<>>)
      BY <1>7, <1>12, <2>1, <2>2, CarriedLast
    <3> QED
      BY <1>6, <2>3, <3>2, <3>3
  <2>4. CASE e # Master
    BY <1>6, <1>12, <1>13, <2>1, <2>4
  <2> QED
    BY <2>3, <2>4
<1>15. SaysSame(last, next_tx_seq'[e], Unseen(e)', <<>>)
  <2>1. CASE e = Master
    <3>1. Dist(N, N) = 0 /\ 0 < SEQ_MOD - 1
      BY <1>7, DistSum, HalfRing, SMT
    <3>2. Dist(N, tloe_seqnum_next(N)) = 1
      BY <1>7, <3>1, DistStep
    <3>3. ~ 1 <= Len(<<>>)
      BY EmptySeq, SMT
    <3> QED
      BY <1>6, <1>10, <2>1, <3>2, <3>3 DEF SaysSame, Blank
  <2>2. CASE e # Master
    BY <1>10, <2>2 DEF SaysSame, Numbered
  <2> QED
    BY <2>1, <2>2
<1>16. CarriedFrom(e)'
  <2> SUFFICES ASSUME NEW i \in DOMAIN fabric'[p]
               PROVE  SaysSame(fabric'[p][i], next_tx_seq'[e], Unseen(e)', <<>>)
    BY <1>1, <1>5, <1>6 DEF CarriedFrom
  <2>1. \/ \E k \in DOMAIN fabric[p] : fabric'[p][i] = fabric[p][k]
        \/ \E k \in DOMAIN new : fabric'[p][i] = new[k]
    BY <1>6, <1>7, <1>11, AddedTo
  <2> QED
    BY <1>11, <1>14, <1>15, <2>1
<1>17. CarriedFrom(p)'
  BY <1>1, ContentsTaken
<1> QED
  BY <1>2, <1>16, <1>17 DEF Contents

\* Every step of the program and its users, while both endpoints may still be
\* connected.
LEMMA ContentsStep ==
  ASSUME RoomForHandshake, TypeOK, ConnVarsType, RestInv, WindowInv, TypeOK', WindowInv',
         Alive, Alive', Contents, [ConnNext]_allVars
  PROVE  Contents'
<1>1. ASSUME NEW e \in Endpoint, OpenStep(e) PROVE Contents'
  <2>1. CASE recv_conn_Drop(e)
    <3>1. UNCHANGED <<next_tx_seq, next_rx_seq, retransmit_buffer>>
      BY <2>1 DEF recv_conn_Drop, recv_conn, trafficVars
    <3>2. \A q \in Endpoint : Thinned(fabric'[q], fabric[q])
      BY <2>1, FabricTaken DEF recv_conn_Drop, recv_conn
    <3> QED
      BY <3>1, <3>2, ContentsThins
  <2> QED
    BY <1>1, <2>1, ContentsServe, ContentsMore, ContentsDone DEF OpenStep
<1>2. ASSUME NEW e \in Endpoint, Lose(e) PROVE Contents'
  <2>1. UNCHANGED <<next_tx_seq, next_rx_seq, retransmit_buffer>>
    BY <1>2 DEF Lose
  <2> QED
    BY <1>2, <2>1, FabricLost, ContentsThins
<1>3. ASSUME UNCHANGED <<fabric, next_tx_seq, next_rx_seq, retransmit_buffer>> PROVE Contents'
  BY <1>3, FabricSame, ContentsThins
<1>4. ASSUME NEW e \in Endpoint, Open(e) \/ Close(e) \/ Quit(e) \/ tloe_endpoint_close(e)
      PROVE  Contents'
  BY <1>3, <1>4 DEF Open, Close, Quit, tloe_endpoint_close, vars, linkVars
<1>5. CASE UNCHANGED allVars
  BY <1>3, <1>5 DEF allVars, vars, linkVars
<1> QED
  BY <1>1, <1>2, <1>4, <1>5, ContentsWorker, NoCloseAlive DEF ConnNext, MainThread

\* The credit of an endpoint that is not connected yet, and what its peer owes it.
LEMMA NothingGiven ==
  ASSUME NEW buffer \in Seq(Element), Creditless(buffer), NEW n \in Nat, n <= Len(buffer),
         NEW c \in Channel
  PROVE  Weigh(GivenBy(c), Newest(buffer, n)) = 0
<1> DEFINE s == Newest(buffer, n)
           t == [i \in 1 .. Len(s) |-> GivenBy(c)[s[i]]]
           none == <<>>
<1>1. /\ s \in Seq(Element) /\ Len(s) = n
      /\ \A i \in 1 .. n : s[i] = buffer[Len(buffer) - n + i]
  BY NewestType
<1>2. Len(buffer) \in Nat /\ DOMAIN buffer = 1 .. Len(buffer)
  BY LenProperties
<1>3. ASSUME NEW i \in 1 .. n PROVE s[i] \in Element /\ GivenBy(c)[s[i]] = 0
  <2>1. Len(buffer) - n + i \in DOMAIN buffer
    BY <1>2, SMT
  <2>2. s[i].chan = 0
    BY <1>1, <2>1 DEF Creditless
  <2>3. s[i] \in Element
    <3> HIDE DEF s
    <3> QED
      BY <1>1, ElementOfSeq
  <2>4. c # 0
    BY DEF Channel, CHANNEL_A, CHANNEL_D
  <2> HIDE DEF s
  <2> QED
    BY <2>2, <2>3, <2>4 DEF GivenBy
<1> HIDE DEF s
<1>4. t \in Seq(Nat) /\ Len(t) = n /\ \A i \in 1 .. n : t[i] = 0
  <2>1. \A i \in 1 .. n : GivenBy(c)[s[i]] \in Nat
    BY <1>3
  <2> QED
    BY <1>1, <1>3, <2>1, SMT
<1>5. none \in Seq(Nat) /\ Len(none) = 0 /\ \A i \in 1 .. Len(none) : t[n + i] = none[i]
  BY EmptySeq, SMT
<1> HIDE DEF t, none
<1>6. Len(t) = n + Len(none)
  BY <1>4, <1>5, SMT
<1>7. SumSeq(t) = SumSeq(none)
  BY <1>4, <1>5, <1>6, SumDropsZeros
<1>8. SumSeq(none) = 0
  <2>1. PICK sum : Sums(none, sum)
    BY <1>5, SumsExist
  <2> QED
    BY <1>5, <2>1, SumIs DEF Sums
<1> QED
  BY <1>7, <1>8 DEF Weigh, t, s

LEMMA AliveUp ==
  ASSUME Alive, NEW e \in Endpoint
  PROVE  /\ Up(e) <=> connection[e]
         /\ ~connection[e] => main[e] \in {"idle", "opening"} /\ NotUp(e)
BY AliveParts DEF Fresh, Opening, Up

\* An endpoint without a connection keeps nothing for its peer.
LEMMA NothingComing ==
  ASSUME TypeOK, RestInv, Alive, NEW e \in Endpoint, ~connection[e]
  PROVE  /\ retransmit_buffer[e] = <<>> /\ tl_msg_buffer[e] = <<>> /\ Coming(e) = <<>>
         /\ \A c \in Channel : /\ Weigh(SpentBy(c), <<>>) = 0 /\ Weigh(GivenBy(c), <<>>) = 0
                               /\ Weigh(TakenBy(c), <<>>) = 0
<1>1. retransmit_buffer[e] = <<>> /\ tl_msg_buffer[e] = <<>>
  BY AliveUp DEF RestInv, RestAt, AtRest
<1>2. Coming(e) = <<>>
  <2>1. Coming(e) \in Seq(Element) /\ Len(Coming(e)) \in Nat /\ Len(Coming(e)) <= 0
    BY <1>1, ComingType, EmptySeq
  <2>2. Len(Coming(e)) = 0
    BY <2>1, SMT
  <2> QED
    BY <2>1, <2>2, EmptySeq
<1> QED
  BY <1>1, <1>2, WeightTypes, WeighNothing

\* Before an endpoint is connected no more credit is there than it believes in.
LEMMA CreditOfFresh ==
  ASSUME TypeOK, RestInv, Alive, NEW e \in Endpoint, ~connection[e], NEW c \in Channel
  PROVE  CreditNow(e, c) = credits[e][c]
<1>1. PICK p \in Endpoint : p = Peer(e)
  BY Peers
<1>2. Coming(e) = <<>> /\ Weigh(SpentBy(c), <<>>) = 0 /\ Weigh(TakenBy(c), <<>>) = 0
  BY NothingComing
<1>3. Silent(p)
  BY <1>1, AliveUp DEF NotUp
<1>4. tl_msg_buffer[p] = <<>> /\ tx_flow_credits[p][c] = 0
  BY <1>3 DEF Silent
<1>5. Weigh(GivenBy(c), Coming(p)) = 0
  <2>1. /\ retransmit_buffer[p] \in Seq(Element) /\ Waiting(p) \in Nat
        /\ Waiting(p) <= Len(retransmit_buffer[p])
    BY ComingType
  <2> QED
    BY <1>3, <2>1, NothingGiven DEF Silent, Coming
<1>6. credits[e][c] \in Nat
  BY CreditTypes
<1>7. credits[e][c] + 0 + 0 + 0 + 0 = credits[e][c]
  BY <1>6, SMT
<1> QED
  BY <1>1, <1>2, <1>4, <1>5, <1>7 DEF CreditNow, Total

\* So there is at most what the endpoints grant.
LEMMA BoundAll ==
  ASSUME TypeOK, RestInv, Alive, CreditBefore, CreditSoFar
  PROVE  CreditBound
<1> SUFFICES ASSUME NEW e \in Endpoint, NEW c \in Channel PROVE CreditNow(e, c) <= CREDIT
  BY DEF CreditBound
<1>1. CASE connection[e]
  BY <1>1 DEF CreditSoFar
<1>2. CASE ~connection[e]
  <2>1. CreditNow(e, c) \in {CREDIT_INIT, CREDIT}
    BY <1>2, CreditOfFresh DEF CreditBefore
  <2>2. CREDIT_INIT <= CREDIT /\ CREDIT <= CREDIT
    BY ConnectionAssumption, SizeAssumption, SMT
  <2> QED
    BY <2>1, <2>2
<1> QED
  BY <1>1, <1>2

-----------------------------------------------------------------------------
(***************************************************************************)
(* What each step does to the credit                                        *)
(***************************************************************************)
\* An endpoint has its credit, or as much as before; who is not connected yet
\* goes on as it began.
CreditSteady ==
    /\ CreditBefore'
    /\ \A e \in Endpoint : connection'[e] =>
          \/ \A c \in Channel : CreditNow(e, c)' = CREDIT
          \/ connection[e] /\ \A c \in Channel : CreditNow(e, c)' = CreditNow(e, c)

LEMMA SteadyKeeps ==
  ASSUME CreditSteady
  PROVE  (CreditSoFar => CreditSoFar') /\ (CreditThere => CreditThere')
<1>1. CREDIT <= CREDIT
  BY SizeAssumption, SMT
<1> QED
  BY <1>1 DEF CreditSteady, CreditSoFar, CreditThere

\* The steps that change no credit.
LEMMA SteadySame ==
  ASSUME CreditBefore, CreditKept, UNCHANGED <<credits, tx_flow_credits>>, connection' = connection
  PROVE  CreditSteady
<1>1. CreditBefore'
  BY DEF CreditBefore
<1> QED
  BY <1>1 DEF CreditKept, CreditSteady

\* An empty window keeps nothing.
LEMMA EmptyComing ==
  ASSUME TypeOK', NEW e \in Endpoint, retransmit_buffer'[e] = <<>>
  PROVE  Coming(e)' = <<>>
<1> DEFINE none == <<>>
           d == Dist(next_rx_seq'[Peer(e)], next_tx_seq'[e])
<1>1. d \in Nat
  BY Peers, MissingType DEF TypeOK
<1>2. none \in Seq(Element) /\ Len(none) = 0
  BY EmptySeq
<1>3. Coming(e)' = Newest(none, IF d <= Len(none) THEN d ELSE Len(none))
  BY DEF Coming, Waiting, Unseen
<1> HIDE DEF d, none
<1>4. (IF d <= Len(none) THEN d ELSE Len(none)) = 0
  BY <1>1, <1>2, SMT
<1>5. Newest(none, 0) \in Seq(Element) /\ Len(Newest(none, 0)) = 0
  <2>1. 0 \in Nat /\ 0 <= 0
    BY SMT
  <2> QED
    BY <1>2, <2>1, NewestType
<1> QED
  BY <1>3, <1>4, <1>5, EmptySeq

\* The handshake is sent.
LEMMA CreditServe ==
  ASSUME RoomForHandshake, TypeOK, ConnVarsType, RestInv, TypeOK', Alive, CreditBefore,
         NEW e \in Endpoint, serve_conn(e)
  PROVE  CreditSteady
<1>1. PICK p \in Endpoint : p = Peer(e) /\ p # e /\ Peer(p) = e /\ \A q \in Endpoint : q = e \/ q = p
  BY Peers
<1>2. ~connection[e]
  BY AliveUp DEF serve_conn, Up
<1>3. /\ next_tx_seq'[p] = next_tx_seq[p]
      /\ UNCHANGED <<next_rx_seq, credits, tx_flow_credits, retransmit_buffer, tl_msg_buffer,
                     connection>>
  BY <1>1 DEF serve_conn, creditVars, trafficVars, TypeOK
<1>4. Coming(p)' = Coming(p)
  BY <1>1, <1>3, ComingSame
<1>5. Coming(e)' = Coming(e)
  BY <1>2, <1>3, NothingComing, EmptyComing
<1>6. CreditKept
  BY <1>1, <1>3, <1>4, <1>5 DEF CreditKept, CreditNow
<1> QED
  BY <1>3, <1>6, SteadySame

\* What a receiver that takes the handshake misses is more than the window.
LEMMA MissesAll ==
  ASSUME RoomForHandshake, NEW first \in {2, 3}, NEW kept \in Nat, NEW next \in SeqNum,
         next = first + kept, NEW expected \in {0, 1, 2}
  PROVE  Dist(expected, next) \in Nat /\ Dist(expected, next) >= kept
BY SMT DEF Dist, SeqNum

\* A frame of the peer's handshake is taken: its peer's credit stays as it is.
LEMMA TakePeer ==
  ASSUME RoomForHandshake, TypeOK, ConnVarsType, RestInv, WindowInv, TypeOK', Alive, CreditBefore,
         NEW e \in Endpoint, (recv_conn_More(e) /\ Alive') \/ recv_conn_Done(e),
         NEW p \in Endpoint, p = Peer(e), connection[p], NEW c \in Channel
  PROVE  CreditNow(p, c)' = CreditNow(p, c)
<1> DEFINE B == retransmit_buffer[p]
<1>1. Peer(p) = e /\ p # e
  BY Peers
<1>2. recv_conn_Take(e)
  BY DEF recv_conn_More, recv_conn_Done
<1>3. Opening(e) /\ next_rx_seq[e] \in {0, 1} /\ next_rx_seq'[e] \in {1, 2}
  BY TakeInOrder, TakenMisses
<1>4. Up(p) /\ ~connection[e]
  BY <1>3, AliveUp DEF Opening
<1>5. next_tx_seq[p] = First(p) + Len(B) /\ First(p) \in {2, 3}
  BY <1>3, <1>4, OpeningFacts, AliveParts DEF Ahead
<1>6. /\ next_tx_seq'[p] = next_tx_seq[p] /\ credits'[p] = credits[p]
      /\ UNCHANGED <<retransmit_buffer, tl_msg_buffer>>
      /\ tx_flow_credits[e] = [d \in Channel |-> 0] =>
            tx_flow_credits'[e] = [d \in Channel |-> 0]
  BY <1>1, <1>2, TakeEffect DEF recv_conn_More, recv_conn_Done, TypeOK
<1>7. tx_flow_credits'[e] = tx_flow_credits[e]
  BY <1>4, <1>6 DEF CreditBefore
<1>8. Coming(p)' = Coming(p)
  <2>1. next_tx_seq[p] \in SeqNum /\ Len(B) \in Nat
    BY ComingType DEF TypeOK
  <2>2. /\ Unseen(p) = Dist(next_rx_seq[e], next_tx_seq[p])
        /\ Unseen(p)' = Dist(next_rx_seq'[e], next_tx_seq[p])
    BY <1>1, <1>6 DEF Unseen
  <2>3. /\ Unseen(p) \in Nat /\ Unseen(p) >= Len(B)
        /\ Unseen(p)' \in Nat /\ Unseen(p)' >= Len(B)
    <3> HIDE DEF B
    <3> QED
      BY <1>3, <1>5, <2>1, <2>2, MissesAll
  <2>4. Waiting(p) = Len(B) /\ Waiting(p)' = Len(B)
    <3>1. /\ Waiting(p) = (IF Unseen(p) <= Len(B) THEN Unseen(p) ELSE Len(B))
          /\ Waiting(p)' = (IF Unseen(p)' <= Len(B) THEN Unseen(p)' ELSE Len(B))
      BY <1>6 DEF Waiting
    <3> HIDE DEF B
    <3> QED
      BY <2>1, <2>3, <3>1, SMT
  <2> QED
    BY <1>6, <2>4 DEF Coming
<1>9. Coming(e)' = Coming(e)
  BY <1>4, <1>6, NothingComing, EmptyComing
<1> QED
  BY <1>1, <1>6, <1>7, <1>8, <1>9 DEF CreditNow

\* It sets the credit of its channel.
LEMMA TakeSets ==
  ASSUME RoomForHandshake, TypeOK, ConnVarsType, RestInv, Alive, CreditBefore,
         NEW e \in Endpoint, (recv_conn_More(e) /\ Alive') \/ recv_conn_Done(e)
  PROVE  /\ tx_flow_credits'[e] = [c \in Channel |-> 0]
         /\ \A c \in Channel : credits'[e][c] \in {CREDIT_INIT, CREDIT}
         /\ recv_conn_Done(e) => \A c \in Channel : credits'[e][c] = CREDIT
<1>1. PICK f : f = Arrived(e)
  OBVIOUS
<1>2. recv_conn_Take(e)
  BY DEF recv_conn_More, recv_conn_Done
<1>3. HandshakeFrame(Peer(e), f) /\ ~connection[e] /\ f \in Frame
  BY <1>1, TakeInOrder DEF Opening
<1>4. /\ credits'[e] = CreditSet(e, f)
      /\ tx_flow_credits[e] = [c \in Channel |-> 0] =>
            tx_flow_credits'[e] = [c \in Channel |-> 0]
  BY <1>1, <1>2, Peers, TakeEffect
<1>5. /\ tx_flow_credits[e] = [c \in Channel |-> 0]
      /\ \A c \in Channel : credits[e][c] \in {CREDIT_INIT, CREDIT}
  BY <1>3 DEF CreditBefore
<1>6. f.chan # 0 /\ f.credit = CREDIT
  BY <1>3, HandshakeFrameParts
<1>7. \A c \in Channel : credits'[e][c] = IF c = f.chan THEN CREDIT ELSE credits[e][c]
  BY <1>4, <1>6 DEF CreditSet, TypeOK
<1>8. ~ CREDIT_INIT > CREDIT_INIT
  BY ConnectionAssumption, SMT
<1>9. recv_conn_Done(e) => check_all_channels(credits'[e])
  BY <1>1, <1>4 DEF recv_conn_Done
<1> QED
  BY <1>4, <1>5, <1>7, <1>8, <1>9 DEF check_all_channels

LEMMA CreditMore ==
  ASSUME RoomForHandshake, TypeOK, ConnVarsType, RestInv, WindowInv, TypeOK', Alive, Alive',
         CreditBefore, NEW e \in Endpoint, recv_conn_More(e)
  PROVE  CreditSteady
<1>1. PICK p \in Endpoint : p = Peer(e) /\ p # e /\ \A q \in Endpoint : q = e \/ q = p
  BY Peers
<1>2. recv_conn_Take(e) /\ connection' = connection
  BY DEF recv_conn_More
<1>3. credits'[p] = credits[p] /\ tx_flow_credits'[p] = tx_flow_credits[p]
  BY <1>1, <1>2, TakeEffect
<1>4. ~connection[e]
  BY TakeInOrder DEF Opening
<1>5. CreditBefore'
  BY <1>1, <1>2, <1>3, TakeSets DEF CreditBefore
<1>6. connection[p] => \A c \in Channel : CreditNow(p, c)' = CreditNow(p, c)
  BY <1>1, TakePeer
<1> QED
  BY <1>1, <1>2, <1>4, <1>5, <1>6 DEF CreditSteady

\* The handshake is over: its credit is all there.
LEMMA CreditDone ==
  ASSUME RoomForHandshake, TypeOK, ConnVarsType, RestInv, WindowInv, TypeOK', Alive,
         CreditBefore, NEW e \in Endpoint, recv_conn_Done(e)
  PROVE  CreditSteady
<1>1. PICK p \in Endpoint : p = Peer(e) /\ p # e /\ Peer(p) = e /\ \A q \in Endpoint : q = e \/ q = p
  BY Peers
<1>2. recv_conn_Take(e) /\ connection'[e] /\ connection'[p] = connection[p]
      /\ next_tx_seq'[p] = next_tx_seq[p]
  BY <1>1 DEF recv_conn_Done, ConnVarsType, TypeOK
<1>3. /\ credits'[p] = credits[p] /\ tx_flow_credits'[p] = tx_flow_credits[p]
      /\ UNCHANGED <<retransmit_buffer, tl_msg_buffer>>
  BY <1>1, <1>2, TakeEffect
<1>4. CreditBefore'
  BY <1>1, <1>2, <1>3 DEF CreditBefore
<1>5. connection[p] => \A c \in Channel : CreditNow(p, c)' = CreditNow(p, c)
  BY <1>1, TakePeer
<1>6. ASSUME NEW c \in Channel PROVE CreditNow(e, c)' = CREDIT
  <2>1. ~connection[e]
    BY TakeInOrder DEF Opening
  <2>2. /\ Coming(e)' = <<>> /\ Weigh(SpentBy(c), <<>>) = 0 /\ Weigh(TakenBy(c), <<>>) = 0
    BY <1>3, <2>1, NothingComing, EmptyComing
  <2>3. Silent(p)
    BY <1>1, <2>1, AliveUp DEF NotUp
  <2>4. tl_msg_buffer'[p] = <<>> /\ tx_flow_credits'[p][c] = 0
    BY <1>3, <2>3 DEF Silent
  <2>5. Weigh(GivenBy(c), Coming(p)') = 0
    <3>1. retransmit_buffer[p] \in Seq(Element) /\ Len(retransmit_buffer[p]) \in Nat
      BY ComingType
    <3>2. Unseen(p)' \in Nat
      BY <1>1, <1>2, TakenMisses DEF Unseen
    <3>3. Waiting(p)' = (IF Unseen(p)' <= Len(retransmit_buffer[p]) THEN Unseen(p)'
                                                            ELSE Len(retransmit_buffer[p]))
      BY <1>3 DEF Waiting
    <3>4. Waiting(p)' \in Nat /\ Waiting(p)' <= Len(retransmit_buffer[p])
      BY <3>1, <3>2, <3>3, SMT
    <3>5. Weigh(GivenBy(c), Newest(retransmit_buffer[p], Waiting(p)')) = 0
      BY <2>3, <3>1, <3>4, NothingGiven DEF Silent
    <3> QED
      BY <1>3, <3>5 DEF Coming
  <2>6. credits'[e][c] = CREDIT
    BY TakeSets
  <2>7. CREDIT + 0 + 0 + 0 + 0 = CREDIT
    BY SizeAssumption, SMT
  <2> QED
    BY <1>1, <2>2, <2>4, <2>5, <2>6, <2>7 DEF CreditNow, Total
<1> QED
  BY <1>1, <1>2, <1>4, <1>5, <1>6 DEF CreditSteady

\* No failing allocation, and room for all the credit.
AllFits == MAX_ALLOC_FAILED = 0 /\ TL_MSG_BUFFER_CAP >= CREDIT + CREDIT

\* The workers make no credit, and lose none if all fits.
LEMMA CreditWorker ==
  ASSUME RoomForHandshake, TypeOK, RestInv, WindowInv, Alive, Contents, CreditBefore,
         CreditsAreNat', NEW e \in Endpoint, ConnWorker(e) \/ ConnSubmit(e)
  PROVE  /\ CreditBefore'
         /\ CreditSoFar => CreditSoFar'
         /\ CreditSoFar /\ AllFits /\ CreditThere => CreditThere'
<1>1. Next /\ connection' = connection
  BY DEF ConnWorker, ConnSubmit, connVars, Next
<1>2. InOrder
  BY AliveInOrder
<1>3. CreditBefore'
  <2>1. PICK p \in Endpoint : p = Peer(e) /\ p # e /\ \A q \in Endpoint : q = e \/ q = p
    BY Peers
  <2>2. connection[e]
    BY WorkerUp, AliveUp
  <2>3. credits'[p] = credits[p] /\ tx_flow_credits'[p] = tx_flow_credits[p]
    BY <2>1, WorkerEffect DEF ConnWorker, ConnSubmit, Kept
  <2> QED
    BY <1>1, <2>1, <2>2, <2>3 DEF CreditBefore
<1>4. CreditNotMade
  BY <1>1, <1>2, CreditStep
<1>5. ASSUME CreditSoFar PROVE CreditSoFar'
  <2> SUFFICES ASSUME NEW q \in Endpoint, connection[q], NEW c \in Channel
               PROVE  CreditNow(q, c)' <= CREDIT
    BY <1>1 DEF CreditSoFar
  <2>1. CreditNow(q, c)' \in Nat /\ CreditNow(q, c) \in Nat
    BY CreditIsNat DEF CreditsAreNat
  <2>2. CreditNow(q, c)' <= CreditNow(q, c) /\ CreditNow(q, c) <= CREDIT
    BY <1>4, <1>5 DEF CreditNotMade, CreditSoFar
  <2> DEFINE before == CreditNow(q, c)
             after == CreditNow(q, c)'
  <2> HIDE DEF before, after
  <2>3. after \in Nat /\ before \in Nat /\ after <= before /\ before <= CREDIT
    BY <2>1, <2>2 DEF before, after
  <2>4. after <= CREDIT
    BY <2>3, SizeAssumption, SMT
  <2> QED
    BY <2>4 DEF after
<1>6. ASSUME CreditSoFar, AllFits, CreditThere PROVE CreditThere'
  <2>1. CreditBound
    BY <1>6, BoundAll
  <2>2. alloc_failed' = alloc_failed
    BY <1>1, <1>6, NothingLost DEF AllFits
  <2>3. \A q \in Endpoint : RX_Normal(q) => Len(tl_msg_buffer[q]) < TL_MSG_BUFFER_CAP
    BY <1>2, <1>6, <2>1, CreditRoom DEF AllFits
  <2>4. CreditKept
    BY <1>1, <1>2, <2>2, <2>3, CreditStep
  <2> QED
    BY <1>1, <1>6, <2>4 DEF CreditKept, CreditThere
<1> QED
  BY <1>3, <1>5, <1>6

\* Every step of the program and its users, while both endpoints may still be
\* connected.
LEMMA CreditStage ==
  ASSUME RoomForHandshake, TypeOK, ConnVarsType, RestInv, WindowInv, TypeOK', CreditsAreNat',
         Alive, Alive', Contents, CreditBefore, CreditSoFar, [ConnNext]_allVars
  PROVE  /\ CreditBefore' /\ CreditSoFar'
         /\ AllFits /\ CreditThere => CreditThere'
<1>1. ASSUME CreditSteady
      PROVE  CreditBefore' /\ CreditSoFar' /\ (CreditThere => CreditThere')
  BY <1>1, SteadyKeeps DEF CreditSteady
<1>2. ASSUME UNCHANGED <<credits, tx_flow_credits, tl_msg_buffer, retransmit_buffer,
                         next_tx_seq, next_rx_seq>>, connection' = connection
      PROVE  CreditSteady
  BY <1>2, CreditSame, SteadySame
<1>3. ASSUME NEW e \in Endpoint, OpenStep(e) PROVE CreditSteady
  <2>1. CASE recv_conn_Drop(e)
    BY <1>2, <2>1 DEF recv_conn_Drop, recv_conn, trafficVars, creditVars
  <2> QED
    BY <1>3, <2>1, CreditServe, CreditMore, CreditDone DEF OpenStep
<1>4. ASSUME NEW e \in Endpoint, Lose(e), UNCHANGED connVars PROVE CreditSteady
  BY <1>2, <1>4 DEF Lose, creditVars, connVars
<1>5. ASSUME NEW e \in Endpoint, Open(e) \/ Quit(e) \/ tloe_endpoint_close(e)
      PROVE  CreditSteady
  BY <1>2, <1>5 DEF Open, Quit, tloe_endpoint_close, vars, linkVars, creditVars
<1>6. ASSUME NEW e \in Endpoint, Close(e) PROVE FALSE
  <2>1. main'[e] = "closing"
    BY <1>6 DEF Close, ConnVarsType
  <2> QED
    BY <2>1 DEF Alive, Fresh, Opening, Up
<1>7. CASE UNCHANGED allVars
  BY <1>1, <1>2, <1>7 DEF allVars, vars, linkVars, creditVars, connVars
<1> QED
  BY <1>1, <1>3, <1>4, <1>5, <1>6, <1>7, CreditWorker, NoCloseAlive DEF ConnNext, MainThread

\* In order, and no credit is made; or all of it is there.
CreditInv ==
    FirstOpen => Doomed \/ (Alive /\ Contents /\ CreditBefore /\ CreditSoFar)
AllCreditInv ==
    FirstOpen => Doomed \/ (Alive /\ Contents /\ CreditBefore /\ CreditSoFar /\ CreditThere)

LEMMA CreditInvInit ==
  ASSUME RoomForHandshake, ConnInit
  PROVE  CreditInv /\ AllCreditInv
<1>1. \A e \in Endpoint : fabric[Peer(e)] = <<>> /\ ~connection[e]
  BY Peers DEF ConnInit
<1>2. Contents
  <2>1. DOMAIN <<>> = {}
    BY EmptySeq, SMT
  <2> QED
    BY <1>1, <2>1 DEF Contents, CarriedFrom
<1>3. CreditBefore
  BY DEF ConnInit, CreditBefore
<1>4. CreditSoFar /\ CreditThere
  BY <1>1 DEF CreditSoFar, CreditThere
<1> QED
  BY <1>2, <1>3, <1>4, OpenInvInit DEF CreditInv, AllCreditInv, OpenInv

LEMMA CreditInvStep ==
  ASSUME RoomForHandshake, CLOSE_UNCONNECTED = FALSE, TypeOK, ConnVarsType, RestInv, WindowInv,
         AckBufferFresh, TypeOK', WindowInv', CreditsAreNat', [ConnNext]_allVars
  PROVE  /\ CreditInv => CreditInv'
         /\ AllFits /\ AllCreditInv => AllCreditInv'
<1>1. FirstOpen' => FirstOpen
  BY OpensStep
<1>2. FirstOpen' /\ Doomed => Doomed'
  BY DoomedStep
<1>3. FirstOpen' /\ Alive => Alive' \/ Doomed'
  BY AliveStep
<1>4. Alive /\ Alive' /\ Contents => Contents'
  BY ContentsStep
<1>5. Alive /\ Alive' /\ Contents /\ CreditBefore /\ CreditSoFar =>
         CreditBefore' /\ CreditSoFar' /\ (AllFits /\ CreditThere => CreditThere')
  BY CreditStage
<1> QED
  BY <1>1, <1>2, <1>3, <1>4, <1>5 DEF CreditInv, AllCreditInv

\* What the sums mean once both are connected.
LEMMA CreditInvMeans ==
  ASSUME RoomForHandshake, TypeOK, RestInv, WindowInv, FirstOpen
  PROVE  /\ CreditInv => ConnectedCreditNeverMade
         /\ AllCreditInv => ConnectedCredit
<1>1. SUFFICES ASSUME Connected
               PROVE  /\ CreditInv => CreditNeverMade
                      /\ AllCreditInv => CreditConservation
  BY DEF ConnectedCreditNeverMade, ConnectedCredit
<1>2. ~Doomed
  BY <1>1 DEF Doomed, Connected, Closed, Hopeless, Opening
<1>3. ASSUME Alive, Contents, NEW e \in Endpoint, NEW c \in Channel
      PROVE  CreditOf(e, c) = CreditNow(e, c)
  BY <1>3, AliveInOrder, CreditIs DEF InOrder
<1>4. CreditInv => CreditNeverMade
  BY <1>1, <1>2, <1>3 DEF CreditInv, CreditSoFar, CreditNeverMade, Connected
<1>5. AllCreditInv => CreditConservation
  BY <1>1, <1>2, <1>3 DEF AllCreditInv, CreditThere, CreditConservation, Connected
<1> QED
  BY <1>4, <1>5

LEMMA CreditsTyped ==
  ASSUME TypeOK
  PROVE  CreditsAreNat
BY CreditIsNat DEF CreditsAreNat

-----------------------------------------------------------------------------
\* In the first connection, whatever of the handshake and of the traffic is
\* lost, repeated or taken late, and whether or not retransmit elements can be
\* allocated, no endpoint believes in credit its peer has not: frames of the
\* handshake still under way set nothing once it is over.  (set_credit of
\* open_conn_*, against fc_credit_dec and fc_credit_inc)
THEOREM FirstConnectionNoCreditMade ==
  ASSUME RoomForHandshake, CLOSE_UNCONNECTED = FALSE
  PROVE  ConnSpec /\ []AckBufferFresh => [](FirstOpen => ConnectedCreditNeverMade)
BY CreditInvInit, CreditInvStep, CreditInvMeans, CreditsTyped, ConnRestInit, ConnTypeStep,
   ConnVarsStep, RestStep, ConnWindowStep, PTL DEF ConnSpec

\* As long as retransmit elements can be allocated, each believes in exactly the
\* credit its peer has: the handshake itself neither loses any nor gives any
\* twice.  (set_credit, check_all_channels, against fc_credit_dec, fc_credit_inc,
\* add_channel_flow_credits)
THEOREM FirstConnectionCredit ==
  ASSUME RoomForHandshake, CLOSE_UNCONNECTED = FALSE, MAX_ALLOC_FAILED = 0,
         TL_MSG_BUFFER_CAP >= CREDIT + CREDIT
  PROVE  ConnSpec /\ []AckBufferFresh => [](FirstOpen => ConnectedCredit)
<1>1. AllFits
  BY DEF AllFits
<1> QED
  BY <1>1, CreditInvInit, CreditInvStep, CreditInvMeans, CreditsTyped, ConnRestInit, ConnTypeStep,
     ConnVarsStep, RestStep, ConnWindowStep, PTL DEF ConnSpec
=============================================================================

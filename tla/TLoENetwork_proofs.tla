-------------------------- MODULE TLoENetwork_proofs --------------------------
(***************************************************************************)
(* Proofs about frames: what a receiver takes out is what the sender put in *)
(* exactly as long as message and mask do not share a flit, and Ethernet    *)
(* leaves frames the size the mask is looked for by.  And about the network *)
(* simulator: types, its single thread, its drop counters, and that it is a *)
(* lossy first-in first-out fabric.                                         *)
(***************************************************************************)
EXTENDS TLoENetwork, SequenceTheorems, TLAPS

-----------------------------------------------------------------------------
(***************************************************************************)
(* Frames                                                                   *)
(***************************************************************************)
\* Powers of two as the table has them.
LEMMA TwoToType == \A n \in 0..15 : TwoTo[n + 1] \in Nat \ {0}
BY DEF TwoTo

LEMMA TwoToValue ==
    /\ \A n \in 0..4 : TwoTo[n + 1] <= 16
    /\ TwoTo[4] = 8 /\ TwoTo[5] = 16 /\ TwoTo[6] = 32
    /\ \A n \in 3..15 : TwoTo[n + 1] % 8 = 0
    /\ \A n \in 5..15 : TwoTo[n + 1] >= 32
    /\ \A n \in 6..15 : TwoTo[n + 1] >= 64
BY DEF TwoTo

\* Headers are of no, one or two flits.
LEMMA HeaderSize ==
    ASSUME NEW m \in TLMsg
    PROVE  tlmsg_get_header_size(m) \in {0, 8, 16}
BY TwoToValue DEF TLMsg, tlmsg_get_header_size, Shifted, CHANNEL_A, CHANNEL_B, CHANNEL_C, CHANNEL_D, CHANNEL_E

LEMMA DataSize ==
    ASSUME NEW m \in TLMsg
    PROVE  /\ tlmsg_get_data_size(m) \in Nat
           /\ tlmsg_get_data_size(m) < 8 \/ tlmsg_get_data_size(m) % 8 = 0
<1>1. tlmsg_get_data_size(m) = 0 \/ tlmsg_get_data_size(m) = TwoTo[m.size + 1]
  BY DEF tlmsg_get_data_size, Shifted, TLMsg
<1>2. m.size \in 0..15
  BY DEF TLMsg
<1>3. \A n \in 0..2 : TwoTo[n + 1] < 8
  BY DEF TwoTo
<1> QED
  BY <1>1, <1>2, <1>3, TwoToType, TwoToValue

\* The frame is of whole flits, the message fits in it, and leaves the last
\* flit free exactly if it has no more than 40 bytes.
LEMMA FrameSize ==
    ASSUME NEW m \in TLMsg, m # NoMsg
    PROVE  LET N == tloe_get_fsize(m) \div 8 - 1
               cnt == tlmsg_get_flits_cnt(m)
           IN  /\ tloe_get_fsize(m) \in Nat /\ tloe_get_fsize(m) >= 56
               /\ N \in Nat /\ N >= 6 /\ (tloe_get_fsize(m) - 8) \div 8 = N
               /\ cnt \in Nat
               /\ tlmsg_get_total_size(m) <= 40 => cnt < N
               /\ tlmsg_get_total_size(m) > 40 => cnt = N
<1> DEFINE h == tlmsg_get_header_size(m)
           d == tlmsg_get_data_size(m)
<1>1. h \in {0, 8, 16} /\ d \in Nat /\ (d < 8 \/ d % 8 = 0)
  BY HeaderSize, DataSize
<1>2. tlmsg_get_total_size(m) = h + d
  BY DEF tlmsg_get_total_size
<1>3. tlmsg_get_flits_cnt(m) = (h + 7) \div 8 + (d + 7) \div 8
  BY DEF tlmsg_get_flits_cnt, convert_size_to_flits
<1>4. tloe_get_fsize(m) = IF 8 + h + d < 56 THEN 56 ELSE 8 + h + d
  BY <1>1, <1>2 DEF tloe_get_fsize, DEFAULT_FRAME_SIZE
<1> HIDE DEF h, d
<1> QED
  BY <1>1, <1>2, <1>3, <1>4

\* Byte order: there and back again.
LEMMA OrderTwice ==
    ASSUME NEW kind, NEW m, NEW place
    PROVE  htobe64(htobe64(Flit(kind, m, place))) = Flit(kind, m, place)
BY DEF htobe64, Flit

LEMMA PacketTwice ==
    ASSUME NEW size \in Nat, (size - 8) \div 8 = size \div 8 - 1,
           NEW flits, flits = [i \in 1..(size \div 8 - 1) |-> flits[i]],
           \A i \in 1..(size \div 8 - 1) :
               \E kind, m, place : flits[i] = Flit(kind, m, place)
    PROVE  packet_to_tloe_frame(tloe_frame_to_packet(flits, size)) = flits
<1> DEFINE N == size \div 8 - 1
           packet == tloe_frame_to_packet(flits, size)
<1>1. packet.size = size /\ \A i \in 1..N : packet.words[i] = htobe64(flits[i])
  BY DEF tloe_frame_to_packet
<1>2. \A i \in 1..N : htobe64(packet.words[i]) = flits[i]
  <2> TAKE i \in 1..N
  <2>1. PICK kind, m, place : flits[i] = Flit(kind, m, place)
    OBVIOUS
  <2> QED
    BY <2>1, <1>1, OrderTwice
<1>3. packet_to_tloe_frame(packet) = [i \in 1..N |-> htobe64(packet.words[i])]
  BY <1>1 DEF packet_to_tloe_frame
<1> HIDE DEF N, packet
<1>4. packet_to_tloe_frame(packet) = [i \in 1..N |-> flits[i]]
  BY <1>2, <1>3
<1> QED
  BY <1>4 DEF N, packet

\* The flits of a frame with a message, one by one.
LEMMA FlitsAre ==
    ASSUME NEW m \in TLMsg, m # NoMsg
    PROVE  LET N == tloe_get_fsize(m) \div 8 - 1
           IN  FlitsOf(m) = [i \in 1..N |->
                   IF i = N THEN Mask(1)
                   ELSE IF i <= tlmsg_get_flits_cnt(m) THEN MsgFlit(m, i) ELSE Padding]
<1> DEFINE size == tloe_get_fsize(m)
           N == size \div 8 - 1
           cnt == tlmsg_get_flits_cnt(m)
           blank == [i \in 1..N |-> Padding]
<1>1. FlitsOf(m) = tloe_set_mask(tloe_set_tlmsg(blank, m), 1, size)
  BY DEF FlitsOf
<1>2. tloe_set_tlmsg(blank, m) = [i \in 1..N |-> IF i <= cnt THEN MsgFlit(m, i) ELSE Padding]
  BY DEF tloe_set_tlmsg
<1>3. FlitsOf(m) = [tloe_set_tlmsg(blank, m) EXCEPT ![N] = Mask(1)]
  BY <1>1 DEF tloe_set_mask, MaskPlace
<1> HIDE DEF size, N, cnt, blank
<1>4. FlitsOf(m) = [i \in 1..N |-> IF i = N THEN Mask(1)
                                ELSE IF i <= cnt THEN MsgFlit(m, i) ELSE Padding]
  BY <1>2, <1>3
<1> QED
  BY <1>4 DEF N, size, cnt

\* A frame without a message yields none.
LEMMA NothingExtracted == Extracted(Packet(NoMsg)) = <<>>
<1> DEFINE flits == [i \in 1..6 |-> IF i = 6 THEN Mask(0) ELSE Padding]
<1>1. tloe_get_fsize(NoMsg) = 56
  BY DEF tloe_get_fsize, DEFAULT_FRAME_SIZE
<1>2. FlitsOf(NoMsg) = flits
  BY <1>1 DEF FlitsOf, tloe_set_mask, MaskPlace
<1>3. \A i \in 1..6 : \E kind, m, place : flits[i] = Flit(kind, m, place)
  BY DEF Mask, Padding
<1>4. flits = [i \in 1..6 |-> flits[i]] /\ flits[6] = Mask(0)
  OBVIOUS
<1> HIDE DEF flits
<1>5. packet_to_tloe_frame(tloe_frame_to_packet(flits, 56)) = flits
  <2> DEFINE size == 56
  <2>1. size \in Nat /\ (size - 8) \div 8 = size \div 8 - 1 /\ size \div 8 - 1 = 6
    OBVIOUS
  <2> HIDE DEF size
  <2>2. flits = [i \in 1..(size \div 8 - 1) |-> flits[i]]
    BY <1>4, <2>1
  <2>3. \A i \in 1..(size \div 8 - 1) : \E kind, m, place : flits[i] = Flit(kind, m, place)
    BY <1>3, <2>1
  <2>4. packet_to_tloe_frame(tloe_frame_to_packet(flits, size)) = flits
    BY <2>1, <2>2, <2>3, PacketTwice
  <2> QED
    BY <2>4 DEF size
<1>6. tloe_frame_to_packet(flits, 56).size = 56
  BY DEF tloe_frame_to_packet
<1> QED
  BY <1>1, <1>2, <1>4, <1>5, <1>6 DEF Packet, Extracted, is_zero_tl_frame, tloe_get_mask, MaskPlace

\* RX takes out the message TX put in if and only if it has at most 40 bytes:
\* beyond that the mask takes the place of its last flit.  (tloe_set_mask,
\* tloe_set_tlmsg, tloe_get_tlmsg)
THEOREM MessageSurvives ==
    ASSUME NEW m \in TLMsg, m # NoMsg
    PROVE  Extracted(Packet(m)) = Contents(m) <=> tlmsg_get_total_size(m) <= 40
<1> DEFINE size == tloe_get_fsize(m)
           N == size \div 8 - 1
           cnt == tlmsg_get_flits_cnt(m)
           flits == FlitsOf(m)
<1>1. /\ size \in Nat /\ N \in Nat /\ N >= 6 /\ (size - 8) \div 8 = N /\ cnt \in Nat
      /\ tlmsg_get_total_size(m) <= 40 => cnt < N
      /\ tlmsg_get_total_size(m) > 40 => cnt = N
      /\ tlmsg_get_total_size(m) \in Nat
  BY FrameSize, HeaderSize, DataSize DEF tlmsg_get_total_size
<1>2. flits = [i \in 1..N |-> IF i = N THEN Mask(1)
                              ELSE IF i <= cnt THEN MsgFlit(m, i) ELSE Padding]
  BY FlitsAre
<1>3. size \div 8 - 1 = N
  OBVIOUS
<1>4. Packet(m) = tloe_frame_to_packet(flits, size)
  BY DEF Packet
<1>5. MaskPlace(size) = N
  BY DEF MaskPlace
<1>6. Contents(m) = [i \in 1..cnt |-> MsgFlit(m, i)]
  BY DEF Contents, Words
<1> HIDE DEF size, N, cnt, flits
<1>7. packet_to_tloe_frame(Packet(m)) = flits
  <2>1. \A i \in 1..N : \E kind, n, place : flits[i] = Flit(kind, n, place)
    BY <1>1, <1>2 DEF Mask, Padding, MsgFlit
  <2>2. flits = [i \in 1..N |-> flits[i]]
    BY <1>2
  <2> QED
    BY <2>1, <2>2, <1>1, <1>3, <1>4, PacketTwice
<1>8. Packet(m).size = size
  BY <1>4 DEF tloe_frame_to_packet
<1>9. flits[N] = Mask(1) /\ Mask(1) # Mask(0)
  BY <1>1, <1>2 DEF Mask, Flit
<1>10. Extracted(Packet(m)) = tloe_get_tlmsg(flits)
  BY <1>5, <1>7, <1>8, <1>9 DEF Extracted, is_zero_tl_frame, tloe_get_mask
<1>11. tlmsg_get_flits_cnt(flits[1].msg) = cnt
  <2>1. CASE cnt = 0
    <3>1. flits[1].msg = NoMsg
      BY <2>1, <1>1, <1>2 DEF Padding, Flit
    <3>2. tlmsg_get_header_size(NoMsg) = 0
      BY DEF tlmsg_get_header_size, Shifted, NoMsg, CHANNEL_A, CHANNEL_B, CHANNEL_C,
             CHANNEL_D, CHANNEL_E
    <3>3. tlmsg_get_data_size(NoMsg) = 0
      BY DEF tlmsg_get_data_size, Shifted, NoMsg, CHANNEL_A, CHANNEL_B, CHANNEL_C, CHANNEL_D
    <3> QED
      BY <2>1, <3>1, <3>2, <3>3 DEF tlmsg_get_flits_cnt, convert_size_to_flits
  <2>2. CASE cnt # 0
    <3>1. flits[1] = MsgFlit(m, 1)
      BY <2>2, <1>1, <1>2
    <3> QED
      BY <3>1 DEF MsgFlit, Flit, cnt
  <2> QED
    BY <2>1, <2>2
<1>12. Extracted(Packet(m)) = [i \in 1..cnt |-> flits[i]]
  BY <1>10, <1>11 DEF tloe_get_tlmsg
<1>13. CASE tlmsg_get_total_size(m) <= 40
  <2>1. \A i \in 1..cnt : flits[i] = MsgFlit(m, i)
    BY <1>1, <1>2, <1>13
  <2> QED
    BY <2>1, <1>6, <1>12, <1>13
<1>14. CASE tlmsg_get_total_size(m) > 40
  <2>1. Extracted(Packet(m))[cnt] = Mask(1)
    BY <1>1, <1>9, <1>12, <1>14
  <2>2. Contents(m)[cnt] = MsgFlit(m, cnt)
    BY <1>1, <1>6, <1>14
  <2>3. MsgFlit(m, cnt) # Mask(1)
    BY DEF MsgFlit, Mask, Flit
  <2> QED
    BY <2>1, <2>2, <2>3, <1>1, <1>14
<1> QED
  BY <1>1, <1>13, <1>14

\* Over Ethernet, too, a frame arrives with the size it was sent with, neither
\* padded nor cut, so that the receiver looks for the mask where the sender put
\* it.  (tloe_get_fsize against tloe_ether_send and tloe_ether_recv)
THEOREM EthernetKeepsSize ==
    ASSUME NEW m \in TLMsg, m # NoMsg, tlmsg_get_total_size(m) <= 1492
    PROVE  tloe_ether_recv(tloe_ether_send(tloe_get_fsize(m))) = tloe_get_fsize(m)
<1>1. tloe_get_fsize(m) \in Nat /\ tloe_get_fsize(m) >= 56
  BY FrameSize
<1>2. tloe_get_fsize(m) <= 1500
  BY HeaderSize, DataSize DEF tloe_get_fsize, DEFAULT_FRAME_SIZE, tlmsg_get_total_size
<1> QED
  BY <1>1, <1>2 DEF tloe_ether_recv, tloe_ether_send, ETHER_HDR_LEN, ETHER_MIN_LEN, ETHERMTU,
                    MAX_BUFFER_SIZE

-----------------------------------------------------------------------------
(***************************************************************************)
(* Types                                                                    *)
(***************************************************************************)
\* Each message of the endpoints survives its packet.
LEMMA RoundTrip ==
    ASSUME NEW m \in MESSAGES
    PROVE  Extracted(Packet(m)) = Contents(m)
BY MessageSurvives, NothingExtracted, NetworkAssumption DEF Contents, NetworkAssumption

LEMMA SendType ==
    ASSUME NEW T, NEW q \in Seq(T), NEW x \in T
    PROVE  tloe_mq_send(q, x) \in Seq(T)
BY DEF tloe_mq_send

LEMMA OtherPort == \A p \in Port : Other(p) \in Port /\ Other(p) # p /\ Other(Other(p)) = p
BY DEF Port, Other

LEMMA FlushKeeps == \A q : flush_message_queue(q) = q
BY DEF flush_message_queue, BUFFER_SIZE, TLOE_MQ_MSG_SIZE

LEMMA TypeInit == Init => NetworkTypeOK
BY DEF Init, NetworkTypeOK, Port

\* A thread that is started finds no packet of a former one in its buffer.
LEMMA TypeStep == NetworkTypeOK /\ SingleThread /\ [Next]_vars => NetworkTypeOK'
<1> SUFFICES ASSUME NetworkTypeOK, SingleThread, [Next]_vars
             PROVE  NetworkTypeOK'
  OBVIOUS
<1> USE DEF NetworkTypeOK
<1>1. ASSUME NEW p \in Port, Endpoint_Send(p) PROVE NetworkTypeOK'
  <2>1. PICK m \in MESSAGES : /\ rx' = [rx EXCEPT ![p] = tloe_mq_send(@, Packet(m))]
                              /\ sent' = [sent EXCEPT ![p] = Append(@, Contents(m))]
    BY <1>1 DEF Endpoint_Send
  <2>2. tloe_mq_send(rx[p], Packet(m)) \in Seq(PacketType)
    BY SendType DEF PacketType
  <2>3. rx' \in [Port -> Seq(PacketType)]
    BY <2>1, <2>2
  <2>4. sent' \in [Port -> Seq(ContentType)]
    <3>1. Contents(m) \in ContentType
      BY DEF ContentType
    <3> QED
      BY <2>1, <3>1
  <2> QED
    BY <1>1, <2>3, <2>4 DEF Endpoint_Send, threadVars, dropVars, mainVars
<1>2. ASSUME NEW p \in Port, Endpoint_Recv(p) PROVE NetworkTypeOK'
  <2>1. Head(tx[p]) \in PacketType /\ Tail(tx[p]) \in Seq(PacketType)
    BY <1>2 DEF Endpoint_Recv
  <2>2. PICK m \in MESSAGES : Head(tx[p]) = Packet(m)
    BY <2>1 DEF PacketType
  <2>3. Extracted(Head(tx[p])) \in ContentType
    BY <2>2, RoundTrip DEF ContentType
  <2>4. received' \in [Port -> Seq(ContentType)]
    BY <1>2, <2>3, OtherPort DEF Endpoint_Recv
  <2>5. tx' \in [Port -> Seq(PacketType)]
    BY <1>2, <2>1 DEF Endpoint_Recv
  <2> QED
    BY <1>2, <2>4, <2>5 DEF Endpoint_Recv, threadVars, dropVars, mainVars
<1>3. CASE thread_fn
  <2> USE DEF dropVars, mainVars, endVars
  <2>1. CASE thread_init
    BY <2>1 DEF thread_init
  <2>2. CASE Loop
    BY <2>2 DEF Loop, Port
  <2>3. CASE Recv_Nothing
    BY <2>3 DEF Recv_Nothing, NextPort, Port
  <2>4. CASE Recv_Drop
    <3>1. rx' \in [Port -> Seq(PacketType)]
      BY <2>4 DEF Recv_Drop, Received
    <3> QED
      BY <2>4, <3>1 DEF Recv_Drop, Received
  <2>5. CASE Store
    BY <2>5 DEF Store, NextPort, Port
  <2>6. CASE Recv_Relay
    <3>1. rx' \in [Port -> Seq(PacketType)]
      BY <2>6 DEF Recv_Relay, Received
    <3>2. buffer' \in Seq(PacketType) /\ Len(buffer') = 1
      BY <2>6 DEF Recv_Relay, Received
    <3> QED
      BY <2>6, <3>1, <3>2 DEF Recv_Relay, Received
  <2>7. CASE Relay
    <3>1. buffer[1] \in PacketType
      <4>1. buffer \in Seq(PacketType) /\ Len(buffer) = 1
        BY <2>7 DEF Relay
      <4> HIDE DEF NetworkTypeOK
      <4> QED
        BY <4>1
    <3>2. tloe_mq_send(tx[Other(from)], buffer[1]) \in Seq(PacketType)
      BY <3>1, SendType, OtherPort
    <3>3. tx' \in [Port -> Seq(PacketType)]
      BY <2>7, <3>2, OtherPort DEF Relay
    <3> QED
      BY <2>7, <3>3 DEF Relay, NextPort, Port
  <2> QED
    BY <1>3, <2>1, <2>2, <2>3, <2>4, <2>5, <2>6, <2>7 DEF thread_fn
<1>4. CASE MainThread
  <2> USE DEF threadVars, dropVars, endVars
  <2>0. commands + 1 \in Nat
    OBVIOUS
  <2>1. CASE tloe_ns_thread_start
    <3>1. thread = "none"
      BY <2>1 DEF tloe_ns_thread_start, Command, SingleThread
    <3> QED
      BY <2>0, <2>1, <3>1 DEF tloe_ns_thread_start, Command
  <2>2. ASSUME NEW then \in {"joining", "quitting"}, Stop(then) PROVE NetworkTypeOK'
    BY <2>2 DEF Stop, Command
  <2>3. CASE pthread_join
    BY <2>3 DEF pthread_join
  <2>4. ASSUME NEW p \in Port, NEW count \in DROP_COUNTS, tloe_ns_set_drop_count(p, count)
        PROVE NetworkTypeOK'
    <3>1. count \in Nat
      BY NetworkAssumption DEF NetworkAssumption
    <3>2. drop_count' \in [Port -> Nat] /\ ordered' \in [Port -> Nat]
      BY <2>4, <3>1 DEF tloe_ns_set_drop_count
    <3> QED
      BY <2>0, <2>4, <3>2 DEF tloe_ns_set_drop_count, Command
  <2>5. CASE tloe_ns_flush_ports
    <3>1. rx' = rx /\ tx' = tx
      BY <2>5, FlushKeeps DEF tloe_ns_flush_ports
    <3> QED
      BY <2>5, <3>1 DEF tloe_ns_flush_ports, Command
  <2>6. ASSUME Exit, commands' \in Nat PROVE NetworkTypeOK'
    <3>1. buffer' \in Seq(PacketType) /\ Len(buffer') = 0
      BY <2>6 DEF Exit
    <3> QED
      BY <2>6, <3>1 DEF Exit
  <2>7. CASE Flush_TooEarly \/ Quit_Stopped
    BY <2>0, <2>6, <2>7 DEF Flush_TooEarly, Quit_Stopped, Command
  <2>8. CASE EndOfInput
    BY <2>6, <2>8 DEF EndOfInput
  <2>9. CASE Rerun
    <3>1. drop_count' \in [Port -> Nat]
      BY <2>9 DEF Rerun
    <3> QED
      BY <2>9, <3>1 DEF Rerun
  <2> QED
    BY <1>4, <2>1, <2>2, <2>3, <2>4, <2>5, <2>6, <2>7, <2>8, <2>9
       DEF MainThread, Quit_Running, tloe_ns_thread_stop
<1>5. CASE UNCHANGED vars
  BY <1>5 DEF vars, threadVars, dropVars, mainVars, endVars
<1> QED
  BY <1>1, <1>2, <1>3, <1>4, <1>5 DEF Next

LEMMA SingleThreadInit == Init => SingleThread
BY DEF Init, SingleThread

LEMMA SingleThreadStep == NetworkTypeOK /\ SingleThread /\ [Next]_vars => SingleThread'
BY DEF NetworkTypeOK, SingleThread, Next, vars, threadVars, dropVars, mainVars, endVars,
       Endpoint_Send, Endpoint_Recv, thread_fn, thread_init, Loop, NextPort, Recv_Nothing,
       Received, Recv_Drop, Store, Recv_Relay, Relay, MainThread, Command,
       tloe_ns_thread_start, Stop, tloe_ns_thread_stop, pthread_join,
       tloe_ns_set_drop_count, tloe_ns_flush_ports, Exit, Flush_TooEarly, Quit_Running,
       Quit_Stopped, EndOfInput, Rerun

\* Type correctness, for any messages of up to 40 bytes, queues of any length and
\* users who order any number of packets to be dropped.  (tloe_ns_thread.c)
THEOREM NetworkTypeCorrect == Spec => []NetworkTypeOK
BY TypeInit, TypeStep, SingleThreadInit, SingleThreadStep, PTL DEF Spec

\* At most one thread ever relays, and the prompt knows whether it does.
\* (tloe_ns_thread_start, tloe_ns_thread_stop)
THEOREM SingleThreadAlways == Spec => []SingleThread
BY TypeInit, TypeStep, SingleThreadInit, SingleThreadStep, PTL DEF Spec

-----------------------------------------------------------------------------
(***************************************************************************)
(* The drop counters                                                        *)
(***************************************************************************)
\* What the other thread and the endpoints do to neither counter nor thread.
LEMMA AccountedKept ==
    ASSUME NetworkTypeOK, NEW p \in Port, Accounted(p), UNCHANGED dropVars,
           main' # "gone" => main # "gone",
           thread' = "store" => UNCHANGED <<thread, from, loaded>>,
           thread # "store" \/ UNCHANGED <<thread, from, loaded>> \/ main' = "gone"
    PROVE  Accounted(p)'
BY DEF NetworkTypeOK, Accounted, dropVars

LEMMA AccountedStep ==
    NetworkTypeOK /\ SingleThread /\ DropsAccounted /\ [Next]_vars => DropsAccounted'
<1> SUFFICES ASSUME NetworkTypeOK, SingleThread, [Next]_vars, NEW p \in Port, Accounted(p)
             PROVE  Accounted(p)'
  BY DEF DropsAccounted
<1>1. CASE \/ UNCHANGED vars
           \/ \E q \in Port : Endpoint_Send(q) \/ Endpoint_Recv(q)
           \/ thread_init \/ Loop \/ Recv_Nothing \/ Recv_Relay \/ Relay
  BY <1>1, AccountedKept DEF vars, threadVars, mainVars, dropVars, Endpoint_Send, Endpoint_Recv,
         thread_init, Loop, Recv_Nothing, Recv_Relay, Received, Relay, NextPort
<1>2. CASE \/ Stop("joining") \/ Stop("quitting") \/ pthread_join \/ Exit
           \/ tloe_ns_flush_ports
  BY <1>2, AccountedKept DEF threadVars, Stop, Command, pthread_join, Exit, tloe_ns_flush_ports
<1>3. CASE tloe_ns_thread_start
  BY <1>3, AccountedKept DEF tloe_ns_thread_start, Command, SingleThread
<1>4. CASE Recv_Drop
  <2>1. /\ drop_count[from] > 0 /\ loaded' = drop_count[from]
        /\ dropped' = [dropped EXCEPT ![from] = @ + 1]
        /\ thread = "recv" /\ thread' = "store"
        /\ UNCHANGED <<drop_count, ordered, from, main>>
    BY <1>4 DEF Recv_Drop, Received, mainVars
  <2>2. dropped \in [Port -> Nat] /\ drop_count \in [Port -> Nat] /\ ordered \in [Port -> Nat]
    BY DEF NetworkTypeOK
  <2>3. main # "gone"
    BY <2>1 DEF SingleThread
  <2>4. dropped[p] + drop_count[p] <= ordered[p]
    BY <2>1, <2>3 DEF Accounted
  <2>5. CASE from = p
    <3>1. dropped'[p] = dropped[p] + 1 /\ loaded' = drop_count[p]
      BY <2>1, <2>2, <2>5
    <3> QED
      BY <2>1, <2>2, <2>4, <2>5, <3>1 DEF Accounted
  <2>6. CASE from # p
    <3>1. dropped'[p] = dropped[p]
      BY <2>1, <2>2, <2>6
    <3> QED
      BY <2>1, <2>2, <2>4, <2>6, <3>1 DEF Accounted
  <2> QED
    BY <2>5, <2>6
<1>5. CASE Store
  BY <1>5 DEF Store, NextPort, mainVars, Accounted, NetworkTypeOK
<1>6. ASSUME NEW q \in Port, NEW count \in DROP_COUNTS, tloe_ns_set_drop_count(q, count)
      PROVE  Accounted(p)'
  <2>1. count \in Nat
    BY NetworkAssumption DEF NetworkAssumption
  <2> QED
    <3>1. CASE q = p
      <4>1. drop_count'[p] = count /\ ordered'[p] = ordered[p] + count
        BY <1>6, <3>1 DEF tloe_ns_set_drop_count, NetworkTypeOK
      <4>2. dropped[p] \in Nat /\ ordered[p] \in Nat /\ loaded \in Nat
        BY DEF NetworkTypeOK
      <4>3. UNCHANGED <<dropped, thread, from, loaded, main>> /\ main = "prompt"
        BY <1>6 DEF tloe_ns_set_drop_count, Command, threadVars
      <4>4. dropped[p] <= ordered[p]
            /\ (thread = "store" /\ from = p => dropped[p] + loaded - 1 <= ordered[p])
        BY <4>3 DEF Accounted
      <4> QED
        BY <2>1, <4>1, <4>2, <4>3, <4>4 DEF Accounted
    <3>2. CASE q # p
      <4>1. drop_count'[p] = drop_count[p] /\ ordered'[p] = ordered[p]
        BY <1>6, <3>2 DEF tloe_ns_set_drop_count, NetworkTypeOK
      <4> QED
        BY <1>6, <4>1 DEF tloe_ns_set_drop_count, Command, threadVars, Accounted, NetworkTypeOK
    <3> QED
      BY <3>1, <3>2
<1>7. CASE Rerun
  BY <1>7 DEF Rerun, Accounted, NetworkTypeOK, SingleThread
<1> QED
  BY <1>1, <1>2, <1>3, <1>4, <1>5, <1>6, <1>7
     DEF Next, thread_fn, MainThread, tloe_ns_thread_stop, Quit_Running, Quit_Stopped,
         Flush_TooEarly, EndOfInput

\* Whatever the counter and a store still pending allow to be dropped was
\* ordered, on top of what has been dropped, however commands, the unlocked
\* decrement, stops and restarts fall together.  (drop_count_a_to_b--)
THEOREM DropsAreAccounted == Spec => []DropsAccounted
<1>1. Init => DropsAccounted
  BY DEF Init, DropsAccounted, Accounted
<1> QED
  BY <1>1, AccountedStep, NetworkTypeCorrect, SingleThreadAlways, PTL DEF Spec

\* Hence no packet is dropped that was not ordered to be dropped.
THEOREM DropsWereOrdered == Spec => []DropsOrdered
<1>1. DropsAccounted => DropsOrdered
  BY DEF DropsAccounted, Accounted, DropsOrdered
<1> QED
  BY <1>1, DropsAreAccounted, PTL

-----------------------------------------------------------------------------
(***************************************************************************)
(* The simulator is a lossy fabric                                          *)
(***************************************************************************)
LEMMA CarriedType ==
    ASSUME NEW q \in Seq(PacketType)
    PROVE  Carried(q) \in Seq(ContentType) /\ Len(Carried(q)) = Len(q)
<1>1. \A i \in 1..Len(q) : Extracted(q[i]) \in ContentType
  <2> TAKE i \in 1..Len(q)
  <2>1. PICK m \in MESSAGES : q[i] = Packet(m)
    BY DEF PacketType
  <2> QED
    BY <2>1, RoundTrip DEF ContentType
<1> QED
  BY <1>1 DEF Carried

LEMMA CarriedEmpty == Carried(<<>>) = <<>>
BY DEF Carried

LEMMA CarriedOne == ASSUME NEW x PROVE Carried(<<x>>) = <<Extracted(x)>>
BY DEF Carried

\* Sequences as functions.
LEMMA AppendIs ==
    ASSUME NEW S, NEW s \in Seq(S), NEW x \in S
    PROVE  Append(s, x) = [i \in 1..(Len(s) + 1) |-> IF i = Len(s) + 1 THEN x ELSE s[i]]
<1>1. Append(s, x) \in [1..(Len(s) + 1) -> S] /\ Len(s) \in Nat
  BY AppendProperties, LenProperties
<1>2. \A i \in 1..(Len(s) + 1) : Append(s, x)[i] = IF i = Len(s) + 1 THEN x ELSE s[i]
  BY AppendProperties, <1>1
<1> QED
  BY <1>1, <1>2

LEMMA TailIs ==
    ASSUME NEW S, NEW s \in Seq(S), s # <<>>
    PROVE  Tail(s) = [i \in 1..(Len(s) - 1) |-> s[i + 1]]
<1>1. /\ Tail(s) \in [1..(Len(s) - 1) -> S]
      /\ \A i \in 1..(Len(s) - 1) : Tail(s)[i] = s[i + 1]
  <2>1. Tail(s) \in Seq(S) /\ Len(Tail(s)) = Len(s) - 1
        /\ \A i \in 1..Len(Tail(s)) : Tail(s)[i] = s[i + 1]
    BY HeadTailProperties
  <2>2. Tail(s) \in [1..Len(Tail(s)) -> S]
    BY <2>1, LenProperties
  <2> QED
    BY <2>1, <2>2
<1> QED
  BY <1>1

LEMMA JoinIs ==
    ASSUME NEW S, NEW s \in Seq(S), NEW u \in Seq(S)
    PROVE  s \o u = [i \in 1..(Len(s) + Len(u)) |-> IF i <= Len(s) THEN s[i] ELSE u[i - Len(s)]]
<1>1. /\ s \o u \in Seq(S) /\ Len(s \o u) = Len(s) + Len(u)
      /\ \A i \in 1..(Len(s) + Len(u)) :
             (s \o u)[i] = IF i <= Len(s) THEN s[i] ELSE u[i - Len(s)]
  BY ConcatProperties
<1>2. s \o u \in [1..(Len(s) + Len(u)) -> S]
  BY <1>1, LenProperties
<1> QED
  BY <1>1, <1>2

LEMMA CarriedAppend ==
    ASSUME NEW q \in Seq(PacketType), NEW x \in PacketType
    PROVE  Carried(Append(q, x)) = Append(Carried(q), Extracted(x))
<1>1. Carried(q) \in Seq(ContentType) /\ Len(Carried(q)) = Len(q)
  BY CarriedType
<1>2. Len(Append(q, x)) = Len(q) + 1
      /\ \A i \in 1..(Len(q) + 1) : Append(q, x)[i] = IF i = Len(q) + 1 THEN x ELSE q[i]
  OBVIOUS
<1>3. Carried(Append(q, x)) = [i \in 1..(Len(q) + 1) |-> Extracted(Append(q, x)[i])]
  BY <1>2 DEF Carried
<1>4. \A i \in 1..Len(q) : Carried(q)[i] = Extracted(q[i])
  BY DEF Carried
<1>5. Append(Carried(q), Extracted(x)) =
          [i \in 1..(Len(q) + 1) |-> IF i = Len(q) + 1 THEN Extracted(x) ELSE Carried(q)[i]]
  <2>1. Extracted(x) \in ContentType
    BY RoundTrip DEF PacketType, ContentType
  <2> QED
    BY <1>1, <2>1, AppendIs
<1> QED
  BY <1>2, <1>3, <1>4, <1>5

LEMMA CarriedTail ==
    ASSUME NEW q \in Seq(PacketType), q # <<>>
    PROVE  /\ Carried(q) # <<>>
           /\ Head(Carried(q)) = Extracted(Head(q))
           /\ Tail(Carried(q)) = Carried(Tail(q))
<1>1. Carried(q) \in Seq(ContentType) /\ Len(Carried(q)) = Len(q) /\ Len(q) \in Nat \ {0}
  BY CarriedType
<1>2. \A i \in 1..Len(q) : Carried(q)[i] = Extracted(q[i])
  BY DEF Carried
<1>3. Carried(q) # <<>> /\ Head(Carried(q)) = Extracted(Head(q))
  BY <1>1, <1>2
<1>4. Tail(q) \in Seq(PacketType) /\ Len(Tail(q)) = Len(q) - 1
      /\ \A i \in 1..(Len(q) - 1) : Tail(q)[i] = q[i + 1]
  BY <1>1
<1>5. Carried(Tail(q)) = [i \in 1..(Len(q) - 1) |-> Extracted(q[i + 1])]
  BY <1>4 DEF Carried
<1>6. Tail(Carried(q)) = [i \in 1..(Len(q) - 1) |-> Carried(q)[i + 1]]
  BY <1>1, <1>3, TailIs
<1>7. \A i \in 1..(Len(q) - 1) : Carried(q)[i + 1] = Extracted(q[i + 1])
  BY <1>1, <1>2
<1> QED
  BY <1>3, <1>5, <1>6, <1>7

\* Three sequences, one after the other, as a link is made of them.
LEMMA JoinAppend ==
    ASSUME NEW S, NEW s \in Seq(S), NEW t \in Seq(S), NEW u \in Seq(S), NEW x \in S
    PROVE  s \o t \o Append(u, x) = Append(s \o t \o u, x)
OBVIOUS

LEMMA JoinHand ==
    ASSUME NEW S, NEW s \in Seq(S), NEW u \in Seq(S), u # <<>>
    PROVE  s \o <<>> \o u = s \o <<Head(u)>> \o Tail(u)
OBVIOUS

LEMMA JoinRelay ==
    ASSUME NEW S, NEW s \in Seq(S), NEW u \in Seq(S), NEW x \in S
    PROVE  s \o <<x>> \o u = Append(s, x) \o <<>> \o u
OBVIOUS

LEMMA JoinWithout ==
    ASSUME NEW S, NEW s \in Seq(S), NEW u \in Seq(S), NEW x \in S
    PROVE  /\ Len(s) + 1 \in 1..Len(s \o <<x>> \o u)
           /\ Fabric!Without(s \o <<x>> \o u, Len(s) + 1) = s \o <<>> \o u
<1> DEFINE all == s \o <<x>> \o u
           rest == s \o <<>> \o u
<1>1. Len(s) \in Nat /\ Len(u) \in Nat
  OBVIOUS
<1>2. all \in Seq(S) /\ Len(all) = Len(s) + 1 + Len(u)
      /\ \A i \in 1..Len(s) : all[i] = s[i]
  OBVIOUS
<1>after. ASSUME NEW i \in 1..(Len(s) + Len(u)), i > Len(s)
      PROVE  all[i + 1] = u[i - Len(s)]
  <2>1. s \o <<x>> \in Seq(S) /\ Len(s \o <<x>>) = Len(s) + 1
    OBVIOUS
  <2>2. \A k \in 1..(Len(s) + 1 + Len(u)) :
            all[k] = IF k <= Len(s) + 1 THEN (s \o <<x>>)[k] ELSE u[k - (Len(s) + 1)]
    BY <2>1, ConcatProperties
  <2> HIDE DEF all
  <2>3. i + 1 \in 1..(Len(s) + 1 + Len(u)) /\ ~(i + 1 <= Len(s) + 1)
        /\ (i + 1) - (Len(s) + 1) = i - Len(s)
    BY <1>1, <1>after
  <2> QED
    BY <2>2, <2>3
<1>3. rest = [i \in 1..(Len(s) + Len(u)) |-> IF i <= Len(s) THEN s[i] ELSE u[i - Len(s)]]
  <2>1. s \o <<>> = s
    OBVIOUS
  <2> QED
    BY <2>1, JoinIs
<1>4. Fabric!Without(all, Len(s) + 1) =
          [i \in 1..(Len(s) + Len(u)) |-> IF i < Len(s) + 1 THEN all[i] ELSE all[i + 1]]
  BY <1>1, <1>2 DEF Fabric!Without
<1> HIDE DEF all, rest
<1>5. ASSUME NEW i \in 1..(Len(s) + Len(u))
      PROVE  (IF i < Len(s) + 1 THEN all[i] ELSE all[i + 1])
                 = IF i <= Len(s) THEN s[i] ELSE u[i - Len(s)]
  <2>1. CASE i <= Len(s)
    BY <1>1, <1>2, <2>1
  <2>2. CASE i > Len(s)
    BY <1>1, <1>after, <2>2
  <2> QED
    BY <1>1, <2>1, <2>2
<1>6. Fabric!Without(all, Len(s) + 1) = rest
  BY <1>3, <1>4, <1>5
<1> QED
  BY <1>1, <1>2, <1>6 DEF all, rest

-----------------------------------------------------------------------------
\* The packet at hand on its way from p, if any.
Hand(p) == IF from = p THEN Carried(buffer) ELSE <<>>

LEMMA LinkIs ==
    ASSUME NetworkTypeOK, NEW p \in Port
    PROVE  /\ Link[p] = Carried(tx[Other(p)]) \o Hand(p) \o Carried(rx[p])
           /\ Carried(tx[Other(p)]) \in Seq(ContentType)
           /\ Hand(p) \in Seq(ContentType)
           /\ Carried(rx[p]) \in Seq(ContentType)
<1>1. rx[p] \in Seq(PacketType) /\ tx[Other(p)] \in Seq(PacketType) /\ buffer \in Seq(PacketType)
  BY OtherPort DEF NetworkTypeOK
<1>2. <<>> \in Seq(ContentType)
  OBVIOUS
<1> QED
  BY <1>1, <1>2, CarriedType DEF Link, Hand

\* Without a packet at hand it does not matter which port is served.
LEMMA EmptyHanded ==
    ASSUME NetworkTypeOK, thread # "send"
    PROVE  buffer = <<>> /\ \A p \in Port : Hand(p) = <<>>
<1>1. buffer \in Seq(PacketType) /\ Len(buffer) = 0
  BY DEF NetworkTypeOK
<1>2. buffer = <<>>
  BY <1>1, EmptySeq
<1> QED
  BY <1>2, CarriedEmpty DEF Hand

LEMMA FullHanded ==
    ASSUME NetworkTypeOK, thread = "send"
    PROVE  /\ buffer = <<buffer[1]>> /\ buffer[1] \in PacketType
           /\ Extracted(buffer[1]) \in ContentType
           /\ Hand(from) = <<Extracted(buffer[1])>>
<1>1. buffer \in Seq(PacketType) /\ Len(buffer) = 1
  BY DEF NetworkTypeOK
<1>2. buffer = <<buffer[1]>> /\ buffer[1] \in PacketType
  <2>1. buffer \in [1..1 -> PacketType]
    BY <1>1, LenProperties
  <2> QED
    BY <2>1
<1>3. Extracted(buffer[1]) \in ContentType
  BY <1>2, RoundTrip DEF PacketType, ContentType
<1>4. Carried(buffer) = <<Extracted(buffer[1])>>
  BY <1>2, CarriedOne
<1> QED
  BY <1>2, <1>3, <1>4 DEF Hand

LEMMA LinkChange ==
    ASSUME NEW p \in Port, NEW x, Link'[p] = x,
           \A q \in Port : q # p => Link'[q] = Link[q]
    PROVE  Link' = [Link EXCEPT ![p] = x]
<1>1. Link' = [q \in Port |-> Link'[q]] /\ Link = [q \in Port |-> Link[q]]
  BY DEF Link
<1> QED
  BY <1>1

\* An endpoint sends, or its packet does not fit.
LEMMA SendIsSend ==
    ASSUME NetworkTypeOK, NetworkTypeOK', NEW p \in Port, Endpoint_Send(p)
    PROVE  Fabric!Send(p)
<1>1. PICK m \in MESSAGES : /\ rx' = [rx EXCEPT ![p] = tloe_mq_send(@, Packet(m))]
                            /\ sent' = [sent EXCEPT ![p] = Append(@, Contents(m))]
  BY DEF Endpoint_Send
<1>2. UNCHANGED <<tx, from, buffer, received>>
  BY DEF Endpoint_Send, threadVars
<1>3. \A q \in Port : Hand(q)' = Hand(q)
  BY <1>2 DEF Hand
<1>4. \A q \in Port : q # p => Link'[q] = Link[q]
  BY <1>1, <1>2, <1>3 DEF Link, NetworkTypeOK, Hand
<1>5. Contents(m) \in ContentType /\ Packet(m) \in PacketType
  BY DEF ContentType, PacketType
<1>6. rx[p] \in Seq(PacketType) /\ rx'[p] = tloe_mq_send(rx[p], Packet(m))
  BY <1>1 DEF NetworkTypeOK
<1>7. Link'[p] = Carried(tx[Other(p)]) \o Hand(p) \o Carried(rx'[p])
  BY <1>2, <1>3 DEF Link, Hand
<1>8. Link'[p] = Append(Link[p], Contents(m)) \/ Link'[p] = Link[p]
  <2>1. CASE rx'[p] = rx[p]
    BY <2>1, <1>7, LinkIs
  <2>2. CASE rx'[p] = Append(rx[p], Packet(m))
    <3>1. Carried(rx'[p]) = Append(Carried(rx[p]), Contents(m))
      BY <2>2, <1>5, <1>6, CarriedAppend, RoundTrip
    <3> QED
      <4> DEFINE s == Carried(tx[Other(p)])
                 h == Hand(p)
                 u == Carried(rx[p])
      <4>1. s \in Seq(ContentType) /\ h \in Seq(ContentType) /\ u \in Seq(ContentType)
            /\ Link[p] = s \o h \o u
        BY LinkIs
      <4>2. Link'[p] = s \o h \o Append(u, Contents(m))
        BY <3>1, <1>7
      <4> HIDE DEF s, h, u
      <4> QED
        BY <4>1, <4>2, <1>5, JoinAppend
  <2> QED
    BY <2>1, <2>2, <1>6 DEF tloe_mq_send
<1>9. Link' = [Link EXCEPT ![p] = Append(@, Contents(m))] \/ Link' = Link
  <2>1. Link' = [Link EXCEPT ![p] = Link'[p]]
    BY <1>4, LinkChange
  <2>2. CASE Link'[p] = Link[p]
    <3>1. Link = [Link EXCEPT ![p] = Link[p]]
      BY DEF Link
    <3> QED
      BY <2>1, <2>2, <3>1
  <2>3. CASE Link'[p] = Append(Link[p], Contents(m))
    BY <2>1, <2>3
  <2> QED
    BY <2>2, <2>3, <1>8
<1> QED
  BY <1>1, <1>2, <1>5, <1>9 DEF Fabric!Send

\* An endpoint receives.
LEMMA RecvIsDeliver ==
    ASSUME NetworkTypeOK, NEW p \in Port, Endpoint_Recv(p)
    PROVE  Fabric!Deliver(Other(p))
<1> DEFINE q == Other(p)
<1>1. q \in Port /\ Other(q) = p /\ \A r \in Port : r # q => Other(r) # p
  BY OtherPort DEF Port, Other
<1>2. /\ tx[p] # <<>> /\ tx' = [tx EXCEPT ![p] = Tail(@)]
      /\ received' = [received EXCEPT ![q] = Append(@, Extracted(Head(tx[p])))]
      /\ UNCHANGED <<rx, from, buffer, sent>>
  BY DEF Endpoint_Recv, threadVars
<1>3. tx[p] \in Seq(PacketType) /\ tx'[p] = Tail(tx[p])
  BY <1>2 DEF NetworkTypeOK
<1>4. \A r \in Port : r # q => Link'[r] = Link[r]
  BY <1>1, <1>2, OtherPort DEF Link, NetworkTypeOK
<1>5. Link'[q] = Carried(Tail(tx[p])) \o Hand(q) \o Carried(rx[q])
  BY <1>1, <1>2, <1>3 DEF Link, Hand
<1>6. /\ Carried(tx[p]) # <<>>
      /\ Head(Carried(tx[p])) = Extracted(Head(tx[p]))
      /\ Tail(Carried(tx[p])) = Carried(Tail(tx[p]))
  BY <1>2, <1>3, CarriedTail
<1> HIDE DEF q
<1>7. /\ Link[q] = Carried(tx[p]) \o Hand(q) \o Carried(rx[q])
      /\ Carried(tx[p]) \in Seq(ContentType) /\ Hand(q) \in Seq(ContentType)
      /\ Carried(rx[q]) \in Seq(ContentType)
  BY <1>1, LinkIs
<1>8. Link[q] # <<>> /\ Head(Link[q]) = Extracted(Head(tx[p])) /\ Tail(Link[q]) = Link'[q]
  <2> DEFINE s == Carried(tx[p])
             h == Hand(q)
             u == Carried(rx[q])
  <2>1. s # <<>> /\ Head(s) = Extracted(Head(tx[p])) /\ Link'[q] = Tail(s) \o h \o u
    BY <1>5, <1>6
  <2>2. s \in Seq(ContentType) /\ h \in Seq(ContentType) /\ u \in Seq(ContentType)
        /\ Link[q] = s \o h \o u
    BY <1>7
  <2> HIDE DEF s, h, u
  <2>3. s \in Seq(ContentType) /\ h \in Seq(ContentType) /\ u \in Seq(ContentType) /\ s # <<>>
    BY <2>1, <2>2
  <2>4. /\ s \o h \o u # <<>>
        /\ Head(s \o h \o u) = Head(s)
        /\ Tail(s \o h \o u) = Tail(s) \o h \o u
    BY <2>3
  <2> QED
    BY <2>1, <2>2, <2>4, Zenon
<1>9. Link' = [Link EXCEPT ![q] = Tail(@)]
  BY <1>1, <1>4, <1>8, LinkChange
<1> QED
  BY <1>2, <1>8, <1>9 DEF Fabric!Deliver, q

-----------------------------------------------------------------------------
\* A packet is dropped or taken in hand.
LEMMA TakenFromQueue ==
    ASSUME NetworkTypeOK, Received, thread' \in {"store", "send"}
    PROVE  /\ \A q \in Port : q # from => Link'[q] = Link[q]
           /\ Link[from] = Carried(tx[Other(from)]) \o <<Extracted(Head(rx[from]))>>
                                \o Carried(Tail(rx[from]))
           /\ Link'[from] = Carried(tx[Other(from)]) \o Hand(from)' \o Carried(Tail(rx[from]))
           /\ Carried(tx[Other(from)]) \in Seq(ContentType)
           /\ Carried(Tail(rx[from])) \in Seq(ContentType)
           /\ Extracted(Head(rx[from])) \in ContentType
<1>1. from \in Port /\ rx[from] \in Seq(PacketType) /\ rx[from] # <<>>
      /\ Tail(rx[from]) \in Seq(PacketType)
  BY DEF NetworkTypeOK, Received
<1>2. rx' = [rx EXCEPT ![from] = Tail(@)] /\ UNCHANGED <<tx, from>>
  BY DEF Received
<1>3. rx'[from] = Tail(rx[from]) /\ \A q \in Port : q # from => rx'[q] = rx[q]
  BY <1>1, <1>2 DEF NetworkTypeOK
<1>4. ASSUME NEW q \in Port, q # from
      PROVE  Link'[q] = Link[q]
  <2>1. Link[q] = Carried(tx[Other(q)]) \o <<>> \o Carried(rx[q])
    BY <1>4 DEF Link
  <2>2. Link'[q] = Carried(tx'[Other(q)]) \o <<>> \o Carried(rx'[q])
    BY <1>2, <1>4 DEF Link
  <2> QED
    BY <1>2, <1>3, <1>4, <2>1, <2>2
<1>5. Link'[from] = Carried(tx[Other(from)]) \o Hand(from)' \o Carried(Tail(rx[from]))
  BY <1>1, <1>2, <1>3 DEF Link, Hand
<1>6. /\ Carried(rx[from]) # <<>>
      /\ Head(Carried(rx[from])) = Extracted(Head(rx[from]))
      /\ Tail(Carried(rx[from])) = Carried(Tail(rx[from]))
  BY <1>1, CarriedTail
<1>7. Hand(from) = <<>>
  BY <1>1, EmptyHanded DEF Received
<1>8. /\ Link[from] = Carried(tx[Other(from)]) \o <<>> \o Carried(rx[from])
      /\ Carried(tx[Other(from)]) \in Seq(ContentType)
      /\ Carried(rx[from]) \in Seq(ContentType)
  BY <1>1, <1>7, LinkIs
<1>9. Carried(Tail(rx[from])) \in Seq(ContentType) /\ Extracted(Head(rx[from])) \in ContentType
  <2>1. Head(rx[from]) \in PacketType
    BY <1>1
  <2> QED
    BY <2>1, <1>1, CarriedType, RoundTrip DEF PacketType, ContentType
<1>10. Link[from] = Carried(tx[Other(from)]) \o <<Extracted(Head(rx[from]))>>
                        \o Carried(Tail(rx[from]))
  <2> DEFINE s == Carried(tx[Other(from)])
             u == Carried(rx[from])
  <2>1. s \in Seq(ContentType) /\ u \in Seq(ContentType) /\ u # <<>>
        /\ Link[from] = s \o <<>> \o u
        /\ Head(u) = Extracted(Head(rx[from])) /\ Tail(u) = Carried(Tail(rx[from]))
    BY <1>6, <1>8
  <2> HIDE DEF s, u
  <2>2. s \o <<>> \o u = s \o <<Head(u)>> \o Tail(u)
    BY <2>1, JoinHand
  <2> QED
    BY <2>1, <2>2 DEF s
<1> QED
  BY <1>4, <1>5, <1>8, <1>9, <1>10

\* Losing the element in the middle of a link.
LEMMA LossIsLose ==
    ASSUME NEW p \in Port, NEW s \in Seq(ContentType), NEW x \in ContentType,
           NEW u \in Seq(ContentType),
           Link[p] = s \o <<x>> \o u, Link'[p] = s \o <<>> \o u,
           \A q \in Port : q # p => Link'[q] = Link[q],
           UNCHANGED <<sent, received>>
    PROVE  Fabric!Lose(p)
<1>1. /\ Len(s) + 1 \in 1..Len(Link[p])
      /\ Fabric!Without(Link[p], Len(s) + 1) = Link'[p]
  <2>1. /\ Len(s) + 1 \in 1..Len(s \o <<x>> \o u)
        /\ Fabric!Without(s \o <<x>> \o u, Len(s) + 1) = s \o <<>> \o u
    BY JoinWithout
  <2> QED
    BY <2>1, Zenon
<1>2. Link' = [Link EXCEPT ![p] = Fabric!Without(Link[p], Len(s) + 1)]
  BY <1>1, LinkChange
<1> QED
  BY <1>1, <1>2 DEF Fabric!Lose

LEMMA DropIsLose ==
    ASSUME NetworkTypeOK, NetworkTypeOK', Recv_Drop
    PROVE  Fabric!Lose(from)
<1>1. Received /\ thread' = "store" /\ from' = from /\ from \in Port
  BY DEF Recv_Drop, Received, NetworkTypeOK
<1>2. Hand(from)' = <<>>
  <2>1. buffer' = <<>>
    BY EmptyHanded DEF Recv_Drop, Received
  <2> QED
    BY <2>1, CarriedEmpty DEF Hand
<1>3. UNCHANGED <<sent, received>>
  BY <1>1 DEF Received, endVars
<1> QED
  BY <1>1, <1>2, <1>3, TakenFromQueue, LossIsLose

\* Taking a packet in hand changes nothing of the link.
LEMMA RelayIsInvisible ==
    ASSUME NetworkTypeOK, NetworkTypeOK', Recv_Relay
    PROVE  Link' = Link /\ UNCHANGED <<sent, received>>
<1>1. Received /\ thread' = "send" /\ from' = from /\ from \in Port
      /\ buffer' = <<Head(rx[from])>>
  BY DEF Recv_Relay, Received, NetworkTypeOK
<1>2. Hand(from)' = <<Extracted(Head(rx[from]))>>
  BY <1>1, CarriedOne DEF Hand
<1>3. Link'[from] = Link[from] /\ \A q \in Port : q # from => Link'[q] = Link[q]
  BY <1>1, <1>2, TakenFromQueue
<1>4. Link' = Link
  BY <1>1, <1>3 DEF Link
<1> QED
  BY <1>1, <1>4 DEF Received, endVars

\* The packet at hand is put away, in the queue or for good.
LEMMA PutAway ==
    ASSUME NetworkTypeOK, thread = "send", buffer' = <<>>, rx' = rx,
           \A q \in Port : q # from => tx'[Other(q)] = tx[Other(q)]
    PROVE  /\ \A q \in Port : q # from => Link'[q] = Link[q]
           /\ Link[from] = Carried(tx[Other(from)]) \o <<Extracted(buffer[1])>>
                                \o Carried(rx[from])
           /\ Link'[from] = Carried(tx'[Other(from)]) \o <<>> \o Carried(rx[from])
           /\ Carried(tx[Other(from)]) \in Seq(ContentType)
           /\ Carried(rx[from]) \in Seq(ContentType)
           /\ Extracted(buffer[1]) \in ContentType
<1>1. from \in Port
  BY DEF NetworkTypeOK
<1>2. \A q \in Port : Hand(q)' = <<>>
  BY CarriedEmpty DEF Hand
<1>3. \A q \in Port : Link'[q] = Carried(tx'[Other(q)]) \o <<>> \o Carried(rx[q])
  <2> TAKE q \in Port
  <2>1. Link'[q] = Carried(tx'[Other(q)]) \o Hand(q)' \o Carried(rx'[q])
    BY DEF Link, Hand
  <2> QED
    BY <1>2, <2>1
<1>4. ASSUME NEW q \in Port, q # from
      PROVE  Link'[q] = Link[q]
  <2>1. Link[q] = Carried(tx[Other(q)]) \o <<>> \o Carried(rx[q])
    BY <1>4 DEF Link
  <2> QED
    BY <1>3, <1>4, <2>1
<1>5. /\ Link[from] = Carried(tx[Other(from)]) \o Hand(from) \o Carried(rx[from])
      /\ Carried(tx[Other(from)]) \in Seq(ContentType)
      /\ Carried(rx[from]) \in Seq(ContentType)
  BY <1>1, LinkIs
<1>6. Hand(from) = <<Extracted(buffer[1])>> /\ Extracted(buffer[1]) \in ContentType
  BY FullHanded
<1> QED
  BY <1>1, <1>3, <1>4, <1>5, <1>6

\* Relaying moves the packet within the link, or the queue is full.
LEMMA RelayIsMoveOrLose ==
    ASSUME NetworkTypeOK, Relay
    PROVE  \/ Fabric!Lose(from)
           \/ Link' = Link /\ UNCHANGED <<sent, received>>
<1>1. /\ thread = "send" /\ buffer' = <<>> /\ rx' = rx /\ from \in Port
      /\ tx' = [tx EXCEPT ![Other(from)] = tloe_mq_send(@, buffer[1])]
      /\ UNCHANGED <<sent, received>>
  BY DEF Relay, endVars, NetworkTypeOK
<1>2. \A q \in Port : q # from => tx'[Other(q)] = tx[Other(q)]
  BY <1>1 DEF Port, Other, NetworkTypeOK
<1>3. Other(from) \in Port /\ tx[Other(from)] \in Seq(PacketType)
  BY <1>1, OtherPort DEF NetworkTypeOK
<1>4. tx'[Other(from)] = tloe_mq_send(tx[Other(from)], buffer[1])
  BY <1>1, <1>3 DEF NetworkTypeOK
<1> DEFINE s == Carried(tx[Other(from)])
           x == Extracted(buffer[1])
           u == Carried(rx[from])
<1>5. /\ \A q \in Port : q # from => Link'[q] = Link[q]
      /\ Link[from] = s \o <<x>> \o u
      /\ Link'[from] = Carried(tx'[Other(from)]) \o <<>> \o u
      /\ s \in Seq(ContentType) /\ u \in Seq(ContentType) /\ x \in ContentType
  BY <1>1, <1>2, PutAway
<1>6. CASE tx'[Other(from)] = tx[Other(from)]
  <2>1. Link'[from] = s \o <<>> \o u
    BY <1>5, <1>6
  <2> HIDE DEF s, x, u
  <2> QED
    BY <1>1, <1>5, <2>1, LossIsLose
<1>7. CASE tx'[Other(from)] = Append(tx[Other(from)], buffer[1])
  <2>1. buffer[1] \in PacketType
    BY <1>1, FullHanded
  <2>2. Carried(tx'[Other(from)]) = Append(s, x)
    BY <1>3, <1>7, <2>1, CarriedAppend
  <2>3. Link'[from] = Append(s, x) \o <<>> \o u
    BY <1>5, <2>2
  <2> HIDE DEF s, x, u
  <2>4. s \o <<x>> \o u = Append(s, x) \o <<>> \o u
    BY <1>5, JoinRelay
  <2>5. Link'[from] = Link[from]
    BY <1>5, <2>3, <2>4, Zenon
  <2>6. Link' = Link
    <3>1. \A q \in Port : Link'[q] = Link[q]
      BY <1>5, <2>5
    <3> QED
      BY <3>1 DEF Link
  <2> QED
    BY <1>1, <2>6
<1> QED
  BY <1>4, <1>6, <1>7 DEF tloe_mq_send

\* The program ends, with or without a packet at hand.
LEMMA ExitIsNothingOrLose ==
    ASSUME NetworkTypeOK, Exit
    PROVE  \/ Fabric!Lose(from)
           \/ Link' = Link /\ UNCHANGED <<sent, received>>
<1>1. /\ buffer' = <<>> /\ rx' = rx /\ tx' = tx /\ from' = from /\ from \in Port
      /\ UNCHANGED <<sent, received>>
  BY DEF Exit, endVars, NetworkTypeOK
<1>2. CASE thread = "send"
  <2> DEFINE s == Carried(tx[Other(from)])
             x == Extracted(buffer[1])
             u == Carried(rx[from])
  <2>1. /\ \A q \in Port : q # from => Link'[q] = Link[q]
        /\ Link[from] = s \o <<x>> \o u
        /\ Link'[from] = Carried(tx'[Other(from)]) \o <<>> \o u
        /\ s \in Seq(ContentType) /\ u \in Seq(ContentType) /\ x \in ContentType
    BY <1>1, <1>2, PutAway
  <2>2. Link'[from] = s \o <<>> \o u
    BY <1>1, <2>1
  <2> HIDE DEF s, x, u
  <2> QED
    BY <1>1, <2>1, <2>2, LossIsLose
<1>3. CASE thread # "send"
  <2>1. buffer' = buffer
    BY <1>1, <1>3, EmptyHanded
  <2> QED
    BY <1>1, <2>1 DEF Link
<1> QED
  BY <1>2, <1>3

\* A step that leaves the queues alone and has no packet at hand, before or after.
LEMMA IdleIsInvisible ==
    ASSUME NetworkTypeOK, thread # "send", UNCHANGED <<rx, tx, buffer>>
    PROVE  Link' = Link
<1>1. buffer = <<>>
  BY EmptyHanded
<1>2. \A p \in Port : (IF from' = p THEN Carried(buffer') ELSE <<>>)
                          = IF from = p THEN Carried(buffer) ELSE <<>>
  BY <1>1, CarriedEmpty
<1> QED
  BY <1>2 DEF Link

\* Every step is one of the lossy fabric, or nothing to it.
LEMMA FabricStep ==
    NetworkTypeOK /\ NetworkTypeOK' /\ SingleThread /\ [Next]_vars
        => [Fabric!Next]_(Fabric!vars)
<1> SUFFICES ASSUME NetworkTypeOK, NetworkTypeOK', SingleThread, [Next]_vars
             PROVE  Fabric!Next \/ (Link' = Link /\ UNCHANGED <<sent, received>>)
  BY DEF Fabric!vars
<1>1. ASSUME NEW p \in Port, Endpoint_Send(p)
      PROVE  Fabric!Next
  BY <1>1, SendIsSend DEF Fabric!Next
<1>2. ASSUME NEW p \in Port, Endpoint_Recv(p)
      PROVE  Fabric!Next
  BY <1>2, RecvIsDeliver, OtherPort DEF Fabric!Next
<1>3. CASE Recv_Drop
  <2>1. from \in Port
    BY DEF NetworkTypeOK
  <2> QED
    BY <1>3, <2>1, DropIsLose DEF Fabric!Next
<1>4. CASE Recv_Relay
  BY <1>4, RelayIsInvisible
<1>5. CASE Relay
  <2>1. from \in Port
    BY DEF NetworkTypeOK
  <2> QED
    BY <1>5, <2>1, RelayIsMoveOrLose DEF Fabric!Next
<1>6. CASE Exit
  <2>1. from \in Port
    BY DEF NetworkTypeOK
  <2> QED
    BY <1>6, <2>1, ExitIsNothingOrLose DEF Fabric!Next
<1>7. CASE thread_init \/ Loop \/ Recv_Nothing \/ Store
  <2>1. thread # "send" /\ UNCHANGED <<rx, tx, buffer, sent, received>>
    BY <1>7 DEF thread_init, Loop, Recv_Nothing, Store, endVars
  <2> QED
    BY <2>1, IdleIsInvisible
<1>8. CASE \/ UNCHANGED vars
           \/ tloe_ns_thread_start \/ Stop("joining") \/ Stop("quitting") \/ pthread_join
           \/ Rerun
           \/ \E p \in Port, count \in DROP_COUNTS : tloe_ns_set_drop_count(p, count)
  <2>1. UNCHANGED <<rx, tx, buffer, from, sent, received>>
    BY <1>8 DEF vars, threadVars, endVars, tloe_ns_thread_start, Stop, pthread_join, Rerun,
                tloe_ns_set_drop_count
  <2> QED
    BY <2>1 DEF Link
<1>9. CASE tloe_ns_flush_ports
  <2>1. UNCHANGED <<rx, tx, buffer, from, sent, received>>
    <3>1. rx' = [p \in Port |-> rx[p]] /\ tx' = [p \in Port |-> tx[p]]
      BY <1>9, FlushKeeps DEF tloe_ns_flush_ports
    <3> QED
      BY <1>9, <3>1 DEF tloe_ns_flush_ports, threadVars, endVars, NetworkTypeOK
  <2> QED
    BY <2>1 DEF Link
<1> QED
  BY <1>1, <1>2, <1>3, <1>4, <1>5, <1>6, <1>7, <1>8, <1>9
     DEF Next, thread_fn, MainThread, tloe_ns_thread_stop, Quit_Running, Quit_Stopped,
         Flush_TooEarly, EndOfInput

LEMMA FabricInit == Init => Fabric!Init
<1> SUFFICES ASSUME Init PROVE Fabric!Init
  OBVIOUS
<1>1. \A p \in Port : Link[p] = <<>> \o <<>> \o <<>>
  BY CarriedEmpty, OtherPort DEF Init, Link
<1>2. <<>> \o <<>> \o <<>> = <<>>
  OBVIOUS
<1>3. Link = [p \in Port |-> <<>>]
  BY <1>1, <1>2 DEF Link
<1> QED
  BY <1>3 DEF Init, Fabric!Init

\* The simulator promises what the endpoints rely on: what arrives was sent, at
\* most once and in order, whatever its user does.  (thread_fn, tloe_frame.c)
THEOREM ImplementsLossyFifo == Spec => IsLossyFifo
BY FabricInit, FabricStep, NetworkTypeCorrect, SingleThreadAlways, PTL
   DEF Spec, IsLossyFifo, Fabric!Spec
=============================================================================

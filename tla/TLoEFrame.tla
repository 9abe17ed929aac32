------------------------------ MODULE TLoEFrame ------------------------------
(***************************************************************************)
(* How a TileLink message travels in a frame (omnixtend-c: tilelink_msg.c,  *)
(* tloe_frame.c, and the sizes tloe_ether.c lets through).                  *)
(*                                                                          *)
(* A frame is a header of one 64-bit word and flits of one word each.  What *)
(* matters of a word is which part of which message it holds and whether    *)
(* its bytes are in the host's order.  Flits are counted from 1.            *)
(***************************************************************************)
EXTENDS Integers, Sequences

CHANNEL_A == 1
CHANNEL_B == 2
CHANNEL_C == 3
CHANNEL_D == 4
CHANNEL_E == 5

\* A message as its header describes it.  data stands for all its other bits.
TLMsg == [chan : 0..7, opcode : 0..7, size : 0..15, data : Nat]

\* What a frame without a message is made of.
NoMsg == [chan |-> 0, opcode |-> 0, size |-> 0, data |-> 0]

-----------------------------------------------------------------------------
(***************************************************************************)
(* Sizes                                                                    *)
(***************************************************************************)
TwoTo == <<1, 2, 4, 8, 16, 32, 64, 128, 256, 512, 1024, 2048, 4096, 8192, 16384, 32768>>

\* 1 << exponent as an int.  The exponent is -1 where there is no header or no
\* data; the machine shifts by its low six bits and the int that is left is 0.
Shifted(exponent) == IF exponent = -1 THEN 0 ELSE TwoTo[exponent + 1]

tlmsg_get_header_size(m) ==
    Shifted(CASE m.chan \in {CHANNEL_A, CHANNEL_B, CHANNEL_C} -> 4
              [] m.chan = CHANNEL_D /\ m.opcode \in {0, 1, 2, 6} -> 3
              [] m.chan = CHANNEL_D /\ m.opcode \in {4, 5} -> 4
              [] m.chan = CHANNEL_E -> 3
              [] OTHER -> -1)

\* On A, B and C one list of opcodes serves all three channels.
tlmsg_get_data_size(m) ==
    Shifted(IF \/ m.chan \in {CHANNEL_A, CHANNEL_B, CHANNEL_C} /\ m.opcode \in {0, 1, 2, 3, 5, 7}
               \/ m.chan = CHANNEL_D /\ m.opcode \in {1, 5}
            THEN m.size ELSE -1)

tlmsg_get_total_size(m) == tlmsg_get_header_size(m) + tlmsg_get_data_size(m)

convert_size_to_flits(size) == (size + 7) \div 8

\* The flits a message is charged in credit.
tlmsg_get_flits_cnt(m) ==
    convert_size_to_flits(tlmsg_get_header_size(m)) + convert_size_to_flits(tlmsg_get_data_size(m))

DEFAULT_FRAME_SIZE == 56

tloe_get_fsize(m) ==
    LET fsize == 8 + tlmsg_get_total_size(m)
    IN  IF m = NoMsg \/ fsize < DEFAULT_FRAME_SIZE THEN DEFAULT_FRAME_SIZE ELSE fsize

-----------------------------------------------------------------------------
(***************************************************************************)
(* Flits                                                                    *)
(***************************************************************************)
Flit(kind, m, place) == [kind |-> kind, msg |-> m, place |-> place, host |-> TRUE]
MsgFlit(m, i) == Flit("message", m, i)
Mask(bits) == Flit("mask", NoMsg, bits)
Padding == Flit("padding", NoMsg, 0)

\* The flits of m in memory.
Words(m) == [i \in 1..tlmsg_get_flits_cnt(m) |-> MsgFlit(m, i)]

\* The mask is the last flit of the frame, whatever else would be there.
MaskPlace(size) == size \div 8 - 1

tloe_set_mask(flits, bits, size) == [flits EXCEPT ![MaskPlace(size)] = Mask(bits)]
tloe_get_mask(flits, size) == flits[MaskPlace(size)]

tloe_set_tlmsg(flits, m) ==
    [i \in DOMAIN flits |-> IF i <= tlmsg_get_flits_cnt(m) THEN MsgFlit(m, i) ELSE flits[i]]

\* How much of the frame is copied is decided by the header found in it.
tloe_get_tlmsg(flits) == [i \in 1..tlmsg_get_flits_cnt(flits[1].msg) |-> flits[i]]

is_zero_tl_frame(flits, size) == tloe_get_mask(flits, size) = Mask(0)

\* The flits of prepare_normal_frame, of send_ackonly_frame and of send_frame.
FlitsOf(m) ==
    LET size == tloe_get_fsize(m)
        blank == [i \in 1..(size \div 8 - 1) |-> Padding]
    IN  IF m = NoMsg THEN tloe_set_mask(blank, 0, size)
        ELSE tloe_set_mask(tloe_set_tlmsg(blank, m), 1, size)

-----------------------------------------------------------------------------
(***************************************************************************)
(* Packets                                                                  *)
(***************************************************************************)
htobe64(word) == [word EXCEPT !.host = ~@]

tloe_frame_to_packet(flits, size) ==
    [size |-> size, words |-> [i \in 1..((size - 8) \div 8) |-> htobe64(flits[i])]]

\* Faulty variant: the words are left in the order of the network.
packet_to_tloe_frame_AsIs(packet) ==
    [i \in 1..(packet.size \div 8 - 1) |-> packet.words[i]]

packet_to_tloe_frame(packet) ==
    [i \in 1..(packet.size \div 8 - 1) |-> htobe64(packet.words[i])]

Packet(m) == tloe_frame_to_packet(FlitsOf(m), tloe_get_fsize(m))

\* What RX takes out of a packet: nothing, or the message the mask points to.
Extracted(packet) ==
    LET flits == packet_to_tloe_frame(packet)
    IN  IF is_zero_tl_frame(flits, packet.size) THEN <<>> ELSE tloe_get_tlmsg(flits)

\* The words of m a receiver is to get.
Contents(m) == IF m = NoMsg THEN <<>> ELSE Words(m)

-----------------------------------------------------------------------------
(***************************************************************************)
(* Ethernet                                                                 *)
(***************************************************************************)
ETHER_HDR_LEN == 14
ETHER_MIN_LEN == 64
ETHERMTU == 1500
MAX_BUFFER_SIZE == 1500

\* The bytes tloe_ether_send passes to the socket for a payload.
tloe_ether_send(size) ==
    LET send_size == ETHER_HDR_LEN + (IF size >= ETHERMTU THEN ETHERMTU ELSE size)
    IN  IF send_size < ETHER_MIN_LEN THEN ETHER_MIN_LEN ELSE send_size

\* The payload tloe_ether_recv returns for that many bytes.
tloe_ether_recv(size) ==
    LET copy_size == size - ETHER_HDR_LEN
    IN  IF copy_size > MAX_BUFFER_SIZE THEN MAX_BUFFER_SIZE ELSE copy_size
=============================================================================

---------------------------- MODULE MCTLoENetwork ----------------------------
(***************************************************************************)
(* TLoENetwork for TLC: the messages of the commands read and write.        *)
(***************************************************************************)
EXTENDS TLoENetwork

MCMessage(opcode, data) == [chan |-> CHANNEL_A, opcode |-> opcode, size |-> 3, data |-> data]

\* handle_user_input 'r' and 'w', and a frame without a message.
MCMessages == {MCMessage(0, 1), NoMsg}
=============================================================================

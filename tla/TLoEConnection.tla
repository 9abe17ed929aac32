--------------------------- MODULE TLoEConnection ---------------------------
(***************************************************************************)
(* Opening and closing the connection between two endpoints                 *)
(* (omnixtend-c: tloe_connection.c, commands 'c' and 'd' of tloe_endpoint.c)*)
(* around the traffic of TLoEEndpoint.                                      *)
(*                                                                          *)
(* The handshake is made by the main thread, which blocks in it, while the  *)
(* worker waits for the flag connection.  Both read the same fabric.  One   *)
(* action models what one pass of an open or close loop does: sending, when *)
(* its timer has run out, or taking one frame.                              *)
(*                                                                          *)
(* The handshake has one frame per channel in use here (A and D; five in    *)
(* the code), so that FIRST_SEQ, the number of such frames, is 2.           *)
(***************************************************************************)
EXTENDS TLoEEndpoint

CONSTANTS
    CREDIT_INIT,        \* flits a channel has before the handshake, 2^7
    START_READS,        \* what an uninitialised timestamp may read as
    PROMPT_WORKER,      \* the peer's closing answer finds the worker stopped
    CLOSE_UNCONNECTED,  \* users give the command d without a connection, too
    QUITTERS,           \* bound of the model: endpoints whose users may quit
    MAX_OPENS           \* bound of the model: connections each user opens

ChannelOrder == <<CHANNEL_A, CHANNEL_D>>

ASSUME ConnectionAssumption ==
    /\ CREDIT_INIT \in Nat /\ CREDIT_INIT < CREDIT
    /\ START_READS \subseteq {"past", "future"} /\ START_READS # {}
    /\ PROMPT_WORKER \in BOOLEAN /\ CLOSE_UNCONNECTED \in BOOLEAN
    /\ QUITTERS \subseteq Endpoint
    /\ MAX_OPENS \in Nat
    /\ FIRST_SEQ = Len(ChannelOrder)

VARIABLES
    connection,     \* e->connection: the worker may iterate
    main,           \* the call the main thread is in
    conn_flag,      \* its local: the peer's opening or closing frame has come
    timer,          \* of its loop: run out, running, or never going to run out
    opens           \* connections opened so far

connVars == <<connection, main, conn_flag, timer, opens>>
allVars == <<vars, connVars>>

\* tloe_endpoint_init and init_flowcontrol, as functions of one endpoint.
ConnInit ==
    /\ pc = [e \in Endpoint |-> "select"]
    /\ request_tlmsg = [e \in Endpoint |-> NoMsg]
    /\ buffer_select_counter = [e \in Endpoint |-> 4]
    /\ message_buffer = [e \in Endpoint |-> <<>>]
    /\ response_buffer = [e \in Endpoint |-> <<>>]
    /\ tl_msg_buffer = [e \in Endpoint |-> <<>>]
    /\ retransmit_buffer = [e \in Endpoint |-> <<>>]
    /\ ack_buffer = [e \in Endpoint |-> <<>>]
    /\ next_tx_seq = [e \in Endpoint |-> 0]
    /\ next_rx_seq = [e \in Endpoint |-> 0]
    /\ should_send_ackonly_frame = [e \in Endpoint |-> FALSE]
    /\ ackonly_frame_sent = [e \in Endpoint |-> FALSE]
    /\ credits = [e \in Endpoint |-> [c \in Channel |-> CREDIT_INIT]]
    /\ tx_flow_credits = [e \in Endpoint |-> [c \in Channel |-> 0]]
    /\ mem_storage = [e \in Endpoint |-> 0]
    /\ fabric = [e \in Endpoint |-> <<>>]
    /\ lost = 0 /\ early = 0 /\ alloc_failed = 0
    /\ ahead = "none"
    /\ issued = [e \in Endpoint |-> <<>>]
    /\ served = [e \in Endpoint |-> <<>>]
    /\ answered = [e \in Endpoint |-> <<>>]
    /\ connection = [e \in Endpoint |-> FALSE]
    /\ main = [e \in Endpoint |-> "idle"]
    /\ conn_flag = [e \in Endpoint |-> FALSE]
    /\ timer = [e \in Endpoint |-> "running"]
    /\ opens = [e \in Endpoint |-> 0]

-----------------------------------------------------------------------------
(***************************************************************************)
(* Helpers                                                                  *)
(***************************************************************************)
\* send_frame of tloe_connection.c: no message, a current acknowledgement.
ConnFrame(type, seq_num, next_rx, chan, credit) ==
    [type |-> type, seq_num |-> seq_num, seq_num_ack |-> tloe_seqnum_prev(next_rx),
     ack |-> "ACK", tlmsg |-> NoMsg, chan |-> chan, credit |-> credit]

\* serve_conn_master, serve_conn_slave: the credit of every channel.
ServeFrames(e) ==
    [i \in DOMAIN ChannelOrder |->
        ConnFrame(IF e = Master /\ i = 1 THEN "OPEN_CONNECTION" ELSE "NORMAL",
                  i - 1, next_rx_seq[e], ChannelOrder[i], CREDIT)]

ToPeer(e, frames) == [fabric EXCEPT ![Peer(e)] = SendAll(@, frames)]
Consume(e) == [fabric EXCEPT ![e] = Tail(@)]

\* An open or close loop sends before it takes a frame.  The slave has nothing
\* to send before the master's first frame has come.
MustServe(e) ==
    /\ main[e] \in {"opening", "closing"}
    /\ timer[e] = "run_out"
    /\ e = Master \/ conn_flag[e]

\* Nothing can happen but a timer of one of the loops (CONN_RESEND_TIME, 5 s)
\* or of a worker.
Quiet == \A e \in Endpoint :
            \/ pc[e] \in {"exited", "ended"}
            \/ /\ fabric[e] = <<>>
               /\ ~MustServe(e)
               /\ connection[e] => StalledAt(e)
               /\ ~connection[e] => pc[e] = "select" /\ main[e] # "leaving"

\* Faulty variant: nothing is sent again.
TimerOut_Once(e) == MustServe(e) /\ UNCHANGED early

\* The timer of e's loop: at once on entry, later when it has run out again,
\* for free if Quiet and otherwise early.
TimerOut(e) ==
    \/ MustServe(e) /\ UNCHANGED early
    \/ /\ timer[e] = "running"
       /\ e = Master \/ conn_flag[e]
       /\ \/ Quiet /\ UNCHANGED early
          \/ ~Quiet /\ early < MAX_EARLY /\ early' = early + 1

trafficVars == <<pc, workVars, tl_msg_buffer, retransmit_buffer, ack_buffer,
                 should_send_ackonly_frame, ackonly_frame_sent, memVars, userVars>>

-----------------------------------------------------------------------------
(***************************************************************************)
(* Opening: open_conn_master, open_conn_slave                               *)
(***************************************************************************)
\* The user's command 'c'.
Open(e) ==
    /\ main[e] = "idle" /\ ~connection[e] /\ opens[e] < MAX_OPENS
    /\ main' = [main EXCEPT ![e] = "opening"]
    /\ conn_flag' = [conn_flag EXCEPT ![e] = FALSE]
    /\ timer' = [timer EXCEPT ![e] = "run_out"]
    /\ opens' = [opens EXCEPT ![e] = @ + 1]
    /\ UNCHANGED <<vars, connection>>

serve_conn(e) ==
    /\ main[e] = "opening"
    /\ TimerOut(e)
    /\ fabric' = ToPeer(e, ServeFrames(e))
    /\ next_tx_seq' = [next_tx_seq EXCEPT ![e] = Len(ChannelOrder)]
    /\ timer' = [timer EXCEPT ![e] = "running"]
    /\ UNCHANGED <<trafficVars, next_rx_seq, creditVars, lost, alloc_failed, ahead,
                   connection, main, conn_flag, opens>>

\* Faulty variant: the opening frame itself is dropped.
Takes_AfterFlag(e, f) ==
    IF e = Master THEN tloe_seqnum_cmp(f.seq_num, next_rx_seq[e]) = 0 ELSE conn_flag[e]

\* The master takes the frame it waits for, the slave any frame once the
\* opening one has come.  Other frames are read and dropped.
Takes(e, f) ==
    IF e = Master THEN tloe_seqnum_cmp(f.seq_num, next_rx_seq[e]) = 0
                  ELSE conn_flag[e] \/ f.type = "OPEN_CONNECTION"

recv_conn(e) ==
    /\ main[e] = "opening" /\ ~MustServe(e) /\ fabric[e] # <<>>
    /\ UNCHANGED <<trafficVars, boundVars, opens>>

recv_conn_Drop(e) ==
    /\ recv_conn(e)
    /\ ~Takes(e, Arrived(e))
    /\ fabric' = Consume(e)
    /\ UNCHANGED <<next_tx_seq, next_rx_seq, creditVars, connection, main, conn_flag, timer>>

\* Faulty variant: credit is added, as in a connection.
CreditSet_Adds(e, f) ==
    IF f.chan = 0 THEN credits[e] ELSE [credits[e] EXCEPT ![f.chan] = @ + f.credit]

\* set_credit with what the frame says.
CreditSet(e, f) == IF f.chan = 0 THEN credits[e] ELSE [credits[e] EXCEPT ![f.chan] = f.credit]

check_all_channels(credit) == \A c \in Channel : credit[c] > CREDIT_INIT

recv_conn_Take(e) ==
    /\ recv_conn(e)
    /\ LET f == Arrived(e)
       IN  /\ Takes(e, f)
           /\ next_rx_seq' = [next_rx_seq EXCEPT ![e] = tloe_seqnum_next(f.seq_num)]
           /\ credits' = [credits EXCEPT ![e] = CreditSet(e, f)]
           /\ tx_flow_credits' = IF f.chan = 0 THEN tx_flow_credits
                                 ELSE [tx_flow_credits EXCEPT ![e][f.chan] = 0]
           /\ conn_flag' = [conn_flag EXCEPT ![e] = @ \/ f.type = "OPEN_CONNECTION"]

\* Credit is still missing.  Until the slave first sends, its timestamp start
\* is not initialised: when the opening frame comes its timer has run out, or
\* never will.
recv_conn_More(e) ==
    /\ recv_conn_Take(e)
    /\ ~check_all_channels(CreditSet(e, Arrived(e)))
    /\ fabric' = Consume(e)
    /\ IF e = Slave /\ ~conn_flag[e]
       THEN \/ "past" \in START_READS /\ UNCHANGED timer
            \/ "future" \in START_READS /\ timer' = [timer EXCEPT ![e] = "never"]
       ELSE UNCHANGED timer
    /\ UNCHANGED <<next_tx_seq, connection, main>>

\* Faulty variant: the master's last frame is not a numbered one.
LastFrame_AckOnly(e, next_rx) ==
    ConnFrame("ACKONLY", next_tx_seq[e], next_rx, 0, 0)

\* All channels have credit: the master sends one more numbered frame, the
\* slave an acknowledgement, and the worker is let go.
LastFrame(e, next_rx) ==
    ConnFrame(IF e = Master THEN "NORMAL" ELSE "ACKONLY", next_tx_seq[e], next_rx, 0, 0)

recv_conn_Done(e) ==
    /\ recv_conn_Take(e)
    /\ check_all_channels(CreditSet(e, Arrived(e)))
    /\ fabric' = [fabric EXCEPT ![e] = Tail(@),
                     ![Peer(e)] = SendAll(@, <<LastFrame(e, next_rx_seq'[e])>>)]
    /\ next_tx_seq' = [next_tx_seq EXCEPT
                          ![e] = IF e = Master THEN tloe_seqnum_next(@) ELSE @]
    /\ connection' = [connection EXCEPT ![e] = TRUE]
    /\ main' = [main EXCEPT ![e] = "idle"]
    /\ UNCHANGED timer

-----------------------------------------------------------------------------
(***************************************************************************)
(* Closing: close_conn_master, close_conn_slave, tloe_endpoint_init         *)
(***************************************************************************)
\* The user's command 'd': the worker stops at its next iteration.  Nothing
\* refuses it without a connection.
Close(e) ==
    /\ main[e] = "idle"
    /\ connection[e] \/ CLOSE_UNCONNECTED
    /\ connection' = [connection EXCEPT ![e] = FALSE]
    /\ main' = [main EXCEPT ![e] = "closing"]
    /\ conn_flag' = [conn_flag EXCEPT ![e] = FALSE]
    /\ timer' = [timer EXCEPT ![e] = "run_out"]
    /\ UNCHANGED <<vars, opens>>

CloseFrame(e) == ConnFrame("CLOSE_CONNECTION", next_tx_seq[e], next_rx_seq[e], 0, 0)

serve_close_master ==
    /\ main[Master] = "closing"
    /\ TimerOut(Master)
    /\ fabric' = ToPeer(Master, <<CloseFrame(Master)>>)
    /\ timer' = [timer EXCEPT ![Master] = "running"]
    /\ UNCHANGED <<trafficVars, next_tx_seq, next_rx_seq, creditVars, lost,
                   alloc_failed, ahead, connection, main, conn_flag, opens>>

recv_close(e) ==
    /\ main[e] = "closing" /\ ~MustServe(e) /\ ~conn_flag[e]
    /\ fabric[e] # <<>>
    /\ fabric' = Consume(e)

\* Frames other than the closing one are read and dropped.
recv_close_Drop(e) ==
    /\ recv_close(e)
    /\ Arrived(e).type # "CLOSE_CONNECTION"
    /\ UNCHANGED <<trafficVars, next_tx_seq, next_rx_seq, creditVars, boundVars, connVars>>

\* Faulty variant: the window outlives the connection.
NewWindow_Kept(e) == UNCHANGED retransmit_buffer

NewWindow(e) == retransmit_buffer' = [retransmit_buffer EXCEPT ![e] = <<>>]

\* All queues are made anew; the message the worker keeps at hand, its counter
\* and the memory stay.  (The worker is taken to be between iterations: the
\* code frees the queues whether or not it still uses them.)
Reinit(e) ==
    /\ pc[e] = "select"
    /\ message_buffer' = [message_buffer EXCEPT ![e] = <<>>]
    /\ response_buffer' = [response_buffer EXCEPT ![e] = <<>>]
    /\ tl_msg_buffer' = [tl_msg_buffer EXCEPT ![e] = <<>>]
    /\ NewWindow(e)
    /\ ack_buffer' = [ack_buffer EXCEPT ![e] = <<>>]
    /\ next_tx_seq' = [next_tx_seq EXCEPT ![e] = 0]
    /\ next_rx_seq' = [next_rx_seq EXCEPT ![e] = 0]
    /\ should_send_ackonly_frame' = [should_send_ackonly_frame EXCEPT ![e] = FALSE]
    /\ ackonly_frame_sent' = [ackonly_frame_sent EXCEPT ![e] = FALSE]
    /\ credits' = [credits EXCEPT ![e] = [c \in Channel |-> CREDIT_INIT]]
    /\ tx_flow_credits' = [tx_flow_credits EXCEPT ![e] = [c \in Channel |-> 0]]
    /\ ahead' = "none"
    /\ main' = [main EXCEPT ![e] = "idle"]
    /\ UNCHANGED <<pc, request_tlmsg, buffer_select_counter, memVars, issued, lost,
                   alloc_failed, connection, opens>>

\* The slave's closing frame is the master's answer.
recv_close_master ==
    /\ recv_close(Master)
    /\ Arrived(Master).type = "CLOSE_CONNECTION"
    /\ Reinit(Master)
    /\ UNCHANGED <<early, conn_flag, timer>>

\* The slave answers the master's closing frame once, without waiting for it
\* to arrive, and reads one more frame before it is done.
recv_close_slave ==
    /\ recv_close(Slave)
    /\ Arrived(Slave).type = "CLOSE_CONNECTION"
    /\ conn_flag' = [conn_flag EXCEPT ![Slave] = TRUE]
    /\ next_rx_seq' = [next_rx_seq EXCEPT ![Slave] = tloe_seqnum_next(Arrived(Slave).seq_num)]
    /\ UNCHANGED <<trafficVars, next_tx_seq, creditVars, boundVars, connection,
                   main, timer, opens>>

serve_close_slave ==
    /\ main[Slave] = "closing" /\ conn_flag[Slave]
    /\ PROMPT_WORKER => pc[Master] = "select"
    /\ fabric' = ToPeer(Slave, <<CloseFrame(Slave)>>)
    /\ main' = [main EXCEPT ![Slave] = "leaving"]
    /\ UNCHANGED <<trafficVars, next_tx_seq, next_rx_seq, creditVars, boundVars,
                   connection, conn_flag, timer, opens>>

last_recv_slave ==
    /\ main[Slave] = "leaving"
    /\ fabric' = IF fabric[Slave] = <<>> THEN fabric ELSE Consume(Slave)
    /\ Reinit(Slave)
    /\ UNCHANGED <<early, conn_flag, timer>>

-----------------------------------------------------------------------------
(***************************************************************************)
(* Quitting: handle_user_input, tloe_endpoint_close                         *)
(***************************************************************************)
is_done(e) == main[e] \in {"quitting", "gone"}

\* The user's command 'q' sets is_done and goes to pthread_join.
Quit(e) ==
    /\ e \in QUITTERS /\ main[e] = "idle"
    /\ main' = [main EXCEPT ![e] = "quitting"]
    /\ UNCHANGED <<vars, connection, conn_flag, timer, opens>>

\* The worker sees is_done between two iterations and returns, so that the
\* process ends.  Without a connection it may be in the loop that waits for one
\* and looks at nothing else.
tloe_endpoint_close(e) ==
    /\ main[e] = "quitting" /\ pc[e] = "select"
    /\ main' = [main EXCEPT ![e] = "gone"]
    /\ GoTo(e, "ended")
    /\ UNCHANGED <<workVars, tl_msg_buffer, linkVars, creditVars, memVars, userVars,
                   boundVars, connection, conn_flag, timer, opens>>

-----------------------------------------------------------------------------
OpenStep(e) ==
    serve_conn(e) \/ recv_conn_Drop(e) \/ recv_conn_More(e) \/ recv_conn_Done(e)

CloseStep(e) ==
    \/ recv_close_Drop(e)
    \/ e = Master /\ (serve_close_master \/ recv_close_master)
    \/ e = Slave /\ (recv_close_slave \/ serve_close_slave \/ last_recv_slave)

\* Faulty variant: the worker does not look at is_done.
ConnWorker_Deaf(e) ==
    /\ connection[e] \/ pc[e] # "select"
    /\ Worker(e)
    /\ UNCHANGED connVars

\* The worker waits before an iteration as long as connection is 0.
ConnWorker(e) ==
    /\ pc[e] = "select" => connection[e] /\ ~is_done(e)
    /\ Worker(e)
    /\ UNCHANGED connVars

\* is_conn refuses commands without a connection.
ConnSubmit(e) == main[e] = "idle" /\ connection[e] /\ Submit(e) /\ UNCHANGED connVars

MainThread(e) ==
    /\ pc[e] # "exited"
    /\ \/ Open(e) \/ Close(e) \/ OpenStep(e) \/ CloseStep(e) \/ ConnSubmit(e)
       \/ Quit(e) \/ tloe_endpoint_close(e)

ConnNext ==
    \E e \in Endpoint : \/ MainThread(e)
                        \/ ConnWorker(e)
                        \/ Lose(e) /\ UNCHANGED connVars

ConnSpec == ConnInit /\ [][ConnNext]_allVars

\* Both threads of an endpoint run, and the timers of both run out.
ConnFairness ==
    /\ \A e \in Endpoint :
         /\ WF_allVars(ConnWorker(e))
         /\ SF_allVars(ConnWorker(e) /\ Transmit(e, "full"))
         /\ WF_allVars(pc[e] # "exited" /\ OpenStep(e))
         /\ SF_allVars(pc[e] # "exited" /\ serve_conn(e))
         /\ WF_allVars(pc[e] # "exited" /\ CloseStep(e))
         /\ WF_allVars(connection[e] /\ tloe_endpoint_close(e))
    /\ SF_allVars(pc[Master] # "exited" /\ serve_close_master)

FairConnSpec == ConnSpec /\ ConnFairness

-----------------------------------------------------------------------------
(***************************************************************************)
(* Properties                                                               *)
(***************************************************************************)
\* Every variable has its type.
ConnTypeOK ==
    /\ TypeOK
    /\ connection \in [Endpoint -> BOOLEAN]
    /\ main \in [Endpoint -> {"idle", "opening", "closing", "leaving", "quitting", "gone"}]
    /\ conn_flag \in [Endpoint -> BOOLEAN]
    /\ timer \in [Endpoint -> {"run_out", "running", "never"}]
    /\ opens \in [Endpoint -> Nat]

\* Both workers have been let go.
Connected == \A e \in Endpoint : connection[e]

\* An open connection can make progress: the frame an endpoint waits for will
\* be sent, is in the peer's window to be sent again, or is under way.  The
\* handshake's own frames are in no window.  (recv_conn_*, the last frame of
\* open_conn_master, against RX)
NextFrameReachable ==
    Connected => \A e \in Endpoint :
        LET p == Peer(e)
        IN  \/ Dist(next_rx_seq[p], next_tx_seq[e]) <= Len(retransmit_buffer[e])
            \/ \E i \in DOMAIN fabric[p] : /\ fabric[p][i].type # "ACKONLY"
                                           /\ fabric[p][i].seq_num = next_rx_seq[p]

\* When both sides have finished the handshake, however often it was repeated
\* and whatever a previous connection left behind, each believes exactly in
\* the credit the other grants; later handshake frames still under way change
\* nothing.  (set_credit against fc_credit_inc, tloe_endpoint_init)
ConnectedCredit == Connected => CreditConservation

\* Even when handshake frames are lost, no endpoint believes in credit its
\* peer never granted.  (set_credit against fc_credit_inc)
ConnectedCreditNeverMade == Connected => CreditNeverMade

\* No frame of an earlier connection or of a repeated handshake can be taken
\* for one of this connection: every numbered frame under way is older than
\* its sender's next, and acknowledges only what its sender has taken.
\* (recv_conn_*, recv_close_*, tloe_endpoint_init)
NoStaleFrame ==
    Connected => \A e \in Endpoint : \A i \in DOMAIN fabric[Peer(e)] :
        LET f == fabric[Peer(e)][i]
        IN  /\ f.type # "ACKONLY" => tloe_seqnum_cmp(f.seq_num, next_tx_seq[e]) < 0
            /\ tloe_seqnum_cmp(f.seq_num_ack, next_rx_seq[e]) < 0

\* When both users open, both connections open.  (open_conn_master,
\* open_conn_slave)
OpenCompletes ==
    \A e \in Endpoint : (\A p \in Endpoint : main[p] = "opening") ~> connection[e]

\* A write is performed at most once and never after a later one, and there are
\* no more answers than requests performed, over all connections: what was
\* under way when one was closed is lost or done, never done in the next.
\* (tloe_endpoint_init, request_tlmsg of tloe_endpoint)
PerformedOnce ==
    [][\A e \in Endpoint :
          /\ served'[e] # served[e] /\ served'[e][Len(served'[e])].op = "AccessAck"
                => mem_storage'[Peer(e)] > mem_storage[Peer(e)]
          /\ Len(answered'[e]) <= Len(served'[e])]_allVars

\* With a connection the command q ends the process, whatever the worker and the
\* peer do.  (tloe_endpoint_close)
QuitReturns ==
    \A e \in Endpoint :
        (main[e] = "quitting" /\ connection[e]) ~> (main[e] = "gone" \/ pc[e] = "exited")

\* When both users close, both calls return, or a process has exited (while the
\* master closes and the slave's user has not, the slave's ack_buffer fills
\* by one entry every 5 s).  (close_conn_master, close_conn_slave)
CloseCompletes ==
    \A e \in Endpoint :
        (\A p \in Endpoint : main[p] = "closing")
            ~> (main[e] \notin {"closing", "leaving"} \/ ~NoExit)
=============================================================================

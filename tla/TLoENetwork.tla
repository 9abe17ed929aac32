----------------------------- MODULE TLoENetwork -----------------------------
(***************************************************************************)
(* The network simulator (omnixtend-c: tloe_ns.c, tloe_ns_thread.c) between *)
(* two endpoints that use message queues as their fabric (tloe_mq.c).       *)
(*                                                                          *)
(* A thread relays packets between the two ports, each of which has a queue *)
(* in either direction.  The main thread reads commands: it starts and      *)
(* stops the thread, flushes the queues, and sets how many packets the      *)
(* thread is to drop, in a counter the two threads share without a lock.    *)
(* The queues belong to the system: they outlive thread and program.        *)
(***************************************************************************)
EXTENDS TLoEFrame

CONSTANTS
    MESSAGES,       \* the messages endpoints send
    MQ_MAXMSG,      \* packets a queue holds (100)
    DROP_COUNTS,    \* the numbers users ask to drop
    MAX_SENT,       \* bound of the model: frames each endpoint sends
    MAX_COMMANDS    \* bound of the model: commands of the user

ASSUME NetworkAssumption ==
    /\ MESSAGES \subseteq TLMsg
    /\ \A m \in MESSAGES : tlmsg_get_total_size(m) <= 40
    /\ MQ_MAXMSG \in Nat /\ MAX_SENT \in Nat /\ MAX_COMMANDS \in Nat
    /\ DROP_COUNTS \subseteq Nat \ {0}

Port == {"A", "B"}
Other(p) == IF p = "A" THEN "B" ELSE "A"

VARIABLES
    rx,             \* rx[p]: from the endpoint at port p to the simulator
    tx,             \* tx[p]: from the simulator to the endpoint at port p
    is_done,        \* the thread is not to run
    drop_count,     \* drop_count[p]: drop_count_a_to_b, drop_count_b_to_a
    thread,         \* the call of thread_fn that comes next, "none" without a thread
    from,           \* its direction: the port it relays from
    buffer,         \* the packet in its buffer, if it is to be sent
    loaded,         \* the counter it has loaded to decrement
    main,           \* the main thread: at its prompt, in pthread_join, gone
    commands,       \* commands so far
    ordered,        \* packets users have ordered to be dropped, in all
    dropped,        \* packets dropped for that
    sent,           \* what endpoints have sent, as flits
    received        \* received[p]: what has arrived of what p sent

threadVars == <<is_done, thread, from, buffer, loaded>>
dropVars == <<drop_count, ordered, dropped>>
mainVars == <<main, commands>>
endVars == <<sent, received>>
vars == <<rx, tx, threadVars, dropVars, mainVars, endVars>>

Init ==
    /\ rx = [p \in Port |-> <<>>]
    /\ tx = [p \in Port |-> <<>>]
    /\ is_done = TRUE
    /\ drop_count = [p \in Port |-> 0]
    /\ thread = "none" /\ from = "A" /\ buffer = <<>> /\ loaded = 0
    /\ main = "prompt" /\ commands = 0
    /\ ordered = [p \in Port |-> 0]
    /\ dropped = [p \in Port |-> 0]
    /\ sent = [p \in Port |-> <<>>]
    /\ received = [p \in Port |-> <<>>]

-----------------------------------------------------------------------------
(***************************************************************************)
(* Message queues                                                           *)
(***************************************************************************)
\* O_NONBLOCK: what does not fit is lost, and no caller hears of it, since
\* tloe_mq_send returns a size_t, which is never negative.
tloe_mq_send(q, packet) == IF Len(q) < MQ_MAXMSG THEN Append(q, packet) ELSE q

TLOE_MQ_MSG_SIZE == 1600
BUFFER_SIZE == 1024

\* mq_receive refuses a buffer smaller than the queue's largest message, so
\* that the loop ends before the first message.
flush_message_queue(q) == IF BUFFER_SIZE < TLOE_MQ_MSG_SIZE THEN q ELSE <<>>

-----------------------------------------------------------------------------
(***************************************************************************)
(* The endpoints at the ports                                               *)
(***************************************************************************)
Endpoint_Send(p) ==
    /\ Len(sent[p]) < MAX_SENT
    /\ \E m \in MESSAGES :
          /\ rx' = [rx EXCEPT ![p] = tloe_mq_send(@, Packet(m))]
          /\ sent' = [sent EXCEPT ![p] = Append(@, Contents(m))]
    /\ UNCHANGED <<tx, threadVars, dropVars, mainVars, received>>

Endpoint_Recv(p) ==
    /\ tx[p] # <<>>
    /\ tx' = [tx EXCEPT ![p] = Tail(@)]
    /\ received' = [received EXCEPT ![Other(p)] = Append(@, Extracted(Head(tx[p])))]
    /\ UNCHANGED <<rx, threadVars, dropVars, mainVars, sent>>

-----------------------------------------------------------------------------
(***************************************************************************)
(* The thread                                                               *)
(***************************************************************************)
thread_init ==
    /\ thread = "init"
    /\ thread' = "loop"
    /\ UNCHANGED <<rx, tx, is_done, from, buffer, loaded, dropVars, mainVars, endVars>>

\* Faulty variant: the thread does not look at is_done.
Loop_Deaf ==
    /\ thread = "loop"
    /\ thread' = "recv" /\ from' = "A"
    /\ UNCHANGED <<rx, tx, is_done, buffer, loaded, dropVars, mainVars, endVars>>

Loop ==
    /\ thread = "loop"
    /\ thread' = IF is_done THEN "none" ELSE "recv"
    /\ from' = "A"
    /\ UNCHANGED <<rx, tx, is_done, buffer, loaded, dropVars, mainVars, endVars>>

\* After port A comes port B, after port B the next pass.
NextPort ==
    /\ thread' = IF from = "A" THEN "recv" ELSE "loop"
    /\ from' = "B"

Recv_Nothing ==
    /\ thread = "recv" /\ rx[from] = <<>>
    /\ NextPort
    /\ UNCHANGED <<rx, tx, is_done, buffer, loaded, dropVars, mainVars, endVars>>

Received ==
    /\ thread = "recv" /\ rx[from] # <<>>
    /\ rx' = [rx EXCEPT ![from] = Tail(@)]
    /\ UNCHANGED <<tx, is_done, from, mainVars, endVars>>

\* Faulty variant: the counter is not looked at.
Recv_Drop_Unchecked ==
    /\ Received
    /\ loaded' = drop_count[from]
    /\ dropped' = [dropped EXCEPT ![from] = @ + 1]
    /\ thread' = "store"
    /\ UNCHANGED <<drop_count, ordered, buffer>>

\* The decrement loads the counter and stores it in two steps.
Recv_Drop ==
    /\ Received
    /\ drop_count[from] > 0
    /\ loaded' = drop_count[from]
    /\ dropped' = [dropped EXCEPT ![from] = @ + 1]
    /\ thread' = "store"
    /\ UNCHANGED <<drop_count, ordered, buffer>>

\* Faulty variant: the counter is not decremented.
Store_Keeps ==
    /\ thread = "store"
    /\ NextPort
    /\ UNCHANGED <<rx, tx, is_done, drop_count, ordered, dropped, buffer, loaded,
                   mainVars, endVars>>

Store ==
    /\ thread = "store"
    /\ drop_count' = [drop_count EXCEPT ![from] = loaded - 1]
    /\ loaded' = 0
    /\ NextPort
    /\ UNCHANGED <<rx, tx, is_done, ordered, dropped, buffer, mainVars, endVars>>

Recv_Relay ==
    /\ Received
    /\ drop_count[from] = 0
    /\ buffer' = <<Head(rx[from])>>
    /\ thread' = "send"
    /\ UNCHANGED <<dropVars, loaded>>

\* Faulty variant: a full queue is waited for.
Relay_Blocking ==
    /\ thread = "send" /\ Len(tx[Other(from)]) < MQ_MAXMSG
    /\ tx' = [tx EXCEPT ![Other(from)] = Append(@, buffer[1])]
    /\ buffer' = <<>>
    /\ NextPort
    /\ UNCHANGED <<rx, is_done, loaded, dropVars, mainVars, endVars>>

Relay ==
    /\ thread = "send"
    /\ tx' = [tx EXCEPT ![Other(from)] = tloe_mq_send(@, buffer[1])]
    /\ buffer' = <<>>
    /\ NextPort
    /\ UNCHANGED <<rx, is_done, loaded, dropVars, mainVars, endVars>>

thread_fn ==
    thread_init \/ Loop \/ Recv_Nothing \/ Recv_Drop \/ Store \/ Recv_Relay \/ Relay

-----------------------------------------------------------------------------
(***************************************************************************)
(* The main thread                                                          *)
(***************************************************************************)
Command ==
    /\ main = "prompt" /\ commands < MAX_COMMANDS
    /\ commands' = commands + 1

tloe_ns_thread_start ==
    /\ Command /\ is_done
    /\ is_done' = FALSE
    /\ thread' = "init"
    /\ UNCHANGED <<rx, tx, from, buffer, loaded, dropVars, main, endVars>>

\* Stopping takes effect when the thread comes to its next pass.
Stop(then) ==
    /\ Command /\ ~is_done
    /\ is_done' = TRUE
    /\ main' = then
    /\ UNCHANGED <<rx, tx, thread, from, buffer, loaded, dropVars, endVars>>

\* Faulty variant: the thread is not joined.
tloe_ns_thread_stop_Detached == Stop("prompt")

tloe_ns_thread_stop == Stop("joining")

pthread_join ==
    /\ main \in {"joining", "quitting"} /\ thread = "none"
    /\ main' = IF main = "joining" THEN "prompt" ELSE "gone"
    /\ UNCHANGED <<rx, tx, threadVars, dropVars, commands, endVars>>

\* tloe_ns_set_drop_count_bidirectional is this for both ports in turn.
tloe_ns_set_drop_count(p, count) ==
    /\ Command
    /\ drop_count' = [drop_count EXCEPT ![p] = count]
    /\ ordered' = [ordered EXCEPT ![p] = @ + count]
    /\ UNCHANGED <<rx, tx, threadVars, dropped, main, endVars>>

tloe_ns_flush_ports ==
    /\ Command /\ ~is_done /\ thread # "init"
    /\ rx' = [p \in Port |-> flush_message_queue(rx[p])]
    /\ tx' = [p \in Port |-> flush_message_queue(tx[p])]
    /\ UNCHANGED <<threadVars, dropVars, main, endVars>>

\* The process ends, and what its thread was doing with it.
Exit ==
    /\ main' = "gone" /\ thread' = "none"
    /\ buffer' = <<>> /\ loaded' = 0
    /\ UNCHANGED <<rx, tx, is_done, from, dropVars, endVars>>

\* Before the thread has opened the ports there is nothing to flush: the
\* pointers are null.
Flush_TooEarly == Command /\ ~is_done /\ thread = "init" /\ Exit

Quit_Running == Stop("quitting")
Quit_Stopped == Command /\ is_done /\ Exit

\* fgets returns NULL: the program ends without stopping the thread.
EndOfInput == main = "prompt" /\ Exit /\ UNCHANGED commands

\* The program is started anew.
Rerun ==
    /\ main = "gone" /\ commands < MAX_COMMANDS
    /\ main' = "prompt" /\ commands' = commands + 1
    /\ is_done' = TRUE
    /\ drop_count' = [p \in Port |-> 0]
    /\ UNCHANGED <<rx, tx, thread, from, buffer, loaded, ordered, dropped, endVars>>

MainThread ==
    \/ tloe_ns_thread_start \/ tloe_ns_thread_stop \/ pthread_join
    \/ \E p \in Port, count \in DROP_COUNTS : tloe_ns_set_drop_count(p, count)
    \/ tloe_ns_flush_ports \/ Flush_TooEarly
    \/ Quit_Running \/ Quit_Stopped \/ EndOfInput \/ Rerun

Next ==
    \/ thread_fn
    \/ MainThread
    \/ \E p \in Port : Endpoint_Send(p) \/ Endpoint_Recv(p)

Spec == Init /\ [][Next]_vars

\* The thread runs, and a join returns when it can.  Neither users nor
\* endpoints need do anything.
FairSpec == Spec /\ WF_vars(thread_fn) /\ WF_vars(pthread_join)

-----------------------------------------------------------------------------
(***************************************************************************)
(* Properties                                                               *)
(***************************************************************************)
\* What travels, in packets and taken out of them.
PacketType == {Packet(m) : m \in MESSAGES}
ContentType == {Contents(m) : m \in MESSAGES}

\* Every variable has its type.

NetworkTypeOK ==
    /\ rx \in [Port -> Seq(PacketType)]
    /\ tx \in [Port -> Seq(PacketType)]
    /\ is_done \in BOOLEAN
    /\ drop_count \in [Port -> Nat]
    /\ thread \in {"none", "init", "loop", "recv", "store", "send"}
    /\ from \in Port
    /\ buffer \in Seq(PacketType) /\ Len(buffer) = IF thread = "send" THEN 1 ELSE 0
    /\ loaded \in Nat /\ (thread = "store" => loaded > 0)
    /\ main \in {"prompt", "joining", "quitting", "gone"}
    /\ commands \in Nat
    /\ ordered \in [Port -> Nat]
    /\ dropped \in [Port -> Nat]
    /\ sent \in [Port -> Seq(ContentType)]
    /\ received \in [Port -> Seq(ContentType)]

\* There is never a second thread, and none is left behind: one runs as long as
\* is_done is clear, and at the prompt only then.  (tloe_ns_thread_start,
\* tloe_ns_thread_stop)
SingleThread ==
    /\ main = "prompt" => (is_done <=> thread = "none")
    /\ main \in {"joining", "quitting"} => is_done
    /\ main = "gone" => thread = "none"

\* However orders to drop race with their execution, no packet is dropped that
\* no user ordered to be dropped.  (drop_count_a_to_b--)
DropsOrdered == \A p \in Port : dropped[p] <= ordered[p]

\* Why that is so: what the counter and the pending store still allow was
\* ordered, too.
Accounted(p) ==
    /\ dropped[p] <= ordered[p]
    /\ main # "gone" =>
          IF thread = "store" /\ from = p
          THEN /\ dropped[p] + loaded - 1 <= ordered[p]
               /\ dropped[p] + drop_count[p] - 1 <= ordered[p]
          ELSE dropped[p] + drop_count[p] <= ordered[p]

DropsAccounted == \A p \in Port : Accounted(p)

\* Start, stop, drop, flush, end and restart of the simulator make it no worse
\* than a lossy fabric: packets keep their order, none is made up or repeated,
\* and each yields the message it was made of.  (thread_fn, tloe_frame.c)
Carried(q) == [i \in 1..Len(q) |-> Extracted(q[i])]

Link ==
    [p \in Port |-> Carried(tx[Other(p)]) \o (IF from = p THEN Carried(buffer) ELSE <<>>)
                        \o Carried(rx[p])]

Fabric == INSTANCE LossyFifo WITH
    Message <- ContentType, link <- Link

IsLossyFifo == Fabric!Spec

\* The command to stop returns, whatever is in the queues.  (tloe_ns_thread_stop)
StopReturns == (main = "joining") ~> (main = "prompt")

\* While the simulator runs it takes what endpoints send, even if the receiver
\* of either direction takes nothing.  (tloe_mq_send)
Drained ==
    \A p \in Port : (rx[p] # <<>> /\ ~is_done) ~> (rx[p] = <<>> \/ is_done \/ main = "gone")
=============================================================================

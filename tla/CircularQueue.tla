---------------------------- MODULE CircularQueue ----------------------------
(***************************************************************************)
(* The queue between two threads (omnixtend-c: util/circular_queue.c), for  *)
(* message_buffer: the main thread enqueues, the worker dequeues.  The lock *)
(* in the structure is never taken; front and rear are plain integers, each *)
(* written by one thread and read by both.  One action per access to them.  *)
(* Stores are seen in program order (the Makefile compiles without          *)
(* optimisation, and x86 keeps the order of stores).                        *)
(***************************************************************************)
EXTENDS Naturals, Sequences

CONSTANTS SIZE,         \* argument of create_queue
          MAX_PUT       \* bound of the model: elements enqueued

ASSUME QueueAssumption == SIZE \in Nat /\ SIZE >= 2 /\ MAX_PUT \in Nat

VARIABLES data, front, rear,        \* the structure
          main,                     \* next step of the main thread
          worker, taken,            \* next step of the worker, its local data
          put, got                  \* history: elements enqueued and dequeued

vars == <<data, front, rear, main, worker, taken, put, got>>

Index == 0 .. SIZE - 1

\* Faulty variant: no wrap at the end of the array.
Succ_NoWrap(i) == i + 1

\* (i + 1) % queue->size, for an index.
Succ(i) == IF i = SIZE - 1 THEN 0 ELSE i + 1

\* Elements are numbered from 1; what malloc left in the array is 0.
Init ==
    /\ data = [i \in Index |-> 0]
    /\ front = 0 /\ rear = 0
    /\ main = "idle" /\ worker = "idle" /\ taken = 0
    /\ put = <<>> /\ got = <<>>

is_queue_full == Succ(rear) = front
is_queue_empty == front = rear

\* Faulty variant: enqueues without asking whether there is room.
Enqueue_Check_Unasked ==
    /\ main = "idle" /\ Len(put) < MAX_PUT
    /\ main' = "store"
    /\ UNCHANGED <<data, front, rear, worker, taken, put, got>>

\* read_memory, write_memory: wait while full, then enqueue.
Enqueue_Check ==
    /\ main = "idle" /\ Len(put) < MAX_PUT
    /\ ~is_queue_full
    /\ main' = "store"
    /\ UNCHANGED <<data, front, rear, worker, taken, put, got>>

Enqueue_Store ==
    /\ main = "store"
    /\ data' = [data EXCEPT ![rear] = Len(put) + 1]
    /\ main' = "advance"
    /\ UNCHANGED <<front, rear, worker, taken, put, got>>

Enqueue_Advance ==
    /\ main = "advance"
    /\ rear' = Succ(rear)
    /\ put' = Append(put, Len(put) + 1)
    /\ main' = "idle"
    /\ UNCHANGED <<data, front, worker, taken, got>>

\* Faulty variant: takes an element without asking whether there is one.
Dequeue_Check_Unasked ==
    /\ worker = "idle"
    /\ worker' = "load"
    /\ UNCHANGED <<data, front, rear, main, taken, put, got>>

\* select_buffer: NULL when empty, otherwise the element at front.
Dequeue_Check ==
    /\ worker = "idle"
    /\ ~is_queue_empty
    /\ worker' = "load"
    /\ UNCHANGED <<data, front, rear, main, taken, put, got>>

Dequeue_Load ==
    /\ worker = "load"
    /\ taken' = data[front]
    /\ worker' = "advance"
    /\ UNCHANGED <<data, front, rear, main, put, got>>

Dequeue_Advance ==
    /\ worker = "advance"
    /\ front' = Succ(front)
    /\ got' = Append(got, taken)
    /\ worker' = "idle"
    /\ UNCHANGED <<data, rear, main, taken, put>>

Main == Enqueue_Check \/ Enqueue_Store \/ Enqueue_Advance
Worker == Dequeue_Check \/ Dequeue_Load \/ Dequeue_Advance
Next == Main \/ Worker

Spec == Init /\ [][Next]_vars

-----------------------------------------------------------------------------
(***************************************************************************)
(* Properties                                                               *)
(***************************************************************************)
\* Every variable has its type.
TypeOK ==
    /\ data \in [Index -> Nat]
    /\ front \in Index /\ rear \in Index
    /\ main \in {"idle", "store", "advance"}
    /\ worker \in {"idle", "load", "advance"}
    /\ taken \in Nat
    /\ put \in Seq(Nat) /\ got \in Seq(Nat)

\* Elements in the queue, and where the i-th of them is.
Count == IF rear >= front THEN rear - front ELSE rear - front + SIZE
Slot(i) == IF front + i - 1 < SIZE THEN front + i - 1 ELSE front + i - 1 - SIZE

\* The slots from front up to rear.
Contents == [i \in 1 .. Count |-> data[Slot(i)]]

\* Unlocked, step by step, the queue is a bounded first-in first-out queue:
\* nothing is lost, repeated, reordered or read before it is stored, and the
\* two threads never use one slot at a time.  (enqueue against dequeue)
BQ == INSTANCE BoundedQueue WITH queue <- Contents, CAPACITY <- SIZE - 1
IsBoundedQueue == BQ!Spec

\* What each thread may rely on between its check and its last store: the other
\* thread can only make room, or only add elements, and leaves the slot alone.
\* (enqueue between is_queue_full and the store of rear, dequeue between
\* is_queue_empty and the store of front)
ThreadInv ==
    /\ main # "idle" => Count < SIZE - 1
    /\ main = "advance" => data[rear] = Len(put) + 1
    /\ worker # "idle" => Count > 0
    /\ worker = "advance" => taken = data[front]
=============================================================================

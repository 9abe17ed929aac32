------------------------ MODULE CircularQueue_proofs ------------------------
(***************************************************************************)
(* CircularQueue implements BoundedQueue, for arrays of every size.  The    *)
(* strengthening is ThreadInv: what a thread has seen when it decided stays *)
(* true until its last store, whatever the other one does.                  *)
(***************************************************************************)
EXTENDS CircularQueue, TLAPS, SequenceTheorems

USE QueueAssumption

(***************************************************************************)
(* Type correctness: indices stay in the array.  (enqueue, dequeue)         *)
(***************************************************************************)
THEOREM QueueTypeCorrect == Spec => []TypeOK
<1>1. Init => TypeOK
  BY DEF Init, TypeOK, Index
<1>2. TypeOK /\ [Next]_vars => TypeOK'
  <2> SUFFICES ASSUME TypeOK, [Next]_vars PROVE TypeOK'
    OBVIOUS
  <2> USE DEF TypeOK, Index
  <2>1. CASE Enqueue_Check
    BY <2>1 DEF Enqueue_Check
  <2>2. CASE Enqueue_Store
    BY <2>2 DEF Enqueue_Store
  <2>3. CASE Enqueue_Advance
    BY <2>3 DEF Enqueue_Advance, Succ
  <2>4. CASE Dequeue_Check
    BY <2>4 DEF Dequeue_Check
  <2>5. CASE Dequeue_Load
    BY <2>5 DEF Dequeue_Load
  <2>6. CASE Dequeue_Advance
    BY <2>6 DEF Dequeue_Advance, Succ
  <2>7. CASE UNCHANGED vars
    BY <2>7 DEF vars
  <2> QED
    BY <2>1, <2>2, <2>3, <2>4, <2>5, <2>6, <2>7 DEF Next, Main, Worker
<1> QED
  BY <1>1, <1>2, PTL DEF Spec

\* Where elements are: the first one at front, none at rear, and all in the
\* array.
LEMMA Slots ==
  ASSUME TypeOK
  PROVE  /\ Count \in 0 .. SIZE - 1
         /\ \A i \in 1 .. Count : Slot(i) \in Index /\ Slot(i) # rear
         /\ Count > 0 => Slot(1) = front
         /\ Slot(Count + 1) = rear
         /\ Count = 0 <=> is_queue_empty
         /\ Count < SIZE - 1 <=> ~is_queue_full
BY DEF TypeOK, Index, Count, Slot, is_queue_empty, is_queue_full, Succ

\* Storing rear adds the slot that was at rear, and moves no other.
LEMMA RearAdvances ==
  ASSUME TypeOK, Count < SIZE - 1, rear' = Succ(rear), front' = front
  PROVE  /\ Count' = Count + 1
         /\ \A i \in 1 .. Count + 1 : Slot(i)' = Slot(i)
BY DEF TypeOK, Index, Count, Slot, Succ

\* Storing front takes the first slot away and shifts the others.
LEMMA FrontAdvances ==
  ASSUME TypeOK, Count > 0, front' = Succ(front), rear' = rear
  PROVE  /\ Count' = Count - 1
         /\ \A i \in 1 .. Count - 1 : Slot(i)' = Slot(i + 1)
BY DEF TypeOK, Index, Count, Slot, Succ

(***************************************************************************)
(* ThreadInv is inductive beside TypeOK.                                    *)
(***************************************************************************)
LEMMA ThreadStep == TypeOK /\ TypeOK' /\ ThreadInv /\ [Next]_vars => ThreadInv'
<1> SUFFICES ASSUME TypeOK, TypeOK', ThreadInv, [Next]_vars PROVE ThreadInv'
  OBVIOUS
<1> USE Slots DEF ThreadInv
<1>1. CASE Enqueue_Check
  BY <1>1 DEF Enqueue_Check, Count
<1>2. CASE Enqueue_Store
  <2>1. Count' = Count
    BY <1>2 DEF Enqueue_Store, Count
  <2>2. data'[rear] = Len(put) + 1
    BY <1>2 DEF Enqueue_Store, TypeOK
  <2>3. worker # "idle" => data'[front] = data[front]
    BY <1>2 DEF Enqueue_Store, TypeOK, is_queue_empty
  <2> QED
    BY <1>2, <2>1, <2>2, <2>3 DEF Enqueue_Store
<1>3. CASE Enqueue_Advance
  BY <1>3, RearAdvances DEF Enqueue_Advance, TypeOK
<1>4. CASE Dequeue_Check
  <2>1. Count' = Count
    BY <1>4 DEF Dequeue_Check, Count
  <2> QED
    BY <1>4, <2>1 DEF Dequeue_Check
<1>5. CASE Dequeue_Load
  BY <1>5 DEF Dequeue_Load, Count
<1>6. CASE Dequeue_Advance
  BY <1>6, FrontAdvances DEF Dequeue_Advance, TypeOK
<1>7. CASE UNCHANGED vars
  BY <1>7 DEF vars, Count
<1> QED
  BY <1>1, <1>2, <1>3, <1>4, <1>5, <1>6, <1>7 DEF Next, Main, Worker

\* What either thread has found out before its last store still holds at that
\* store, for arrays of every size and every interleaving: the missing lock is
\* not missed.  (enqueue, dequeue)
THEOREM ThreadsRely == Spec => []ThreadInv
<1>1. Init => ThreadInv
  BY DEF Init, ThreadInv
<1> QED
  BY <1>1, ThreadStep, QueueTypeCorrect, PTL DEF Spec

(***************************************************************************)
(* A step that stores neither front nor rear is invisible.                  *)
(***************************************************************************)
LEMMA Invisible ==
  ASSUME TypeOK, front' = front, rear' = rear,
         \A i \in 1 .. Count : data'[Slot(i)] = data[Slot(i)]
  PROVE  Contents' = Contents
<1>1. Count' = Count /\ \A i \in 1 .. Count : Slot(i)' = Slot(i)
  BY DEF Count, Slot
<1> QED
  BY <1>1 DEF Contents

(***************************************************************************)
(* Sequences given as functions: one more element, one element fewer.       *)
(***************************************************************************)
LEMMA SeqOfFunction ==
  ASSUME NEW n \in Nat, NEW s \in [1 .. n -> Nat]
  PROVE  s \in Seq(Nat) /\ Len(s) = n
OBVIOUS

LEMMA AppendOfFunction ==
  ASSUME NEW n \in Nat, NEW s \in [1 .. n -> Nat],
         NEW t \in [1 .. n + 1 -> Nat], \A i \in 1 .. n : t[i] = s[i]
  PROVE  t = Append(s, t[n + 1])
<1>1. s \in Seq(Nat) /\ Len(s) = n
  BY SeqOfFunction
<1>2. t \in Seq(Nat) /\ Len(t) = n + 1
  BY SeqOfFunction, n + 1 \in Nat
<1> DEFINE u == Append(s, t[n + 1])
<1>3. /\ u \in Seq(Nat) /\ Len(u) = n + 1 /\ u[n + 1] = t[n + 1]
      /\ \A i \in 1 .. n : u[i] = s[i]
  BY <1>1
<1> HIDE DEF u
<1>4. \A i \in 1 .. Len(t) : t[i] = u[i]
  BY <1>2, <1>3
<1>5. t = u
  BY <1>2, <1>3, <1>4, SeqEqual
<1> QED
  BY <1>5 DEF u

LEMMA TailOfFunction ==
  ASSUME NEW n \in Nat, n > 0, NEW s \in [1 .. n -> Nat],
         NEW t \in [1 .. n - 1 -> Nat], \A i \in 1 .. n - 1 : t[i] = s[i + 1]
  PROVE  s # <<>> /\ Head(s) = s[1] /\ t = Tail(s)
<1>1. s \in Seq(Nat) /\ Len(s) = n
  BY SeqOfFunction
<1>2. t \in Seq(Nat) /\ Len(t) = n - 1
  BY SeqOfFunction, n - 1 \in Nat
<1>3. s # <<>> /\ Head(s) = s[1]
  BY <1>1
<1> DEFINE u == Tail(s)
<1>4. /\ u \in Seq(Nat) /\ Len(u) = n - 1
      /\ \A i \in 1 .. n - 1 : u[i] = s[i + 1]
  BY <1>1, <1>3
<1> HIDE DEF u
<1>5. \A i \in 1 .. Len(t) : t[i] = u[i]
  BY <1>2, <1>4
<1>6. t = u
  BY <1>2, <1>4, <1>5, SeqEqual
<1> QED
  BY <1>3, <1>6 DEF u

\* The contents are numbers, as many as Count says.
LEMMA ContentsType ==
  ASSUME TypeOK
  PROVE  Contents \in [1 .. Count -> Nat]
<1>1. \A i \in 1 .. Count : data[Slot(i)] \in Nat
  BY Slots DEF TypeOK
<1> QED
  BY <1>1 DEF Contents

\* The last step of enqueue is the abstract Enqueue.
LEMMA EnqueueStep ==
  ASSUME TypeOK, ThreadInv, Enqueue_Advance
  PROVE  BQ!Enqueue
<1>1. Count < SIZE - 1 /\ data[rear] = Len(put) + 1 /\ Count \in Nat
  BY Slots DEF ThreadInv, Enqueue_Advance
<1>2. Count' = Count + 1 /\ \A i \in 1 .. Count + 1 : Slot(i)' = Slot(i)
  BY <1>1, RearAdvances DEF Enqueue_Advance
<1>3. Contents' = [i \in 1 .. Count + 1 |-> data[Slot(i)]]
  BY <1>2 DEF Contents, Enqueue_Advance
<1>4. data[Slot(Count + 1)] = Len(put) + 1 /\ Len(put) + 1 \in Nat
  BY <1>1, Slots DEF TypeOK
<1>5. \A i \in 1 .. Count + 1 : data[Slot(i)] \in Nat
  BY <1>1, <1>4, Slots DEF TypeOK
<1>6. Contents' \in [1 .. Count + 1 -> Nat]
  BY <1>3, <1>5
<1>7. \A i \in 1 .. Count : Contents'[i] = Contents[i]
  <2>1. Contents = [i \in 1 .. Count |-> data[Slot(i)]]
    BY DEF Contents
  <2> QED
    BY <1>1, <1>3, <2>1
<1>8. Contents' = Append(Contents, Contents'[Count + 1])
  BY <1>1, <1>6, <1>7, ContentsType, AppendOfFunction
<1>9. Contents'[Count + 1] = Len(put) + 1
  BY <1>1, <1>3, <1>4
<1>10. Len(Contents) = Count
  BY <1>1, ContentsType, SeqOfFunction
<1> QED
  BY <1>1, <1>8, <1>9, <1>10 DEF BQ!Enqueue, Enqueue_Advance

\* The last step of dequeue is the abstract Dequeue.
LEMMA DequeueStep ==
  ASSUME TypeOK, ThreadInv, Dequeue_Advance
  PROVE  BQ!Dequeue
<1>1. Count > 0 /\ taken = data[front] /\ Count \in Nat
  BY Slots DEF ThreadInv, Dequeue_Advance
<1>2. Count' = Count - 1 /\ \A i \in 1 .. Count - 1 : Slot(i)' = Slot(i + 1)
  BY <1>1, FrontAdvances DEF Dequeue_Advance
<1>3. Contents' = [i \in 1 .. Count - 1 |-> data[Slot(i + 1)]]
  BY <1>2 DEF Contents, Dequeue_Advance
<1>4. \A i \in 1 .. Count - 1 : i + 1 \in 1 .. Count /\ data[Slot(i + 1)] \in Nat
  BY <1>1, Slots DEF TypeOK
<1>5. Contents' \in [1 .. Count - 1 -> Nat]
  BY <1>3, <1>4
<1>6. \A i \in 1 .. Count - 1 : Contents'[i] = Contents[i + 1]
  BY <1>3, <1>4 DEF Contents
<1>7. Contents # <<>> /\ Head(Contents) = Contents[1] /\ Contents' = Tail(Contents)
  BY <1>1, <1>5, <1>6, ContentsType, TailOfFunction
<1>8. Contents[1] = taken
  BY <1>1, Slots DEF Contents
<1> QED
  BY <1>7, <1>8 DEF BQ!Dequeue, Dequeue_Advance

(***************************************************************************)
(* Without its lock, the queue of the main thread and the worker is a       *)
(* bounded first-in first-out queue, whatever its size and however their    *)
(* steps interleave.  (enqueue, dequeue)                                    *)
(***************************************************************************)
THEOREM ImplementsBoundedQueue == Spec => IsBoundedQueue
<1>1. Init => BQ!Init
  BY DEF Init, BQ!Init, Contents, Count
<1>2. TypeOK /\ ThreadInv /\ [Next]_vars => [BQ!Next]_BQ!vars
  <2> SUFFICES ASSUME TypeOK, ThreadInv, [Next]_vars PROVE [BQ!Next]_BQ!vars
    OBVIOUS
  <2>1. CASE Enqueue_Check
    BY <2>1, Invisible DEF Enqueue_Check, BQ!vars
  <2>2. CASE Enqueue_Store
    <3>1. \A i \in 1 .. Count : data'[Slot(i)] = data[Slot(i)]
      BY <2>2, Slots DEF Enqueue_Store, TypeOK
    <3> QED
      BY <2>2, <3>1, Invisible DEF Enqueue_Store, BQ!vars
  <2>3. CASE Enqueue_Advance
    BY <2>3, EnqueueStep DEF BQ!Next
  <2>4. CASE Dequeue_Check
    BY <2>4, Invisible DEF Dequeue_Check, BQ!vars
  <2>5. CASE Dequeue_Load
    BY <2>5, Invisible DEF Dequeue_Load, BQ!vars
  <2>6. CASE Dequeue_Advance
    BY <2>6, DequeueStep DEF BQ!Next
  <2>7. CASE UNCHANGED vars
    BY <2>7, Invisible DEF vars, BQ!vars
  <2> QED
    BY <2>1, <2>2, <2>3, <2>4, <2>5, <2>6, <2>7 DEF Next, Main, Worker
<1> QED
  BY <1>1, <1>2, QueueTypeCorrect, ThreadsRely, PTL DEF Spec, IsBoundedQueue, BQ!Spec
=============================================================================

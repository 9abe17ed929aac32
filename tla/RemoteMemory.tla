---------------------------- MODULE RemoteMemory ----------------------------
(***************************************************************************)
(* What a connected pair of endpoints promises its two users: each of them  *)
(* reads and writes the memory of the other, every request is performed     *)
(* exactly once and in the order it was issued, and is answered exactly     *)
(* once, in the same order, with what the memory held when it was           *)
(* performed.  Frames, windows, acknowledgements and credits do not exist   *)
(* at this level.                                                           *)
(***************************************************************************)
EXTENDS Naturals, Sequences

CONSTANTS Master, Slave    \* the two endpoints

Endpoint == {Master, Slave}
Peer(e) == IF e = Master THEN Slave ELSE Master

VARIABLES mem_storage,  \* the word each endpoint's memory holds
          issued,       \* the requests each user has issued, in order
          served,       \* the results of each user's requests performed so far
          answered      \* the results each user has got back

vars == <<mem_storage, issued, served, answered>>

Init == /\ mem_storage = [e \in Endpoint |-> 0]
        /\ issued = [e \in Endpoint |-> <<>>]
        /\ served = [e \in Endpoint |-> <<>>]
        /\ answered = [e \in Endpoint |-> <<>>]

\* The user of e asks for a read, or for a write of a value.
Issue(e) ==
    \E op \in {"Get", "PutFullData"}, val \in 0 .. Len(issued[e]) + 1 :
        /\ issued' = [issued EXCEPT ![e] = Append(@, [op |-> op, val |-> val])]
        /\ UNCHANGED <<mem_storage, served, answered>>

\* The next request of e not yet performed takes effect in the peer's memory.
Serve(e) ==
    /\ Len(served[e]) < Len(issued[e])
    /\ LET req == issued[e][Len(served[e]) + 1]
           p == Peer(e)
       IN  \/ /\ req.op = "PutFullData"
              /\ mem_storage' = [mem_storage EXCEPT ![p] = req.val]
              /\ served' = [served EXCEPT ![e] =
                               Append(@, [op |-> "AccessAck", val |-> 0])]
           \/ /\ req.op = "Get"
              /\ served' = [served EXCEPT ![e] =
                               Append(@, [op |-> "AccessAckData", val |-> mem_storage[p]])]
              /\ UNCHANGED mem_storage
    /\ UNCHANGED <<issued, answered>>

\* The user of e gets the result of its oldest unanswered request.
Answer(e) ==
    /\ Len(answered[e]) < Len(served[e])
    /\ answered' = [answered EXCEPT ![e] =
                       Append(@, served[e][Len(answered[e]) + 1])]
    /\ UNCHANGED <<mem_storage, issued, served>>

Next == \E e \in Endpoint : Issue(e) \/ Serve(e) \/ Answer(e)

\* Every issued request is eventually performed and answered.
Fairness == \A e \in Endpoint : WF_vars(Serve(e)) /\ WF_vars(Answer(e))

SafeSpec == Init /\ [][Next]_vars
Spec == SafeSpec /\ Fairness
=============================================================================

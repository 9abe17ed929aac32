------------------------------ MODULE LossyFifo ------------------------------
(***************************************************************************)
(* What a fabric promises the two endpoints: in each direction what arrives *)
(* was sent, arrives at most once and in the order it was sent; anything    *)
(* may be lost.  This is the fabric TLoEEndpoint is built on.               *)
(***************************************************************************)
EXTENDS Integers, Sequences

CONSTANTS Port, Message

VARIABLES
    sent,       \* sent[p]: what the endpoint at p has sent
    link,       \* link[p]: what of it is under way, oldest first
    received    \* received[p]: what of it the other endpoint has got

vars == <<sent, link, received>>

Init ==
    /\ sent = [p \in Port |-> <<>>]
    /\ link = [p \in Port |-> <<>>]
    /\ received = [p \in Port |-> <<>>]

Send(p) ==
    \E m \in Message :
        /\ sent' = [sent EXCEPT ![p] = Append(@, m)]
        /\ \/ link' = [link EXCEPT ![p] = Append(@, m)]
           \/ link' = link
        /\ UNCHANGED received

Without(s, n) == [i \in 1..(Len(s) - 1) |-> IF i < n THEN s[i] ELSE s[i + 1]]

Lose(p) ==
    \E n \in 1..Len(link[p]) :
        /\ link' = [link EXCEPT ![p] = Without(@, n)]
        /\ UNCHANGED <<sent, received>>

Deliver(p) ==
    /\ link[p] # <<>>
    /\ received' = [received EXCEPT ![p] = Append(@, Head(link[p]))]
    /\ link' = [link EXCEPT ![p] = Tail(@)]
    /\ UNCHANGED sent

Next == \E p \in Port : Send(p) \/ Lose(p) \/ Deliver(p)

Spec == Init /\ [][Next]_vars
=============================================================================

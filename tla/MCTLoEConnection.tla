-------------------------- MODULE MCTLoEConnection --------------------------
(***************************************************************************)
(* TLoEConnection for TLC: who issues how many requests.                    *)
(***************************************************************************)
EXTENDS TLoEConnection

CONSTANTS MASTER_REQUESTS, SLAVE_REQUESTS

MCRequests == [e \in Endpoint |-> IF e = Master THEN MASTER_REQUESTS ELSE SLAVE_REQUESTS]
=============================================================================

---------------------------- MODULE TokenStream ----------------------------
(***************************************************************************)
(* What a batch of requests is promised, whatever computes it: every       *)
(* request's tokens 1, 2, 3, ... are delivered in order, none twice and    *)
(* none missing, and each step of a running batch serves all its requests. *)
(***************************************************************************)
EXTENDS Integers

CONSTANTS Requests

VARIABLES
    batch,      \* the requests that are decoded together, {} before they are
    count,      \* tokens delivered for each request
    last        \* the last of them

vars == <<batch, count, last>>

Token(r, n) == [req |-> r, pos |-> n]
Started == {r \in Requests : count[r] > 0}

Init ==
    /\ batch = {}
    /\ count = [r \in Requests |-> 0]
    /\ last = [r \in Requests |-> Token(r, 0)]

\* A new set of requests; nothing of the old one is delivered any more.
Forget ==
    /\ batch' = {}
    /\ count' = [r \in Requests |-> 0]
    /\ last' = [r \in Requests |-> Token(r, 0)]

First(r) ==
    /\ batch = {}
    /\ count[r] = 0
    /\ count' = [count EXCEPT ![r] = 1]
    /\ last' = [last EXCEPT ![r] = Token(r, 1)]
    /\ UNCHANGED batch

\* Every request that has been started takes part, not just some.
Begin ==
    /\ batch = {}
    /\ batch' = Started
    /\ UNCHANGED <<count, last>>

Deliver ==
    /\ batch # {}
    /\ count' = [r \in Requests |-> IF r \in batch THEN count[r] + 1 ELSE count[r]]
    /\ last' = [r \in Requests |-> IF r \in batch THEN Token(r, count[r] + 1) ELSE last[r]]
    /\ UNCHANGED batch

Next ==
    \/ Forget
    \/ \E r \in Requests : First(r)
    \/ Begin
    \/ Deliver

Spec == Init /\ [][Next]_vars

=============================================================================

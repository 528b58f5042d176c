---------------------------- MODULE LeadDelivery ----------------------------
(***************************************************************************)
(* What the pipeline promises about a lead, wherever webhooks are resent,  *)
(* messages repeated or redelivered and handlers run again: it is taken in *)
(* before anybody is told so, and each of its channels is handed it at     *)
(* most once.                                                              *)
(***************************************************************************)
EXTENDS Naturals

CONSTANTS
    Lead,       \* (gateway, transaction_id, event)
    Channel     \* where a lead is distributed to

VARIABLES
    taken,      \* leads the pipeline took in
    told,       \* leads whose sender was answered accepted
    handed      \* how often each channel was handed each lead

vars == <<taken, told, handed>>

Init ==
    /\ taken = {}
    /\ told = {}
    /\ handed = [k \in Lead |-> [c \in Channel |-> 0]]

Take(k) ==
    /\ taken' = taken \cup {k}
    /\ UNCHANGED <<told, handed>>

Tell(k) ==
    /\ k \in taken
    /\ told' = told \cup {k}
    /\ UNCHANGED <<taken, handed>>

Hand(k, c) ==
    /\ k \in taken
    /\ handed[k][c] = 0
    /\ handed' = [handed EXCEPT ![k][c] = 1]
    /\ UNCHANGED <<taken, told>>

Next ==
    \E k \in Lead : Take(k) \/ Tell(k) \/ \E c \in Channel : Hand(k, c)

Spec == Init /\ [][Next]_vars
=============================================================================

---------------------------- MODULE MCInsertLead ----------------------------
(* Instances of InsertLead for TLC, over numbers.                          *)
EXTENDS InsertLead

(* Nothing orders the calls or tells one address, event or set of columns  *)
(* from another: the first call's may be the first ones, and the other two *)
(* calls come in order.                                                    *)
Rank(q) == 4 * q.email + 2 * q.event + q.details

SortedInit ==
    /\ Init
    /\ p[1] = [email |-> 1, order |-> 1, event |-> 1, details |-> 1]
    /\ Rank(p[2]) <= Rank(p[3])

SortedSpec ==
    SortedInit /\ [][Next]_vars /\ \A c \in Call : WF_vars(Run(c))
=============================================================================

----------------------------- MODULE MCPipeline -----------------------------
(* Instances of Pipeline for TLC.                                          *)
EXTENDS Pipeline

(* Every webhook is an approved plaintext event of one order.              *)
SameLead ==
    [w \in Webhook |->
        [gateway |-> "lous", raw |-> "good", encrypted |-> FALSE,
         plain |-> "garbled", order |-> CHOOSE o \in Order : TRUE,
         approved |-> TRUE, header |-> FALSE]]

Doubling == {"timeout", "connection"}
Redelivering == {"rollback", "disconnect"}
=============================================================================

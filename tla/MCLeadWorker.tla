---------------------------- MODULE MCLeadWorker ----------------------------
(* Instances of LeadWorker for TLC.                                        *)
EXTENDS LeadWorker, TLC

(* Every message is about the same lead.                                   *)
OneLead == [m \in Msg |-> CHOOSE o \in Order : TRUE]

HarshFaults == FaultKinds \ {"pool", "commit"}
QuietFaults == {"pool", "rollback", "commit", "disconnect"}
BrokerFaults == {"publish"}

Symmetry == Permutations(Msg)
=============================================================================

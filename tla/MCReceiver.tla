----------------------------- MODULE MCReceiver -----------------------------
(* Instances of Receiver for TLC.                                          *)
EXTENDS Receiver, TLC

(* A plaintext webhook that validates.                                     *)
Event(g, o, ap, h) ==
    [gateway |-> g, raw |-> "good", encrypted |-> FALSE, plain |-> "garbled",
     order |-> o, approved |-> ap, header |-> h]

AnyOrder == CHOOSE o \in Order : TRUE

(* Webhooks for one natural key, approved or not, with fresh correlation   *)
(* ids or with the sender's.                                               *)
SameKeyFresh == {Event("lous", AnyOrder, ap, FALSE) : ap \in BOOLEAN}
ApprovedHeader == {Event("lous", AnyOrder, TRUE, TRUE)}
ApprovedFresh == {Event("lous", AnyOrder, TRUE, FALSE)}

(* Every form of submission that exists, up to the parts the handler does  *)
(* not look at.                                                            *)
EveryForm ==
    {s \in Submission :
        /\ s.encrypted => s.gateway = "grummer" /\ s.raw # "good"
        /\ s.plain # "garbled" => s.encrypted /\ s.raw = "bad"
        /\ s.gateway = "unknown" => s.raw = "good"
        /\ ~s.approved \/ s.header => Verdict(s) = "event"}

Slow == {"timeout"}
Unconfirmed == {"publish"}
EndingFaults == {"publish", "crash", "timeout"}
EveryFault == FaultKinds

Symmetry == Permutations(Webhook)
=============================================================================

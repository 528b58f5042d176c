----------------------------- MODULE LeadStore -----------------------------
(***************************************************************************)
(* What the lead consumer relies on: each call of sp_insert_lead finds or  *)
(* stores its lead in one step, and is then answered, or fails without     *)
(* telling whether it stored it.  LeadWorker!InsertLead and                *)
(* LeadWorker!InsertLeadFails are these steps seen from the consumer.      *)
(***************************************************************************)
CONSTANTS
    Call,       \* calls of the procedure
    Lead        \* (gateway, transaction_id, event)

VARIABLES
    about,      \* the lead each call is about
    stored,     \* the leads in lead_events
    answer      \* what is decided, and then known, of each call

vars == <<about, stored, answer>>

Init ==
    /\ about \in [Call -> Lead]
    /\ stored = {}
    /\ answer = [c \in Call |-> "none"]

Decide(c, leads, a) ==
    /\ answer[c] = "none"
    /\ stored' = leads
    /\ answer' = [answer EXCEPT ![c] = a]
    /\ UNCHANGED about

Store(c) == about[c] \notin stored /\ Decide(c, stored \cup {about[c]}, "stored")

Find(c) == about[c] \in stored /\ Decide(c, stored, "found")

Tell(c) ==
    /\ answer[c] \in {"stored", "found"}
    /\ answer' = [answer EXCEPT ![c] = IF @ = "stored" THEN "new" ELSE "known"]
    /\ UNCHANGED <<about, stored>>

Fail(c) ==
    /\ answer[c] \in {"none", "stored", "found"}
    /\ answer' = [answer EXCEPT ![c] = "failed"]
    /\ UNCHANGED <<about, stored>>

(* The connection is lost while the commit is under way.                   *)
StoreUntold(c) == Decide(c, stored \cup {about[c]}, "failed")

Next == \E c \in Call : Store(c) \/ Find(c) \/ Tell(c) \/ Fail(c) \/ StoreUntold(c)

Spec == Init /\ [][Next]_vars
=============================================================================

------------------------------ MODULE Pipeline ------------------------------
(***************************************************************************)
(* The receiver and the lead consumer, joined by lead.received: a request  *)
(* of the receiver is a message of the consumer from the moment RabbitMQ   *)
(* has it.  Each part keeps its own failures; they share nothing else but  *)
(* the database, where neither reads what the other writes.                *)
(***************************************************************************)
EXTENDS Naturals

CONSTANTS
    Webhook, Order, MaxSends, FoundRows, NoId,  \* as in Receiver
    Form,               \* what each webhook is
    ReceiverFaults,
    MaxAttempts, MaxDeliveries, PoolSize,       \* as in LeadWorker
    WorkerFaults

VARIABLES
    sub, client, sent, pc, outcome, answer, claim, row, lost, processed, queued,
    queue, delivered, stage, attempt, next, events, copies, buried

receiverVars ==
    <<sub, client, sent, pc, outcome, answer, claim, row, lost, processed, queued>>
workerVars ==
    <<queue, delivered, stage, attempt, next, events, copies, buried>>
vars == <<receiverVars, workerVars>>

R == INSTANCE Receiver WITH
        Submissions <- {Form[w] : w \in Webhook},
        Faults <- ReceiverFaults

KeyOf(w) == <<Form[w].gateway, Form[w].order>>

L == INSTANCE LeadWorker WITH
        Msg <- R!Request,
        Order <- R!Key,
        OrderOf <- [r \in R!Request |-> KeyOf(r[1])],
        Faults <- WorkerFaults

ASSUME PipelineAssumption ==
    /\ \A w \in Webhook : Form[w] \in R!Submission
                          /\ Form[w].gateway \in R!ValidGateways
    /\ MaxSends \in Nat \ {0}
    /\ FoundRows \in BOOLEAN
    /\ ReceiverFaults \subseteq R!FaultKinds
    /\ NoId \notin R!CorrelationId
    /\ MaxAttempts \in Nat \ {0}
    /\ MaxDeliveries \in Nat \ {0}
    /\ PoolSize \in Nat \ {0}
    /\ WorkerFaults \subseteq L!FaultKinds

Init ==
    /\ R!Init /\ sub = [w \in Webhook |-> Form[w]]
    /\ L!Init

(* The routing keys lead.received and lead.dead.* keep leads and dead      *)
(* letters apart.                                                          *)
Arrives(r) == r \in queued' \ queued /\ outcome[r] = "accepted"

(* A step of the receiver, and what it leaves in lead.received.            *)
Receive(step) ==
    /\ step
    /\ IF \E r \in R!Request : Arrives(r)
       THEN \E r \in R!Request : Arrives(r) /\ L!Arrive(r)
       ELSE UNCHANGED workerVars

(* A step of the worker or the broker.                                     *)
Distribute(step) == step /\ UNCHANGED receiverVars

Send(w) == Receive(R!Send(w))
GiveUp(w) == Receive(R!GiveUp(w))
HandleRequest(r) == Receive(R!Handle(r))
DisturbRequest(r) == Receive(R!LoseConnection(r) \/ R!Crash(r))

Deliver(r) == Distribute(L!Deliver(r))
HandleMessage(h) == Distribute(L!Handle(h))
DisturbWorker == Distribute(L!Disconnect \/ L!Crash \/ L!Restart)

(* Everything is answered, no handler runs and lead.received is empty.     *)
Quiet ==
    /\ \A w \in Webhook : client[w] = "done"
    /\ \A r \in R!Request : pc[r] \notin R!Running
    /\ \A r \in R!Request : queue[r] \in L!Gone \cup {"absent"}
    /\ \A h \in L!Delivery : stage[h] \notin L!Running

Finished == Quiet /\ UNCHANGED vars

Next ==
    \/ \E w \in Webhook : Send(w) \/ GiveUp(w)
    \/ \E r \in R!Request : HandleRequest(r) \/ DisturbRequest(r) \/ Deliver(r)
    \/ \E h \in L!Delivery : HandleMessage(h)
    \/ DisturbWorker
    \/ Finished

Spec == Init /\ [][Next]_vars

(* What the client, the handlers and the broker's deliveries do.           *)
Progress ==
    \/ \E w \in Webhook : Send(w) \/ GiveUp(w)
    \/ \E r \in R!Request : HandleRequest(r) \/ Deliver(r)
    \/ \E h \in L!Delivery : HandleMessage(h)

(* Something goes on while anything can.  As failures are bounded, this    *)
(* assumes no more than the fairness of the two parts, which run each      *)
(* handler in turn, and it is enough: sends, attempts and deliveries are   *)
(* bounded too, so none starves another for ever.                          *)
FairSpec == Spec /\ WF_vars(Progress)

-----------------------------------------------------------------------------
(* Leads in lead.received, once or more often.                             *)
TakenLeads ==
    {k \in R!Key : \E r \in queued : outcome[r] = "accepted" /\ KeyOf(r[1]) = k}

ToldLeads ==
    {k \in R!Key : \E r \in R!Request : answer[r] = "accepted" /\ KeyOf(r[1]) = k}

Promise == INSTANCE LeadDelivery WITH
    Lead <- R!Key,
    Channel <- L!Channel,
    taken <- TakenLeads,
    told <- ToldLeads,
    handed <- copies

(* From the webhook to the channels: nobody is told accepted before the    *)
(* lead is in RabbitMQ, no channel is handed a lead the receiver did not   *)
(* accept, and none is handed one twice, though the receiver may publish   *)
(* it again after a lost transaction and the broker deliver it again.      *)
ImplementsLeadDelivery == Promise!Spec

Distributed(k) == \A c \in L!Channel : copies[k][c] > 0

(* Every webhook with this one's key validates and is approved.            *)
Candidate(w) ==
    \A v \in Webhook : KeyOf(v) = KeyOf(w) =>
        R!Verdict(Form[v]) = "event" /\ Form[v].approved

(* The three properties below are about a consumer whose publishes to the  *)
(* channels succeed, that gets the result set of every call it committed,  *)
(* and whose process lives: {"publish", "reply", "crash"} and WorkerFaults *)
(* have nothing in common.  Otherwise the lead is stored, its message is   *)
(* acknowledged by a later run, and channels stay empty.                   *)

(* Under that condition an approved webhook that validates ends in all     *)
(* four channels, by itself or through another with its key, unless a      *)
(* webhook with its key is not approved, a request was refused or died,    *)
(* the consumer gave a message up and rejected it, or RabbitMQ restarted   *)
(* with it: resends, claims that are lost after the answer, repeated       *)
(* messages and those a broken connection has delivered again lose none.   *)
EveryLeadReachesChannels ==
    \A w \in Webhook : Candidate(w) =>
        <>(\/ Distributed(KeyOf(w))
           \/ \E r \in R!Request :
                /\ KeyOf(r[1]) = KeyOf(w)
                /\ \/ answer[r] = "unavailable" \/ pc[r] = "dead"
                   \/ queue[r] \in {"dropped", "lost"})

(* Under the condition above, once all is quiet, a lead whose sender was   *)
(* told accepted is in all four channels, or a message of it was rejected  *)
(* or was in RabbitMQ when it restarted: none is acknowledged away, by a   *)
(* message repeated or delivered again either.                             *)
ToldIsAccountedFor ==
    Quiet => \A k \in ToldLeads :
        \/ Distributed(k)
        \/ \E r \in R!Request : KeyOf(r[1]) = k /\ queue[r] \in {"dropped", "lost"}

(* Under the condition above, once all is quiet, an event whose handler in *)
(* the receiver ran to its end is in all four channels, or there is a      *)
(* trace of what became of it: of the requests with its key one was told   *)
(* 503, or was not approved and discarded, or has a message that was       *)
(* rejected or was lost in a restart.  Claims, duplicates, repeated        *)
(* messages and redeliveries then leave no other way for a lead to end.    *)
EndedIsAccountedFor ==
    Quiet => \A r \in R!Request :
        pc[r] = "closed" /\ R!Verdict(Form[r[1]]) = "event" =>
            \/ Distributed(KeyOf(r[1]))
            \/ \E q \in R!Request :
                 /\ KeyOf(q[1]) = KeyOf(r[1])
                 /\ \/ answer[q] = "unavailable"
                    \/ /\ outcome[q] = "discarded_non_approved"
                       /\ ~Form[q[1]].approved
                    \/ queue[q] \in {"dropped", "lost"}
=============================================================================

----------------------------- MODULE LeadWorker -----------------------------
(***************************************************************************)
(* The consumer of lead.received: RabbitMQ delivers a message, FastStream  *)
(* runs handle_lead inside RetryMiddleware, DlqMiddleware and its          *)
(* acknowledgement, and process_lead calls sp_insert_lead and publishes    *)
(* one message per channel.                                                *)
(*                                                                         *)
(* There is no prefetch limit, so all the messages delivered to the one    *)
(* worker process are handled concurrently and interleave at every await.  *)
(* A delivery is <<m, d>>, the d-th delivery of message m.  When the AMQP  *)
(* connection breaks the broker delivers its unacknowledged messages       *)
(* again, while the handlers of the earlier deliveries run on.  The        *)
(* queues are durable but no message is persistent: a broker that restarts *)
(* comes back with empty queues.                                           *)
(***************************************************************************)
EXTENDS Naturals, FiniteSets

CONSTANTS
    Msg,            \* messages published to lead.received
    Order,          \* (gateway, transaction_id, event) of the leads
    OrderOf,        \* the lead a message is about: the receiver may repeat it
    MaxAttempts,    \* runs of the handler per delivery (retries + 1)
    MaxDeliveries,  \* bound on the deliveries of one message
    PoolSize,       \* connections of the database pool
    Faults          \* the failures that may occur, a subset of FaultKinds

FaultKinds == {"pool", "rollback", "reply", "commit", "publish",
               "disconnect", "crash", "restart"}

ASSUME LeadWorkerAssumption ==
    /\ OrderOf \in [Msg -> Order]
    /\ MaxAttempts \in Nat \ {0}
    /\ MaxDeliveries \in Nat \ {0}
    /\ PoolSize \in Nat \ {0}
    /\ Faults \subseteq FaultKinds

(* SMS, EMAIL, CALL_CENTER and WHATSAPP, in the order they are published.  *)
Channel == 1 .. 4

Delivery == Msg \X (1 .. MaxDeliveries)
Stage == {"idle", "calling", "publishing", "committing", "sleeping",
          "burying", "acking", "rejecting", "ended", "dead"}
Running == Stage \ {"idle", "ended", "dead"}

VARIABLES
    queue,      \* what the broker holds of each message
    delivered,  \* how many times it was delivered
    stage,      \* where the handler of each delivery is
    attempt,    \* which run of it RetryMiddleware is at
    next,       \* the channel it publishes next
    events,     \* leads in lead_events, with their distribution_status rows
    copies,     \* messages published to each channel's queue for each lead
    buried      \* messages with a copy in lead.dead.consumer_failed

vars == <<queue, delivered, stage, attempt, next, events, copies, buried>>

Lead(h) == OrderOf[h[1]]

Init ==
    /\ queue = [m \in Msg |-> "absent"]
    /\ delivered = [m \in Msg |-> 0]
    /\ stage = [h \in Delivery |-> "idle"]
    /\ attempt = [h \in Delivery |-> 1]
    /\ next = [h \in Delivery |-> 1]
    /\ events = {}
    /\ copies = [o \in Order |-> [c \in Channel |-> 0]]
    /\ buried = {}

(* The receiver publishes a message.                                       *)
Arrive(m) ==
    /\ queue[m] = "absent"
    /\ queue' = [queue EXCEPT ![m] = "ready"]
    /\ UNCHANGED <<delivered, stage, attempt, next, events, copies, buried>>

(* The broker hands over a message.                                        *)
Deliver(m) ==
    /\ queue[m] = "ready"
    /\ delivered[m] < MaxDeliveries
    /\ queue' = [queue EXCEPT ![m] = "unacked"]
    /\ delivered' = [delivered EXCEPT ![m] = @ + 1]
    /\ stage' = [stage EXCEPT ![<<m, delivered[m] + 1>>] = "calling"]
    /\ UNCHANGED <<attempt, next, events, copies, buried>>

-----------------------------------------------------------------------------
(* The handler.                                                            *)

(* Faulty variants: the retries never end, or the last failure is          *)
(* swallowed.                                                              *)
RaiseForEver(h) ==
    /\ stage' = [stage EXCEPT ![h] = "sleeping"]
    /\ UNCHANGED <<queue, delivered, attempt, next, buried>>

RaiseSwallowed(h) ==
    /\ stage' = [stage EXCEPT ![h] =
                   IF attempt[h] = MaxAttempts THEN "acking" ELSE "sleeping"]
    /\ UNCHANGED <<queue, delivered, attempt, next, buried>>

(* The handler raised: RetryMiddleware sleeps, or gives up and lets        *)
(* DlqMiddleware bury the message.                                         *)
Raise(h) ==
    /\ stage' = [stage EXCEPT ![h] =
                   IF attempt[h] = MaxAttempts THEN "burying" ELSE "sleeping"]
    /\ UNCHANGED <<queue, delivered, attempt, next, buried>>

(* The session takes a connection with the call and gives it back when     *)
(* the block is left, after the publishes.                                 *)
HoldsConnection(h) == stage[h] \in {"publishing", "committing"}

ConnectionIsFree ==
    Cardinality({h \in Delivery : HoldsConnection(h)}) < PoolSize

(* Faulty variants: is_new is always true, or the procedure does not       *)
(* commit.                                                                 *)
InsertLeadAlwaysNew(h) ==
    /\ stage[h] = "calling"
    /\ ConnectionIsFree
    /\ events' = events \cup {Lead(h)}
    /\ stage' = [stage EXCEPT ![h] = "publishing"]
    /\ next' = [next EXCEPT ![h] = 1]
    /\ UNCHANGED <<queue, delivered, attempt, copies, buried>>

InsertLeadUncommitted(h) ==
    /\ stage[h] = "calling"
    /\ ConnectionIsFree
    /\ stage' = [stage EXCEPT ![h] =
                   IF Lead(h) \in events THEN "committing" ELSE "publishing"]
    /\ next' = [next EXCEPT ![h] = 1]
    /\ UNCHANGED <<queue, delivered, attempt, events, copies, buried>>

(* sp_insert_lead: a new event is stored with its four pending rows and    *)
(* will be distributed; a known one is not.                                *)
InsertLead(h) ==
    /\ stage[h] = "calling"
    /\ ConnectionIsFree
    /\ events' = events \cup {Lead(h)}
    /\ stage' = [stage EXCEPT ![h] =
                   IF Lead(h) \in events THEN "committing" ELSE "publishing"]
    /\ next' = [next EXCEPT ![h] = 1]
    /\ UNCHANGED <<queue, delivered, attempt, copies, buried>>

(* Faulty variant: the exit handler does not roll back.                    *)
InsertLeadFailsKept(h) ==
    /\ stage[h] = "calling"
    /\ "rollback" \in Faults /\ ConnectionIsFree
    /\ events' = events \cup {Lead(h)}
    /\ Raise(h)
    /\ UNCHANGED copies

(* No connection comes free within the pool's timeout; the procedure rolls *)
(* back; or it commits and its result set is lost.                         *)
InsertLeadFails(h) ==
    /\ stage[h] = "calling"
    /\ \/ "pool" \in Faults /\ ~ConnectionIsFree /\ UNCHANGED events
       \/ "rollback" \in Faults /\ ConnectionIsFree /\ UNCHANGED events
       \/ /\ "reply" \in Faults /\ ConnectionIsFree
          /\ events' = events \cup {Lead(h)}
    /\ Raise(h)
    /\ UNCHANGED copies

AddCopy(h) == copies' = [copies EXCEPT ![Lead(h)][next[h]] = @ + 1]

PublishChannel(h) ==
    /\ stage[h] = "publishing"
    /\ AddCopy(h)
    /\ IF next[h] = 4
       THEN /\ stage' = [stage EXCEPT ![h] = "committing"]
            /\ UNCHANGED next
       ELSE /\ next' = [next EXCEPT ![h] = @ + 1]
            /\ UNCHANGED stage
    /\ UNCHANGED <<queue, delivered, attempt, events, buried>>

(* The broker is away, or only its confirm is missing.                     *)
PublishChannelFails(h) ==
    /\ stage[h] = "publishing"
    /\ "publish" \in Faults
    /\ UNCHANGED copies \/ AddCopy(h)
    /\ Raise(h)
    /\ UNCHANGED events

(* db_session commits on the way out; the procedure left nothing to commit *)
(* but the connection may be gone.                                         *)
Commit(h) ==
    /\ stage[h] = "committing"
    /\ stage' = [stage EXCEPT ![h] = "acking"]
    /\ UNCHANGED <<queue, delivered, attempt, next, events, copies, buried>>

CommitFails(h) ==
    /\ stage[h] = "committing"
    /\ "commit" \in Faults
    /\ Raise(h)
    /\ UNCHANGED <<events, copies>>

(* Faulty variant: the retries are not counted.                            *)
RetryUncounted(h) ==
    /\ stage[h] = "sleeping"
    /\ stage' = [stage EXCEPT ![h] = "calling"]
    /\ UNCHANGED <<queue, delivered, attempt, next, events, copies, buried>>

(* RetryMiddleware runs the handler again after its backoff.               *)
Retry(h) ==
    /\ stage[h] = "sleeping"
    /\ attempt' = [attempt EXCEPT ![h] = @ + 1]
    /\ stage' = [stage EXCEPT ![h] = "calling"]
    /\ UNCHANGED <<queue, delivered, next, events, copies, buried>>

(* Faulty variant: the queue has no entry in _DLQ_ROUTES.                  *)
BuryUnrouted(h) ==
    /\ stage[h] = "burying"
    /\ stage' = [stage EXCEPT ![h] = "rejecting"]
    /\ UNCHANGED <<queue, delivered, attempt, next, events, copies, buried>>

(* Faulty variant: an exception of DlqMiddleware itself leaves the message *)
(* without an answer.                                                      *)
BuryUnanswered(h) ==
    /\ stage[h] = "burying"
    /\ \/ /\ buried' = buried \cup {h[1]}
          /\ stage' = [stage EXCEPT ![h] = "rejecting"]
       \/ /\ "publish" \in Faults
          /\ stage' = [stage EXCEPT ![h] = "ended"]
          /\ UNCHANGED buried
    /\ UNCHANGED <<queue, delivered, attempt, next, events, copies>>

(* DlqMiddleware publishes a copy and lets the exception go on, or raises  *)
(* one itself; the acknowledgement rejects in both cases.                  *)
Bury(h) ==
    /\ stage[h] = "burying"
    /\ \/ buried' = buried \cup {h[1]}
       \/ "publish" \in Faults /\ UNCHANGED buried
    /\ stage' = [stage EXCEPT ![h] = "rejecting"]
    /\ UNCHANGED <<queue, delivered, attempt, next, events, copies>>

(* An ack, or a reject without requeue: the dead-letter exchange dlq has   *)
(* no queue, so a rejected message is dropped.  A delivery the broker has  *)
(* taken back is not settled any more.                                     *)
Settle(h) ==
    /\ stage[h] \in {"acking", "rejecting"}
    /\ queue' = IF queue[h[1]] = "unacked" /\ delivered[h[1]] = h[2]
                THEN [queue EXCEPT ![h[1]] =
                        IF stage[h] = "acking" THEN "acked" ELSE "dropped"]
                ELSE queue
    /\ stage' = [stage EXCEPT ![h] = "ended"]
    /\ UNCHANGED <<delivered, attempt, next, events, copies, buried>>

-----------------------------------------------------------------------------
(* Failures of the worker or the broker as a whole, bounded by             *)
(* MaxDeliveries.                                                          *)

Requeue ==
    /\ \E m \in Msg : queue[m] = "unacked"
    /\ \A m \in Msg : queue[m] = "unacked" => delivered[m] < MaxDeliveries
    /\ queue' = [m \in Msg |->
                   IF queue[m] = "unacked" THEN "ready" ELSE queue[m]]

(* The AMQP connection breaks; the handlers run on.                        *)
Disconnect ==
    /\ "disconnect" \in Faults
    /\ Requeue
    /\ UNCHANGED <<delivered, stage, attempt, next, events, copies, buried>>

(* The process dies with all its handlers.                                 *)
Crash ==
    /\ "crash" \in Faults
    /\ Requeue
    /\ stage' = [h \in Delivery |->
                   IF stage[h] \in Running THEN "dead" ELSE stage[h]]
    /\ UNCHANGED <<delivered, attempt, next, events, copies, buried>>

(* The broker restarts: lead.received and lead.dead.consumer_failed are    *)
(* empty, and the handlers run on.                                         *)
Restart ==
    /\ "restart" \in Faults
    /\ queue' = [m \in Msg |->
                   IF queue[m] \in {"ready", "unacked"} THEN "lost" ELSE queue[m]]
    /\ buried' = {}
    /\ UNCHANGED <<delivered, stage, attempt, next, events, copies>>

Handle(h) ==
    \/ InsertLead(h) \/ InsertLeadFails(h)
    \/ PublishChannel(h) \/ PublishChannelFails(h)
    \/ Commit(h) \/ CommitFails(h)
    \/ Retry(h) \/ Bury(h) \/ Settle(h)

Gone == {"acked", "dropped", "lost"}

Drained ==
    /\ \A m \in Msg : queue[m] \in Gone
    /\ \A h \in Delivery : stage[h] \notin Running
    /\ UNCHANGED vars

Next ==
    \/ \E m \in Msg : Arrive(m) \/ Deliver(m)
    \/ \E h \in Delivery : Handle(h)
    \/ Disconnect
    \/ Crash
    \/ Restart
    \/ Drained

Spec == Init /\ [][Next]_vars

(* The event loop runs every handler, each of whose awaits returns or      *)
(* raises, and the broker delivers what is ready to a connected consumer.  *)
FairSpec ==
    /\ Spec
    /\ \A m \in Msg : WF_vars(Deliver(m))
    /\ \A h \in Delivery : WF_vars(Handle(h))

-----------------------------------------------------------------------------
(* Type invariant.                                                         *)
TypeOK ==
    /\ queue \in [Msg -> {"absent", "ready", "unacked"} \cup Gone]
    /\ delivered \in [Msg -> 0 .. MaxDeliveries]
    /\ stage \in [Delivery -> Stage]
    /\ attempt \in [Delivery -> 1 .. MaxAttempts]
    /\ next \in [Delivery -> Channel]
    /\ events \subseteq Order
    /\ copies \in [Order -> [Channel -> Nat]]
    /\ buried \subseteq Msg

(* No channel's queue gets two messages for one lead, whatever is retried, *)
(* redelivered or repeated by the receiver: the customer is contacted once.*)
AtMostOncePerChannel ==
    \A o \in Order : \A c \in Channel : copies[o][c] <= 1

(* A channel message always finds its distribution_status row: it is       *)
(* published only after the procedure committed the lead.                  *)
DistributionHasRow ==
    \A o \in Order : \A c \in Channel : copies[o][c] > 0 => o \in events

(* A message leaves lead.received by ack only when its lead is stored.     *)
AckedIsStored ==
    \A m \in Msg : queue[m] = "acked" => OrderOf[m] \in events

(* Once the handlers of a lead are done and one of its messages is acked,  *)
(* all four channels have it (when nothing failed past the procedure).     *)
Busy(o) == \E h \in Delivery : Lead(h) = o /\ stage[h] \in Running
AckedIsDistributed ==
    \A m \in Msg : queue[m] = "acked" /\ ~Busy(OrderOf[m]) =>
        \A c \in Channel : copies[OrderOf[m]][c] > 0

(* A message that is rejected is kept in lead.dead.consumer_failed (when   *)
(* the broker confirms what it is sent, and does not restart).             *)
DroppedIsBuried == \A m \in Msg : queue[m] = "dropped" => m \in buried

(* A message that waits for its acknowledgement has a handler at work for  *)
(* its last delivery: none waits for an answer nobody will give, whatever  *)
(* raises in the handler or its middlewares and whatever the broker takes  *)
(* back from handlers that run on.                                         *)
UnackedIsHandled ==
    \A m \in Msg :
        queue[m] = "unacked" => stage[<<m, delivered[m]>>] \in Running

(* A lead is distributed in part only: some channel's queue has it, some   *)
(* has not, and no handler is left to go on.                               *)
Cut(o) ==
    /\ \E c \in Channel : copies[o][c] > 0
    /\ \E c \in Channel : copies[o][c] = 0
    /\ \A h \in Delivery : Lead(h) = o => stage[h] # "publishing"

(* No redelivery, retry or repeated message completes a lead whose         *)
(* publishing was cut short, and none adds to what its channels got.       *)
CutIsForever ==
    [][\A o \in Order : Cut(o) => Cut(o)' /\ copies'[o] = copies[o]]_vars

(* Every message is settled: the retries end, handlers get a connection of *)
(* the pool in turn, and what a broken connection or a crash returns to    *)
(* the queue is settled by a later delivery.                               *)
EveryMessageSettles ==
    \A m \in Msg : queue[m] = "ready" ~> [](queue[m] \in Gone)
=============================================================================

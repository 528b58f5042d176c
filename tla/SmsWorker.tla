----------------------------- MODULE SmsWorker -----------------------------
(***************************************************************************)
(* The consumer of dist.sms: handle_sms posts the order to the provider    *)
(* and records the result in its distribution_status row.  A transient     *)
(* failure counts an attempt and publishes the message again, as a copy    *)
(* with an expiration, until the attempts exceed MaxRetries.  Around it,   *)
(* RetryMiddleware runs the whole handler again on any other exception.    *)
(*                                                                         *)
(* The module follows one order: its row, message 1 published by the lead  *)
(* consumer, and the copies 2, 3, ... of it.  A copy is in the queue at    *)
(* once: it can be delivered until its delay has passed and expires then.  *)
(* A delivery is <<n, d>>, the d-th delivery of message n.                 *)
(***************************************************************************)
EXTENDS Naturals, FiniteSets

CONSTANTS
    MaxRetries,     \* distributor_max_retries
    Backoffs,       \* length of retry_backoffs_ms
    MaxAttempts,    \* runs of the handler per delivery, in RetryMiddleware
    MaxCopies,      \* bound on the messages about the order
    MaxDeliveries,  \* bound on the deliveries of one message
    MaxMishaps,     \* bound on the failures that are not the provider's
    Answers         \* what the provider may do, a subset of AnswerKinds

AnswerKinds == {"accepts", "declines", "defers", "breaks"}

ASSUME SmsWorkerAssumption ==
    /\ MaxRetries \in Nat
    /\ Backoffs \in Nat
    /\ MaxAttempts \in Nat \ {0}
    /\ MaxCopies \in Nat \ {0}
    /\ MaxDeliveries \in Nat \ {0}
    /\ MaxMishaps \in Nat
    /\ Answers \subseteq AnswerKinds

Message == 1 .. MaxCopies
Delivery == Message \X (1 .. MaxDeliveries)
Stage == {"idle", "posting", "delivering", "refusing", "counting", "reading",
          "scheduling", "republishing", "failing", "lettering", "sleeping",
          "burying", "acking", "rejecting", "ended", "dead"}
Running == Stage \ {"idle", "ended", "dead"}
Row == [status : {"pending", "delivered", "failed"}, attempts : Nat]
Storing == {"delivering", "refusing", "counting", "scheduling", "failing"}

VARIABLES
    queue,      \* what the broker holds of each message
    copies,     \* how many messages about the order were published
    waited,     \* copies whose delay has passed
    delivered,  \* how many times each message was delivered
    stage,      \* where the handler of each delivery is
    attempt,    \* which run of it RetryMiddleware is at
    row,        \* the distribution_status row: its status and attempts
    posted,     \* SMS the provider accepted
    dead,       \* messages in dist.dead.sms
    mishaps     \* failures of the worker, the database, the broker so far

broker == <<queue, copies, waited, delivered>>
vars == <<queue, copies, waited, delivered, stage, attempt, row,
          posted, dead, mishaps>>

Init ==
    /\ queue = [n \in Message |-> IF n = 1 THEN "ready" ELSE "none"]
    /\ copies = 1
    /\ waited = {}
    /\ delivered = [n \in Message |-> 0]
    /\ stage = [h \in Delivery |-> "idle"]
    /\ attempt = [h \in Delivery |-> 1]
    /\ row = [status |-> "pending", attempts |-> 0]
    /\ posted = 0
    /\ dead = 0
    /\ mishaps = 0

Mishap == mishaps < MaxMishaps /\ mishaps' = mishaps + 1

GoTo(h, s) == stage' = [stage EXCEPT ![h] = s]

(* Faulty variant: the retries never end.                                  *)
RaiseForEver(h) == GoTo(h, "sleeping")

(* The handler raised: RetryMiddleware sleeps, or gives up and lets        *)
(* DlqMiddleware bury the message.                                         *)
Raise(h) ==
    GoTo(h, IF attempt[h] = MaxAttempts THEN "burying" ELSE "sleeping")

-----------------------------------------------------------------------------
(* The broker.                                                             *)

Deliver(n) ==
    /\ queue[n] = "ready"
    /\ delivered[n] < MaxDeliveries
    /\ queue' = [queue EXCEPT ![n] = "unacked"]
    /\ delivered' = [delivered EXCEPT ![n] = @ + 1]
    /\ GoTo(<<n, delivered[n] + 1>>, "posting")
    /\ UNCHANGED <<copies, waited, attempt, row, posted, dead, mishaps>>

(* The delay of a copy passes: the broker drops it if it is still queued,  *)
(* for the dead-letter exchange dlq has no queue.                          *)
DelayPasses(n) ==
    /\ n > 1 /\ n \notin waited
    /\ queue[n] \in {"ready", "unacked"}
    /\ waited' = waited \cup {n}
    /\ queue' = IF queue[n] = "ready" THEN [queue EXCEPT ![n] = "expired"]
                ELSE queue
    /\ UNCHANGED <<copies, delivered, stage, attempt, row, posted,
                   dead, mishaps>>

-----------------------------------------------------------------------------
(* process_sms: the request and its outcomes.                              *)

Accept(h) ==
    /\ stage[h] = "posting"
    /\ "accepts" \in Answers
    /\ posted' = posted + 1
    /\ GoTo(h, "delivering")
    /\ UNCHANGED <<broker, attempt, row, dead, mishaps>>

(* A 4xx other than 408 and 429.                                           *)
Decline(h) ==
    /\ stage[h] = "posting"
    /\ "declines" \in Answers
    /\ GoTo(h, "refusing")
    /\ UNCHANGED <<broker, attempt, row, posted, dead, mishaps>>

(* 5xx, 408, 429, no connection, a simulated failure; or no answer in      *)
(* time, though the provider may have sent the SMS.                        *)
Defer(h) ==
    /\ stage[h] = "posting"
    /\ "defers" \in Answers
    /\ \/ UNCHANGED <<posted, mishaps>>
       \/ Mishap /\ posted' = posted + 1
    /\ GoTo(h, "counting")
    /\ UNCHANGED <<broker, attempt, row, dead>>

(* Any other httpx error: process_sms and handle_sms let it through.       *)
Break(h) ==
    /\ stage[h] = "posting"
    /\ "breaks" \in Answers
    /\ \/ UNCHANGED <<posted, mishaps>>
       \/ Mishap /\ posted' = posted + 1
    /\ Raise(h)
    /\ UNCHANGED <<broker, attempt, row, dead>>

-----------------------------------------------------------------------------
(* The statements on the row, each committed before the next step.         *)

(* Faulty variant: a delivery resets the attempts to zero.                 *)
EffectResetsAttempts(h) ==
    [status |-> IF stage[h] = "delivering" THEN "delivered"
                ELSE IF stage[h] \in {"refusing", "failing"} THEN "failed"
                ELSE row.status,
     attempts |-> IF stage[h] \in {"delivering", "refusing"} THEN 0
                  ELSE IF stage[h] = "counting" THEN row.attempts + 1
                  ELSE row.attempts]

(* Faulty variant: the attempts are set, not incremented.                  *)
EffectLosesCount(h) ==
    [status |-> IF stage[h] = "delivering" THEN "delivered"
                ELSE IF stage[h] \in {"refusing", "failing"} THEN "failed"
                ELSE row.status,
     attempts |-> IF stage[h] \in {"delivering", "refusing", "counting"} THEN 1
                  ELSE row.attempts]

Effect(h) ==
    [status |-> IF stage[h] = "delivering" THEN "delivered"
                ELSE IF stage[h] \in {"refusing", "failing"} THEN "failed"
                ELSE row.status,
     attempts |-> IF stage[h] \in {"delivering", "refusing"} THEN 1
                  ELSE IF stage[h] = "counting" THEN row.attempts + 1
                  ELSE row.attempts]

(* Faulty variants: a delivered SMS falls through to the retry, a refused  *)
(* one is acknowledged, or the retry is scheduled over and over.           *)
AfterStoreReschedules(s) ==
    IF s = "delivering" THEN "acking"
    ELSE IF s = "refusing" THEN "burying"
    ELSE IF s \in {"counting", "scheduling"} THEN "reading"
    ELSE "lettering"

AfterStoreFallsThrough(s) ==
    IF s = "refusing" THEN "burying"
    ELSE IF s \in {"delivering", "counting"} THEN "reading"
    ELSE IF s = "scheduling" THEN "republishing"
    ELSE "lettering"

AfterStoreAcksRefused(s) ==
    IF s \in {"delivering", "refusing"} THEN "acking"
    ELSE IF s = "counting" THEN "reading"
    ELSE IF s = "scheduling" THEN "republishing"
    ELSE "lettering"

(* PermanentDistributorFailure bypasses RetryMiddleware.                   *)
AfterStore(s) ==
    IF s = "delivering" THEN "acking"
    ELSE IF s = "refusing" THEN "burying"
    ELSE IF s = "counting" THEN "reading"
    ELSE IF s = "scheduling" THEN "republishing"
    ELSE "lettering"

Store(h) ==
    /\ stage[h] \in Storing
    /\ row' = Effect(h)
    /\ GoTo(h, AfterStore(stage[h]))
    /\ UNCHANGED <<broker, attempt, posted, dead, mishaps>>

(* The statement fails, or its commit is not answered.                     *)
StoreFails(h) ==
    /\ stage[h] \in Storing
    /\ Mishap
    /\ row' \in {row, Effect(h)}
    /\ Raise(h)
    /\ UNCHANGED <<broker, attempt, posted, dead>>

(* Faulty variant: one retry too many.                                     *)
ReadAttemptsOffByOne(h) ==
    /\ stage[h] = "reading"
    /\ GoTo(h, IF row.attempts > MaxRetries + 1 THEN "failing" ELSE "scheduling")
    /\ UNCHANGED <<broker, attempt, row, posted, dead, mishaps>>

(* _schedule_retry_or_dlq reads the attempts back and decides; it takes    *)
(* the delay at that place of retry_backoffs_ms.                           *)
ReadAttempts(h) ==
    /\ stage[h] = "reading"
    /\ IF row.attempts > MaxRetries THEN GoTo(h, "failing")
       ELSE IF row.attempts > Backoffs THEN Raise(h)
       ELSE GoTo(h, "scheduling")
    /\ UNCHANGED <<broker, attempt, row, posted, dead, mishaps>>

ReadFails(h) ==
    /\ stage[h] = "reading"
    /\ Mishap
    /\ Raise(h)
    /\ UNCHANGED <<broker, attempt, row, posted, dead>>

-----------------------------------------------------------------------------
(* The messages the handler publishes.                                     *)

AddCopy ==
    /\ copies < MaxCopies
    /\ copies' = copies + 1
    /\ queue' = [queue EXCEPT ![copies + 1] = "ready"]
    /\ UNCHANGED <<waited, delivered>>

Republish(h) ==
    /\ stage[h] = "republishing"
    /\ AddCopy
    /\ GoTo(h, "acking")
    /\ UNCHANGED <<attempt, row, posted, dead, mishaps>>

(* dist.dead.sms, after the last retry.                                    *)
DeadLetter(h) ==
    /\ stage[h] = "lettering"
    /\ dead' = dead + 1
    /\ GoTo(h, "acking")
    /\ UNCHANGED <<broker, attempt, row, posted, mishaps>>

(* Faulty variant: the failure is logged and the message acknowledged.     *)
PublishFailsSwallowed(h) ==
    /\ Mishap
    /\ stage[h] \in {"republishing", "lettering"}
    /\ GoTo(h, "acking")
    /\ UNCHANGED <<broker, attempt, row, posted, dead>>

(* The broker is away, or only its confirm is missing.                     *)
PublishFails(h) ==
    /\ Mishap
    /\ \/ /\ stage[h] = "republishing"
          /\ UNCHANGED broker \/ AddCopy
          /\ UNCHANGED dead
       \/ /\ stage[h] = "lettering"
          /\ dead' \in {dead, dead + 1}
          /\ UNCHANGED broker
    /\ Raise(h)
    /\ UNCHANGED <<attempt, row, posted>>

-----------------------------------------------------------------------------
(* The middlewares.                                                        *)

Retry(h) ==
    /\ stage[h] = "sleeping"
    /\ attempt' = [attempt EXCEPT ![h] = @ + 1]
    /\ GoTo(h, "posting")
    /\ UNCHANGED <<broker, row, posted, dead, mishaps>>

(* DlqMiddleware publishes to dist.dead.sms, or raises itself; the         *)
(* message is rejected in both cases.                                      *)
Bury(h) ==
    /\ stage[h] = "burying"
    /\ \/ dead' = dead + 1 /\ UNCHANGED mishaps
       \/ dead' \in {dead, dead + 1} /\ Mishap
    /\ GoTo(h, "rejecting")
    /\ UNCHANGED <<broker, attempt, row, posted>>

(* An ack, or a reject without requeue.  A delivery the broker has taken   *)
(* back is not settled any more.                                           *)
Settle(h) ==
    /\ stage[h] \in {"acking", "rejecting"}
    /\ queue' = IF queue[h[1]] = "unacked" /\ delivered[h[1]] = h[2]
                THEN [queue EXCEPT ![h[1]] =
                        IF stage[h] = "acking" THEN "acked" ELSE "dropped"]
                ELSE queue
    /\ GoTo(h, "ended")
    /\ UNCHANGED <<copies, waited, delivered, attempt, row, posted,
                   dead, mishaps>>

-----------------------------------------------------------------------------
(* Failures of the worker or the broker as a whole.                        *)

(* What was unacknowledged is queued again, or expires at once when its    *)
(* delay has passed meanwhile.                                             *)
Requeue ==
    /\ \E n \in Message : queue[n] = "unacked"
    /\ \A n \in Message : queue[n] = "unacked" => delivered[n] < MaxDeliveries
    /\ Mishap
    /\ queue' = [n \in Message |->
                   IF queue[n] # "unacked" THEN queue[n]
                   ELSE IF n \in waited THEN "expired" ELSE "ready"]
    /\ UNCHANGED <<copies, waited, delivered, attempt, row, posted, dead>>

(* The AMQP connection breaks; the handlers run on.                        *)
Disconnect == Requeue /\ UNCHANGED stage

(* The process dies with all its handlers.                                 *)
Crash ==
    /\ Requeue
    /\ stage' = [h \in Delivery |->
                   IF stage[h] \in Running THEN "dead" ELSE stage[h]]

(* The broker restarts: nothing was published as persistent, so dist.sms   *)
(* and dist.dead.sms come back empty, and the handlers run on.             *)
Restart ==
    /\ Mishap
    /\ queue' = [n \in Message |->
                   IF queue[n] \in {"ready", "unacked"} THEN "lost" ELSE queue[n]]
    /\ dead' = 0
    /\ UNCHANGED <<copies, waited, delivered, stage, attempt, row, posted>>

Handle(h) ==
    \/ Accept(h) \/ Decline(h) \/ Defer(h) \/ Break(h)
    \/ Store(h) \/ StoreFails(h)
    \/ ReadAttempts(h) \/ ReadFails(h)
    \/ Republish(h) \/ DeadLetter(h) \/ PublishFails(h)
    \/ Retry(h) \/ Bury(h) \/ Settle(h)

(* No message is queued or being handled.                                  *)
Quiet ==
    /\ \A n \in Message : queue[n] \notin {"ready", "unacked"}
    /\ \A h \in Delivery : stage[h] \notin Running

Drained == Quiet /\ UNCHANGED vars

Next ==
    \/ \E n \in Message : Deliver(n) \/ DelayPasses(n)
    \/ \E h \in Delivery : Handle(h)
    \/ Disconnect
    \/ Crash
    \/ Restart
    \/ Drained

Spec == Init /\ [][Next]_vars

(* The event loop runs every handler, each of whose awaits returns or      *)
(* raises, and the broker delivers what is ready to a connected consumer.  *)
FairSpec ==
    /\ Spec
    /\ \A n \in Message : WF_vars(Deliver(n))
    /\ \A h \in Delivery : WF_vars(Handle(h))

-----------------------------------------------------------------------------
(* Type invariant.                                                         *)
TypeOK ==
    /\ queue \in [Message -> {"none", "ready", "unacked", "acked", "dropped",
                              "expired", "lost"}]
    /\ copies \in Message
    /\ waited \subseteq Message
    /\ delivered \in [Message -> 0 .. MaxDeliveries]
    /\ stage \in [Delivery -> Stage]
    /\ attempt \in [Delivery -> 1 .. MaxAttempts]
    /\ row \in Row
    /\ posted \in Nat
    /\ dead \in Nat
    /\ mishaps \in 0 .. MaxMishaps

(* An order whose row is pending is not forgotten silently: one of its     *)
(* messages is still queued or handled, or was rejected, has expired or    *)
(* was in RabbitMQ when it restarted.  No chain of retries, redeliveries   *)
(* and handlers that run on after the connection broke acknowledges the    *)
(* last message and leaves the row open.                                   *)
PendingIsLive ==
    row.status = "pending" =>
        \E n \in Message : queue[n] \notin {"none", "acked"}

(* Deliveries of what the broker had taken back: the first of them follows *)
(* a mishap that sent nothing itself.                                      *)
Redelivered == {h \in Delivery : h[2] > 1 /\ stage[h] # "idle"}

(* Each SMS after the first has a failure of its own behind it: an answer  *)
(* that was lost, a statement, a read or a publish that failed though the  *)
(* SMS or the copy was out; or a delivery of its own that the broker made  *)
(* again.  Retries that nest, in the middlewares and as copies, multiply   *)
(* no failure: one lost confirm or commit costs the customer one SMS.      *)
SmsAreAccountedFor ==
    posted <= 1 + Cardinality(Redelivered)
                + (IF Redelivered = {} THEN mishaps ELSE mishaps - 1)

(* A handler of the message ended with its last run.                       *)
UsedUp(n) ==
    \E d \in 1 .. MaxDeliveries :
        stage[<<n, d>>] = "ended" /\ attempt[<<n, d>>] = MaxAttempts

(* Once all is quiet and nothing but the provider failed, the row, the     *)
(* provider and the dead-letter queue tell one story: delivered with one   *)
(* SMS and no dead letter; or no SMS and one dead letter, with the row     *)
(* failed, or pending when the dead letter is of a handler whose last run  *)
(* ended in an uncaught error; or no SMS, no dead letter, and a copy that  *)
(* expired.                                                                *)
OutcomesAgree ==
    Quiet /\ mishaps = 0 =>
        \/ row.status = "delivered" /\ posted = 1 /\ dead = 0
        \/ row.status = "failed" /\ posted = 0 /\ dead = 1
        \/ /\ row.status = "pending" /\ posted = 0
           /\ \/ /\ dead = 1 /\ "breaks" \in Answers
                 /\ \E n \in Message : queue[n] = "dropped" /\ UsedUp(n)
              \/ dead = 0 /\ \E n \in Message : queue[n] = "expired"

(* A retry always finds its delay: between the increment and the reading   *)
(* of the attempts no other handler of the order resets them to zero, and  *)
(* what is not given up is within retry_backoffs_ms.                       *)
DelayExists ==
    \A h \in Delivery : stage[h] = "reading" /\ row.attempts <= MaxRetries =>
        row.attempts \in 1 .. Backoffs

(* Without mishaps a settled row stays as it is: no late handler of an     *)
(* earlier copy turns delivered into failed or adds attempts to it.        *)
SettledRowIsFinal ==
    [][row.status # "pending" /\ mishaps' = 0 => row' = row]_vars

(* While the row is open no more copies were published than attempts were  *)
(* counted in it, nor than MaxRetries allows, though the handlers of       *)
(* several deliveries and copies count, read back and publish in any order *)
(* and fail in between.  Without mishaps the limit holds for good.         *)
RetriesAreBounded ==
    /\ row.status = "pending" =>
            copies <= row.attempts + 1 /\ copies <= MaxRetries + 1
    /\ mishaps = 0 => copies <= MaxRetries + 1

(* The retries end: every handler stops and every message leaves the       *)
(* queue, though runs of the handler and copies of the message nest and a  *)
(* redelivery doubles them.                                                *)
RetriesEnd == <>[]Quiet

-----------------------------------------------------------------------------
(* What a document says and the code does not do.                          *)

(* "simulated 10% fail + 3 retries -> dist.dead.sms": an SMS that is given *)
(* up is in the dead-letter queue.                                         *)
GivenUpIsDeadLettered ==
    Quiet /\ mishaps = 0 => row.status = "delivered" \/ dead > 0
=============================================================================

-------------------------- MODULE SmsWorkerProofs --------------------------
(***************************************************************************)
(* What SmsWorker keeps for every number of retries, attempts, copies,     *)
(* deliveries and mishaps, and whatever the provider answers.              *)
(***************************************************************************)
EXTENDS SmsWorker, TLAPS

-----------------------------------------------------------------------------
(* The inductive invariant behind PendingIsLive and DelayExists.           *)

(* A message that was acknowledged or is about to be has settled the row   *)
(* or has a later copy.                                                    *)
AckedHasSuccessor ==
    \A n \in Message :
        (\/ queue[n] = "acked"
         \/ \E d \in 1 .. MaxDeliveries : stage[<<n, d>>] = "acking")
            => row.status # "pending" \/ n < copies

LetterersFailed ==
    \A h \in Delivery : stage[h] = "lettering" => row.status # "pending"

PublishedAreQueued ==
    \A n \in Message : queue[n] = "none" <=> n > copies

HandledArePublished ==
    \A h \in Delivery : stage[h] # "idle" => h[1] <= copies

SleepersHaveAttempts ==
    \A h \in Delivery : stage[h] = "sleeping" => attempt[h] < MaxAttempts

(* The attempts a handler reads back were counted by it or by another.     *)
AttemptsAreCounted ==
    \A h \in Delivery : stage[h] = "reading" => row.attempts > 0

PendingInv ==
    /\ TypeOK /\ AckedHasSuccessor /\ LetterersFailed /\ PublishedAreQueued
    /\ HandledArePublished /\ SleepersHaveAttempts /\ AttemptsAreCounted

-----------------------------------------------------------------------------

LEMMA DeliveryParts ==
    ASSUME NEW h \in Delivery
    PROVE  /\ h[1] \in Message /\ h[2] \in 1 .. MaxDeliveries
           /\ h = <<h[1], h[2]>>
BY DEF Delivery

(* What a statement on the row does to it: a settled row stays settled,    *)
(* and counted attempts do not fall to zero.                               *)
LEMMA EffectOnRow ==
    ASSUME NEW h \in Delivery, row \in Row, stage[h] \in Storing
    PROVE  /\ Effect(h) \in Row
           /\ row.status # "pending" => Effect(h).status # "pending"
           /\ row.attempts > 0 => Effect(h).attempts > 0
           /\ stage[h] = "counting" => Effect(h).attempts > 0
           /\ stage[h] \in {"delivering", "failing"} =>
                Effect(h).status # "pending"
BY DEF Effect, Row

(* Every handler step moves its own handler only.                          *)
LEMMA HandlerMovesItself ==
    ASSUME NEW h \in Delivery, TypeOK, Handle(h)
    PROVE  /\ stage' = [stage EXCEPT ![h] = stage'[h]]
           /\ stage'[h] \in Stage \ {"idle"}
           /\ stage[h] \in Running
<1>1. CASE Accept(h) \/ Decline(h) \/ Defer(h) \/ Break(h)
  BY <1>1 DEF Accept, Decline, Defer, Break, Raise, GoTo, TypeOK, Stage, Running
<1>2. CASE Store(h)
  BY <1>2 DEF Store, AfterStore, Storing, GoTo, TypeOK, Stage, Running
<1>3. CASE StoreFails(h) \/ ReadAttempts(h) \/ ReadFails(h)
  BY <1>3 DEF StoreFails, ReadAttempts, ReadFails, Raise, GoTo, TypeOK, Stage,
     Running, Storing
<1>4. CASE Republish(h) \/ DeadLetter(h) \/ PublishFails(h)
  BY <1>4 DEF Republish, DeadLetter, PublishFails, Raise, GoTo, TypeOK, Stage,
     Running
<1>5. CASE Retry(h) \/ Bury(h) \/ Settle(h)
  BY <1>5 DEF Retry, Bury, Settle, GoTo, TypeOK, Stage, Running
<1> QED
  BY <1>1, <1>2, <1>3, <1>4, <1>5 DEF Handle

LEMMA HandlerKeepsRow ==
    ASSUME NEW h \in Delivery, TypeOK, Handle(h)
    PROVE  /\ row' \in Row
           /\ row.status # "pending" => row'.status # "pending"
           /\ row.attempts > 0 => row'.attempts > 0
<1>1. CASE Store(h) \/ StoreFails(h)
  BY <1>1, EffectOnRow DEF Store, StoreFails, TypeOK
<1>2. row' = row \/ Store(h) \/ StoreFails(h)
  BY DEF Handle, Accept, Decline, Defer, Break, ReadAttempts, ReadFails,
     Republish, DeadLetter, PublishFails, Retry, Bury, Settle
<1> QED
  BY <1>1, <1>2 DEF TypeOK

LEMMA InitInv == Init => PendingInv
<1> SUFFICES ASSUME Init PROVE PendingInv
  OBVIOUS
<1> USE SmsWorkerAssumption
<1>1. TypeOK
  <2>1. queue \in [Message -> {"none", "ready", "unacked", "acked", "dropped",
                               "expired", "lost"}]
    BY DEF Init
  <2> QED
    BY <2>1 DEF Init, TypeOK, Message, Stage, Row
<1>2. AckedHasSuccessor
  <2>1. \A n \in Message : queue[n] # "acked"
    BY DEF Init
  <2>2. \A n \in Message, d \in 1 .. MaxDeliveries : stage[<<n, d>>] = "idle"
    BY DEF Init, Delivery
  <2> QED
    BY <2>1, <2>2 DEF AckedHasSuccessor
<1>3. PublishedAreQueued
  BY DEF Init, PublishedAreQueued, Message
<1>4. LetterersFailed /\ HandledArePublished /\ SleepersHaveAttempts /\ AttemptsAreCounted
  BY DEF Init, LetterersFailed, HandledArePublished, SleepersHaveAttempts,
     AttemptsAreCounted
<1> QED
  BY <1>1, <1>2, <1>3, <1>4 DEF PendingInv

(* A copy is published in the next free place of the queue.                *)
LEMMA CopyIsNew ==
    ASSUME TypeOK, PublishedAreQueued, AddCopy
    PROVE  /\ copies' = copies + 1 /\ copies' \in Message
           /\ queue' \in [Message -> {"none", "ready", "unacked", "acked",
                                     "dropped", "expired", "lost"}]
           /\ \A n \in Message : queue'[n] = "none" <=> n > copies'
           /\ \A n \in Message : queue'[n] = "acked" <=> queue[n] = "acked"
<1> USE SmsWorkerAssumption
<1>1. copies' = copies + 1 /\ copies' \in Message /\ copies \in Message
  BY DEF AddCopy, TypeOK, Message
<1>2. queue[copies + 1] = "none"
  BY <1>1 DEF PublishedAreQueued, Message
<1> QED
  BY <1>1, <1>2 DEF AddCopy, TypeOK, PublishedAreQueued, Message

(* What a handler step does to the queue.                                  *)
LEMMA HandlerQueue ==
    ASSUME NEW h \in Delivery, TypeOK, PublishedAreQueued, Handle(h)
    PROVE  /\ copies' \in Message /\ copies' >= copies
           /\ queue' \in [Message -> {"none", "ready", "unacked", "acked",
                                     "dropped", "expired", "lost"}]
           /\ PublishedAreQueued'
           /\ \A n \in Message : queue'[n] = "acked" =>
                queue[n] = "acked" \/ (n = h[1] /\ stage[h] = "acking")
<1> USE SmsWorkerAssumption
<1>1. CASE AddCopy
  <2>1. copies \in Nat
    BY DEF TypeOK, Message
  <2> QED
    BY <1>1, <2>1, CopyIsNew DEF PublishedAreQueued
<1>2. CASE Settle(h)
  <2> DEFINE n == h[1]
             s == IF stage[h] = "acking" THEN "acked" ELSE "dropped"
  <2>1. n \in Message
    BY DeliveryParts
  <2>2. \/ queue' = queue
        \/ queue[n] = "unacked" /\ queue' = [queue EXCEPT ![n] = s]
    BY <1>2 DEF Settle
  <2>3. copies' = copies /\ copies \in Nat
    BY <1>2 DEF Settle, TypeOK, Message
  <2>4. s \in {"acked", "dropped"} /\ (s = "acked" => stage[h] = "acking")
    OBVIOUS
  <2> HIDE DEF n, s
  <2>5. \A m \in Message : queue'[m] = "none" <=> queue[m] = "none"
    BY <2>1, <2>2, <2>4 DEF TypeOK
  <2>6. \A m \in Message : queue'[m] = "acked" =>
          queue[m] = "acked" \/ (m = n /\ stage[h] = "acking")
    BY <2>1, <2>2, <2>4 DEF TypeOK
  <2>7. queue' \in [Message -> {"none", "ready", "unacked", "acked", "dropped",
                                "expired", "lost"}]
    BY <2>1, <2>2, <2>4 DEF TypeOK
  <2> QED
    BY <2>3, <2>5, <2>6, <2>7 DEF PublishedAreQueued, TypeOK, n
<1>3. CASE UNCHANGED broker
  BY <1>3 DEF broker, TypeOK, PublishedAreQueued, Message
<1>4. AddCopy \/ Settle(h) \/ UNCHANGED broker
  BY DEF Handle, Accept, Decline, Defer, Break, Store, StoreFails, ReadAttempts,
     ReadFails, Republish, DeadLetter, PublishFails, Retry, Bury
<1> QED
  BY <1>1, <1>2, <1>3, <1>4

LEMMA NextTypeOK ==
    ASSUME TypeOK, PublishedAreQueued, SleepersHaveAttempts, [Next]_vars
    PROVE  TypeOK'
<1> USE SmsWorkerAssumption, DeliveryParts
<1>1. ASSUME NEW n \in Message, Deliver(n) PROVE TypeOK'
  <2>1. delivered' \in [Message -> 0 .. MaxDeliveries]
    BY <1>1 DEF Deliver, TypeOK
  <2> QED
    BY <1>1, <2>1 DEF Deliver, GoTo, TypeOK, Stage
<1>2. ASSUME NEW n \in Message, DelayPasses(n) PROVE TypeOK'
  BY <1>2 DEF DelayPasses, TypeOK
<1>3. ASSUME NEW h \in Delivery, Handle(h) PROVE TypeOK'
  <2>1. stage' \in [Delivery -> Stage]
    BY <1>3, HandlerMovesItself DEF TypeOK
  <2>2. row' \in Row
    BY <1>3, HandlerKeepsRow
  <2>3. attempt' \in [Delivery -> 1 .. MaxAttempts]
    <3>1. CASE Retry(h)
      BY <3>1 DEF Retry, TypeOK, SleepersHaveAttempts
    <3>2. Retry(h) \/ attempt' = attempt
      BY <1>3 DEF Handle, Accept, Decline, Defer, Break, Store, StoreFails,
         ReadAttempts, ReadFails, Republish, DeadLetter, PublishFails, Bury, Settle
    <3> QED
      BY <3>1, <3>2 DEF TypeOK
  <2>4. posted' \in Nat /\ dead' \in Nat /\ mishaps' \in 0 .. MaxMishaps
    <3>1. Mishap => mishaps' \in 0 .. MaxMishaps
      BY DEF Mishap, TypeOK
    <3>2. CASE Accept(h) \/ Decline(h) \/ Defer(h) \/ Break(h)
      BY <3>1, <3>2 DEF Accept, Decline, Defer, Break, TypeOK
    <3>3. CASE Store(h) \/ StoreFails(h) \/ ReadAttempts(h) \/ ReadFails(h)
      BY <3>1, <3>3 DEF Store, StoreFails, ReadAttempts, ReadFails, TypeOK
    <3>4. CASE Republish(h) \/ DeadLetter(h) \/ PublishFails(h)
      BY <3>1, <3>4 DEF Republish, DeadLetter, PublishFails, TypeOK
    <3>5. CASE Retry(h) \/ Bury(h) \/ Settle(h)
      BY <3>1, <3>5 DEF Retry, Bury, Settle, TypeOK
    <3> QED
      BY <1>3, <3>2, <3>3, <3>4, <3>5 DEF Handle
  <2>5. waited' = waited /\ delivered' = delivered
    BY <1>3 DEF Handle, Accept, Decline, Defer, Break, Store, StoreFails,
       ReadAttempts, ReadFails, Republish, AddCopy, DeadLetter, PublishFails,
       Retry, Bury, Settle, broker
  <2> QED
    BY <1>3, <2>1, <2>2, <2>3, <2>4, <2>5, HandlerQueue DEF TypeOK
<1>4. CASE Disconnect \/ Crash
  <2>1. Requeue /\ mishaps' \in 0 .. MaxMishaps
    BY <1>4 DEF Disconnect, Crash, Requeue, Mishap, TypeOK
  <2>2. stage' \in [Delivery -> Stage]
    BY <1>4 DEF Disconnect, Crash, TypeOK, Stage
  <2> QED
    BY <2>1, <2>2 DEF Requeue, TypeOK
<1>5. CASE Restart
  BY <1>5 DEF Restart, Mishap, TypeOK
<1>6. CASE UNCHANGED vars
  BY <1>6 DEF vars, TypeOK
<1> QED
  BY <1>1, <1>2, <1>3, <1>4, <1>5, <1>6 DEF Next, Drained

(* Deliveries, delays and the failures of the whole worker leave the row   *)
(* and the number of copies alone, settle nothing, and start handlers only *)
(* at posting.                                                             *)
LEMMA AroundTheHandlers ==
    ASSUME TypeOK, PublishedAreQueued,
           \/ \E n \in Message : Deliver(n) \/ DelayPasses(n)
           \/ Disconnect \/ Crash \/ Restart \/ UNCHANGED vars
    PROVE  /\ row' = row /\ copies' = copies /\ attempt' = attempt
           /\ \A m \in Message : queue'[m] = "none" <=> queue[m] = "none"
           /\ \A m \in Message : queue'[m] = "acked" => queue[m] = "acked"
           /\ \A h \in Delivery :
                \/ stage'[h] = stage[h]
                \/ stage'[h] = "dead" /\ stage[h] # "idle"
                \/ stage'[h] = "posting" /\ h[1] <= copies
<1> USE SmsWorkerAssumption, DeliveryParts
<1>1. ASSUME NEW n \in Message, Deliver(n)
      PROVE  \A h \in Delivery :
               stage'[h] = stage[h] \/ (stage'[h] = "posting" /\ h[1] <= copies)
  <2>1. ~(n > copies) /\ copies \in Nat
    BY <1>1 DEF Deliver, PublishedAreQueued, TypeOK, Message
  <2> SUFFICES ASSUME NEW h \in Delivery, stage'[h] # stage[h]
               PROVE  stage'[h] = "posting" /\ h[1] <= copies
    OBVIOUS
  <2>2. h = <<n, delivered[n] + 1>> /\ stage'[h] = "posting"
    BY <1>1 DEF Deliver, GoTo, TypeOK
  <2>3. h[1] = n
    BY <2>2
  <2> QED
    BY <2>1, <2>2, <2>3 DEF Message
<1>2. ASSUME NEW n \in Message, Deliver(n)
      PROVE  /\ row' = row /\ copies' = copies /\ attempt' = attempt
             /\ \A m \in Message : queue'[m] = "none" <=> queue[m] = "none"
             /\ \A m \in Message : queue'[m] = "acked" => queue[m] = "acked"
  BY <1>2 DEF Deliver, TypeOK
<1>3. ASSUME NEW n \in Message, DelayPasses(n)
      PROVE  /\ row' = row /\ copies' = copies /\ attempt' = attempt
             /\ stage' = stage
             /\ \A m \in Message : queue'[m] = "none" <=> queue[m] = "none"
             /\ \A m \in Message : queue'[m] = "acked" => queue[m] = "acked"
  BY <1>3 DEF DelayPasses, TypeOK
<1>4. CASE Disconnect \/ Crash
  <2>1. \A m \in Message : queue'[m] =
          IF queue[m] # "unacked" THEN queue[m]
          ELSE IF m \in waited THEN "expired" ELSE "ready"
    BY <1>4 DEF Disconnect, Crash, Requeue
  <2>2. \A h \in Delivery :
          \/ stage'[h] = stage[h]
          \/ stage'[h] = "dead" /\ stage[h] # "idle"
    BY <1>4 DEF Disconnect, Crash, Running
  <2>3. row' = row /\ copies' = copies /\ attempt' = attempt
    BY <1>4 DEF Disconnect, Crash, Requeue
  <2> QED
    BY <2>1, <2>2, <2>3
<1>5. CASE Restart
  BY <1>5 DEF Restart, TypeOK
<1>6. CASE UNCHANGED vars
  BY <1>6 DEF vars
<1> QED
  BY <1>1, <1>2, <1>3, <1>4, <1>5, <1>6

(* A step is one of a handler or one of those.                             *)
LEMMA StepKinds ==
    ASSUME [Next]_vars
    PROVE  \/ \E h \in Delivery : Handle(h)
           \/ \E n \in Message : Deliver(n) \/ DelayPasses(n)
           \/ Disconnect \/ Crash \/ Restart \/ UNCHANGED vars
BY DEF Next, Drained

LEMMA QueueKeepsPlaces ==
    ASSUME TypeOK, PublishedAreQueued, [Next]_vars
    PROVE  PublishedAreQueued'
<1>1. ASSUME NEW h \in Delivery, Handle(h) PROVE PublishedAreQueued'
  BY <1>1, HandlerQueue
<1>2. ASSUME row' = row, copies' = copies,
             \A m \in Message : queue'[m] = "none" <=> queue[m] = "none"
      PROVE  PublishedAreQueued'
  BY <1>2 DEF PublishedAreQueued
<1> QED
  BY <1>1, <1>2, StepKinds, AroundTheHandlers

LEMMA HandledStayPublished ==
    ASSUME TypeOK, PublishedAreQueued, HandledArePublished, [Next]_vars
    PROVE  HandledArePublished'
<1> SUFFICES ASSUME NEW g \in Delivery, stage'[g] # "idle"
             PROVE  g[1] <= copies'
  BY DEF HandledArePublished
<1> USE DeliveryParts
<1>1. ASSUME NEW h \in Delivery, Handle(h) PROVE g[1] <= copies'
  <2>1. stage[g] # "idle"
    BY <1>1, HandlerMovesItself DEF TypeOK, Running
  <2>2. g[1] <= copies
    BY <2>1 DEF HandledArePublished
  <2>3. copies' >= copies /\ copies' \in Message
    BY <1>1, HandlerQueue
  <2>4. copies \in Message
    BY DEF TypeOK
  <2> QED
    BY <2>2, <2>3, <2>4, SmsWorkerAssumption DEF Message
<1> QED
  BY <1>1, StepKinds, AroundTheHandlers DEF HandledArePublished

LEMMA SleepersKeepAttempts ==
    ASSUME TypeOK, PublishedAreQueued, SleepersHaveAttempts, [Next]_vars
    PROVE  SleepersHaveAttempts'
<1> SUFFICES ASSUME NEW g \in Delivery, stage'[g] = "sleeping"
             PROVE  attempt'[g] < MaxAttempts
  BY DEF SleepersHaveAttempts
<1>1. ASSUME NEW h \in Delivery, Handle(h) PROVE attempt'[g] < MaxAttempts
  <2>1. CASE g # h
    <3>1. stage[g] = "sleeping"
      BY <1>1, <2>1, HandlerMovesItself DEF TypeOK
    <3>2. attempt'[g] = attempt[g]
      BY <1>1, <2>1 DEF Handle, Accept, Decline, Defer, Break, Store, StoreFails,
         ReadAttempts, ReadFails, Republish, DeadLetter, PublishFails, Retry,
         Bury, Settle, TypeOK
    <3> QED
      BY <3>1, <3>2 DEF SleepersHaveAttempts
  <2>2. CASE g = h
    <3>1. Raise(h) /\ attempt' = attempt
      <4>1. CASE Accept(h) \/ Decline(h) \/ Defer(h) \/ Break(h)
        BY <2>2, <4>1 DEF Accept, Decline, Defer, Break, GoTo, TypeOK
      <4>2. CASE Store(h) \/ StoreFails(h) \/ ReadAttempts(h) \/ ReadFails(h)
        BY <2>2, <4>2 DEF Store, AfterStore, StoreFails, ReadAttempts, ReadFails,
           GoTo, TypeOK
      <4>3. CASE Republish(h) \/ DeadLetter(h) \/ PublishFails(h)
        BY <2>2, <4>3 DEF Republish, DeadLetter, PublishFails, GoTo, TypeOK
      <4>4. CASE Retry(h) \/ Bury(h) \/ Settle(h)
        BY <2>2, <4>4 DEF Retry, Bury, Settle, GoTo, TypeOK
      <4> QED
        BY <1>1, <4>1, <4>2, <4>3, <4>4 DEF Handle
    <3>2. stage'[h] = IF attempt[h] = MaxAttempts THEN "burying" ELSE "sleeping"
      BY <3>1 DEF Raise, GoTo, TypeOK
    <3>3. attempt[h] # MaxAttempts /\ attempt[h] \in 1 .. MaxAttempts
      BY <2>2, <3>2 DEF TypeOK
    <3> QED
      BY <2>2, <3>1, <3>3, SmsWorkerAssumption
  <2> QED
    BY <2>1, <2>2
<1> QED
  BY <1>1, StepKinds, AroundTheHandlers DEF SleepersHaveAttempts

(* dist.dead.sms is written after the row was set to failed, and no        *)
(* statement makes a row pending again.                                    *)
LEMMA LetterersStayFailed ==
    ASSUME TypeOK, PublishedAreQueued, LetterersFailed, [Next]_vars
    PROVE  LetterersFailed'
<1> SUFFICES ASSUME NEW g \in Delivery, stage'[g] = "lettering"
             PROVE  row'.status # "pending"
  BY DEF LetterersFailed
<1>1. ASSUME NEW h \in Delivery, Handle(h) PROVE row'.status # "pending"
  <2>1. CASE stage[g] = "lettering"
    BY <1>1, <2>1, HandlerKeepsRow DEF LetterersFailed
  <2>2. CASE stage[g] # "lettering"
    <3>1. g = h
      BY <1>1, <2>2, HandlerMovesItself DEF TypeOK
    <3>2. Store(h) /\ stage[h] = "failing"
      <4>1. CASE Accept(h) \/ Decline(h) \/ Defer(h) \/ Break(h)
        BY <3>1, <4>1 DEF Accept, Decline, Defer, Break, Raise, GoTo, TypeOK
      <4>2. CASE Store(h)
        BY <3>1, <4>2 DEF Store, AfterStore, Storing, GoTo, TypeOK
      <4>3. CASE StoreFails(h) \/ ReadAttempts(h) \/ ReadFails(h)
        BY <3>1, <4>3 DEF StoreFails, ReadAttempts, ReadFails, Raise, GoTo, TypeOK
      <4>4. CASE Republish(h) \/ DeadLetter(h) \/ PublishFails(h)
        BY <3>1, <4>4 DEF Republish, DeadLetter, PublishFails, Raise, GoTo, TypeOK
      <4>5. CASE Retry(h) \/ Bury(h) \/ Settle(h)
        BY <3>1, <4>5 DEF Retry, Bury, Settle, GoTo, TypeOK
      <4> QED
        BY <1>1, <4>1, <4>2, <4>3, <4>4, <4>5 DEF Handle
    <3> QED
      BY <3>2, EffectOnRow DEF Store, Storing, TypeOK
  <2> QED
    BY <2>1, <2>2
<1> QED
  BY <1>1, StepKinds, AroundTheHandlers DEF LetterersFailed

(* Only the handler that counted an attempt goes on to read the attempts,  *)
(* and none of the statements of another resets them to zero.              *)
LEMMA AttemptsStayCounted ==
    ASSUME TypeOK, PublishedAreQueued, AttemptsAreCounted, [Next]_vars
    PROVE  AttemptsAreCounted'
<1> SUFFICES ASSUME NEW g \in Delivery, stage'[g] = "reading"
             PROVE  row'.attempts > 0
  BY DEF AttemptsAreCounted
<1>1. ASSUME NEW h \in Delivery, Handle(h) PROVE row'.attempts > 0
  <2>1. CASE stage[g] = "reading"
    BY <1>1, <2>1, HandlerKeepsRow DEF AttemptsAreCounted
  <2>2. CASE stage[g] # "reading"
    <3>1. g = h
      BY <1>1, <2>2, HandlerMovesItself DEF TypeOK
    <3>2. Store(h) /\ stage[h] = "counting"
      <4>1. CASE Accept(h) \/ Decline(h) \/ Defer(h) \/ Break(h)
        BY <3>1, <4>1 DEF Accept, Decline, Defer, Break, Raise, GoTo, TypeOK
      <4>2. CASE Store(h)
        BY <3>1, <4>2 DEF Store, AfterStore, Storing, GoTo, TypeOK
      <4>3. CASE StoreFails(h) \/ ReadAttempts(h) \/ ReadFails(h)
        BY <3>1, <4>3 DEF StoreFails, ReadAttempts, ReadFails, Raise, GoTo, TypeOK
      <4>4. CASE Republish(h) \/ DeadLetter(h) \/ PublishFails(h)
        BY <3>1, <4>4 DEF Republish, DeadLetter, PublishFails, Raise, GoTo, TypeOK
      <4>5. CASE Retry(h) \/ Bury(h) \/ Settle(h)
        BY <3>1, <4>5 DEF Retry, Bury, Settle, GoTo, TypeOK
      <4> QED
        BY <1>1, <4>1, <4>2, <4>3, <4>4, <4>5 DEF Handle
    <3> QED
      BY <3>2, EffectOnRow DEF Store, Storing, TypeOK
  <2> QED
    BY <2>1, <2>2
<1> QED
  BY <1>1, StepKinds, AroundTheHandlers DEF AttemptsAreCounted

(* A handler comes to acknowledge its message by settling the row or by    *)
(* publishing a copy behind it.                                            *)
LEMMA AckersHaveSuccessor ==
    ASSUME NEW h \in Delivery, PendingInv, Handle(h),
           stage[h] # "acking", stage'[h] = "acking"
    PROVE  row'.status # "pending" \/ h[1] < copies'
<1> USE DEF PendingInv
<1>1. CASE Store(h)
  <2>1. stage[h] = "delivering"
    BY <1>1 DEF Store, AfterStore, Storing, GoTo, TypeOK
  <2> QED
    BY <1>1, <2>1, EffectOnRow DEF Store, Storing, TypeOK
<1>2. CASE Republish(h)
  <2>1. h[1] <= copies
    BY <1>2 DEF Republish, HandledArePublished
  <2>2. copies' = copies + 1 /\ copies \in Message /\ h[1] \in Message
    BY <1>2, DeliveryParts DEF Republish, AddCopy, TypeOK
  <2> QED
    BY <2>1, <2>2, SmsWorkerAssumption DEF Message
<1>3. CASE DeadLetter(h)
  BY <1>3 DEF DeadLetter, LetterersFailed
<1>4. CASE Accept(h) \/ Decline(h) \/ Defer(h) \/ Break(h)
  BY <1>4 DEF Accept, Decline, Defer, Break, Raise, GoTo, TypeOK
<1>5. CASE StoreFails(h) \/ ReadAttempts(h) \/ ReadFails(h) \/ PublishFails(h)
  BY <1>5 DEF StoreFails, ReadAttempts, ReadFails, PublishFails, Raise, GoTo,
     TypeOK
<1>6. CASE Retry(h) \/ Bury(h) \/ Settle(h)
  BY <1>6 DEF Retry, Bury, Settle, GoTo, TypeOK
<1> QED
  BY <1>1, <1>2, <1>3, <1>4, <1>5, <1>6 DEF Handle

LEMMA AckedKeepSuccessor ==
    ASSUME PendingInv, [Next]_vars
    PROVE  AckedHasSuccessor'
<1> USE DEF PendingInv
<1> DEFINE Done(n) == \/ queue[n] = "acked"
                      \/ \E d \in 1 .. MaxDeliveries : stage[<<n, d>>] = "acking"
           Safe(n) == row.status # "pending" \/ n < copies
<1>1. \A n \in Message : Done(n) => Safe(n)
  BY DEF AckedHasSuccessor
<1> SUFFICES ASSUME NEW n \in Message, Done(n)' PROVE Safe(n)'
  BY DEF AckedHasSuccessor
<1>2. ASSUME NEW h \in Delivery, Handle(h) PROVE Safe(n)'
  <2>1. Safe(n) => Safe(n)'
    <3>1. copies' >= copies /\ copies \in Message /\ copies' \in Message
      BY <1>2, HandlerQueue DEF TypeOK
    <3>2. row.status # "pending" => row'.status # "pending"
      BY <1>2, HandlerKeepsRow
    <3> QED
      BY <3>1, <3>2, SmsWorkerAssumption DEF Message
  <2>2. CASE queue'[n] = "acked"
    <3>1. queue[n] = "acked" \/ (n = h[1] /\ stage[h] = "acking")
      BY <1>2, <2>2, HandlerQueue
    <3>2. Done(n)
      BY <3>1, DeliveryParts
    <3> QED
      BY <1>1, <2>1, <3>2
  <2>3. ASSUME NEW d \in 1 .. MaxDeliveries, stage'[<<n, d>>] = "acking"
        PROVE  Safe(n)'
    <3>1. <<n, d>> \in Delivery
      BY DEF Delivery
    <3>2. CASE stage[<<n, d>>] = "acking"
      BY <1>1, <2>1, <3>2
    <3>3. CASE stage[<<n, d>>] # "acking"
      <4>1. <<n, d>> = h
        BY <1>2, <2>3, <3>1, <3>3, HandlerMovesItself DEF TypeOK
      <4>2. h[1] = n
        BY <4>1
      <4> QED
        BY <1>2, <2>3, <3>3, <4>1, <4>2, AckersHaveSuccessor
    <3> QED
      BY <3>2, <3>3
  <2> QED
    BY <2>2, <2>3
<1>3. CASE \/ \E m \in Message : Deliver(m) \/ DelayPasses(m)
           \/ Disconnect \/ Crash \/ Restart \/ UNCHANGED vars
  <2>1. Done(n)
    BY <1>3, AroundTheHandlers DEF Delivery
  <2> QED
    BY <1>1, <1>3, <2>1, AroundTheHandlers
<1> QED
  BY <1>2, <1>3, StepKinds

-----------------------------------------------------------------------------
LEMMA InvariantHolds == Spec => []PendingInv
<1>1. PendingInv /\ [Next]_vars => PendingInv'
  BY NextTypeOK, AckedKeepSuccessor, LetterersStayFailed, QueueKeepsPlaces,
     HandledStayPublished, SleepersKeepAttempts, AttemptsStayCounted
  DEF PendingInv
<1> QED
  BY InitInv, <1>1, PTL DEF Spec

(* The variables of SmsWorker keep their types.                            *)
THEOREM TypeCorrect == Spec => []TypeOK
<1>1. PendingInv => TypeOK
  BY DEF PendingInv
<1> QED
  BY InvariantHolds, <1>1, PTL

(* No order with a pending row has all its messages acknowledged, for any  *)
(* number of retries, redeliveries and mishaps: the newest copy is the     *)
(* witness.                                                                *)
THEOREM PendingIsLiveHolds == Spec => []PendingIsLive
<1>1. PendingInv => PendingIsLive
  <2> SUFFICES ASSUME PendingInv, row.status = "pending"
               PROVE  queue[copies] \notin {"none", "acked"}
    BY DEF PendingIsLive, PendingInv, TypeOK
  <2>1. copies \in Message /\ ~(copies < copies) /\ ~(copies > copies)
    BY SmsWorkerAssumption DEF PendingInv, TypeOK, Message
  <2> QED
    BY <2>1 DEF PendingInv, PublishedAreQueued, AckedHasSuccessor
<1> QED
  BY InvariantHolds, <1>1, PTL

(* Every retry finds its delay in retry_backoffs_ms when that list is as   *)
(* long as distributor_max_retries asks, whatever handlers of the same     *)
(* order do to its attempts.                                               *)
THEOREM DelayExistsHolds ==
    ASSUME MaxRetries <= Backoffs
    PROVE  Spec => []DelayExists
<1>1. PendingInv => DelayExists
  <2> SUFFICES ASSUME PendingInv, NEW h \in Delivery, stage[h] = "reading",
                      row.attempts <= MaxRetries
               PROVE  row.attempts \in 1 .. Backoffs
    BY DEF DelayExists
  <2>1. row.attempts \in Nat /\ row.attempts > 0
    BY DEF PendingInv, TypeOK, Row, AttemptsAreCounted
  <2> QED
    BY <2>1, SmsWorkerAssumption
<1> QED
  BY InvariantHolds, <1>1, PTL

-----------------------------------------------------------------------------
(* Without mishaps the order is one message or one handler, never two.     *)

AtWork(h) == stage[h] \in {"posting", "delivering", "refusing", "counting",
                           "reading", "scheduling", "republishing", "failing",
                           "sleeping"}

(* The order is one queued message or one handler at work, and its row is  *)
(* open as long.                                                           *)
OneAtWork ==
    /\ \A n \in Message : queue[n] = "ready" =>
        /\ row.status = "pending" /\ posted = 0 /\ copies <= row.attempts + 1
        /\ \A h \in Delivery : ~AtWork(h)
        /\ \A m \in Message : queue[m] = "ready" => m = n
    /\ \A h \in Delivery : AtWork(h) =>
        /\ row.status = "pending"
        /\ posted = IF stage[h] = "delivering" THEN 1 ELSE 0
        /\ \A g \in Delivery : AtWork(g) => g = h

(* The copies published so far are counted, or may be.                     *)
CopiesAreCounted ==
    \A h \in Delivery :
        /\ stage[h] \in {"posting", "counting", "sleeping"} =>
            copies <= row.attempts + 1
        /\ stage[h] \in {"reading", "scheduling", "republishing"} =>
            copies <= row.attempts
        /\ stage[h] \in {"scheduling", "republishing"} => copies <= MaxRetries

WithoutMishaps ==
    mishaps = 0 =>
        /\ OneAtWork /\ CopiesAreCounted
        /\ posted <= 1 /\ copies <= MaxRetries + 1

WorkParts ==
    OneAtWork /\ CopiesAreCounted /\ posted <= 1 /\ copies <= MaxRetries + 1

LEMMA InitWithoutMishaps == Init => WithoutMishaps
BY SmsWorkerAssumption
DEF Init, WithoutMishaps, OneAtWork, CopiesAreCounted, AtWork

(* A handler that is not at work any more, or never was, disturbs nobody.  *)
LEMMA HandlerKeepsWork ==
    ASSUME TypeOK, PublishedAreQueued, WorkParts, mishaps = 0, mishaps' = 0,
           NEW h \in Delivery, Handle(h)
    PROVE  WorkParts'
<1> USE SmsWorkerAssumption, DeliveryParts
    DEF WorkParts, OneAtWork, CopiesAreCounted, AtWork, GoTo
<1>1. /\ stage' = [stage EXCEPT ![h] = stage'[h]]
      /\ \A g \in Delivery : g # h => stage'[g] = stage[g]
  BY HandlerMovesItself DEF TypeOK
<1>2. copies \in Nat /\ posted \in Nat /\ row.attempts \in Nat
  BY DEF TypeOK, Message, Row
<1>3. ~Mishap
  BY DEF Mishap
<1>4. CASE Accept(h) \/ Decline(h) \/ Defer(h)
  BY <1>1, <1>2, <1>3, <1>4 DEF Accept, Decline, Defer, broker, TypeOK
<1>5. CASE Break(h)
  BY <1>1, <1>2, <1>3, <1>5 DEF Break, Raise, broker, TypeOK
<1>6. CASE Store(h)
  <2>1. row' = Effect(h) /\ stage'[h] = AfterStore(stage[h])
        /\ UNCHANGED <<queue, copies, posted>>
    BY <1>6 DEF Store, broker, TypeOK
  <2>2. AtWork(h) /\ \A n \in Message : queue[n] # "ready"
    BY <1>6 DEF Store, Storing
  <2>3. \A g \in Delivery : g # h => ~AtWork(g)
    BY <2>2
  <2>4. CASE stage[h] \in {"delivering", "refusing", "failing"}
    <3>1. stage'[h] \in {"acking", "burying", "lettering"}
      BY <2>1, <2>4 DEF AfterStore
    <3> QED
      BY <1>1, <1>2, <2>1, <2>2, <2>3, <3>1
  <2>5. CASE stage[h] \in {"counting", "scheduling"}
    <3>1. /\ stage'[h] \in {"reading", "republishing"}
          /\ stage'[h] = "reading" => stage[h] = "counting"
          /\ stage'[h] = "republishing" => stage[h] = "scheduling"
      BY <2>1, <2>5 DEF AfterStore
    <3>2. /\ row'.status = row.status
          /\ row'.attempts = IF stage[h] = "counting" THEN row.attempts + 1
                             ELSE row.attempts
      BY <2>1, <2>5 DEF Effect
    <3> QED
      BY <1>1, <1>2, <2>1, <2>2, <2>3, <2>5, <3>1, <3>2
  <2> QED
    BY <1>6, <2>4, <2>5 DEF Store, Storing
<1>7. CASE ReadAttempts(h)
  BY <1>1, <1>2, <1>7 DEF ReadAttempts, Raise, broker, TypeOK
<1>8. CASE Republish(h)
  <2>1. /\ copies' = copies + 1 /\ copies' \in Message
        /\ queue' = [queue EXCEPT ![copies + 1] = "ready"]
        /\ row' = row /\ posted' = posted
        /\ stage[h] = "republishing" /\ stage'[h] = "acking"
    BY <1>8, CopyIsNew DEF Republish, AddCopy, TypeOK
  <2>2. \A n \in Message : queue'[n] = "ready" => n = copies + 1
    BY <2>1 DEF TypeOK
  <2>3. \A g \in Delivery : ~AtWork(g)'
    BY <1>1, <2>1
  <2>4. /\ row.status = "pending" /\ posted = 0
        /\ copies <= row.attempts /\ copies <= MaxRetries
    BY <2>1
  <2>5. OneAtWork'
    BY <1>2, <2>1, <2>2, <2>3, <2>4
  <2>6. CopiesAreCounted'
    BY <2>3
  <2> QED
    BY <1>2, <2>1, <2>4, <2>5, <2>6
<1>9. CASE DeadLetter(h) \/ Retry(h) \/ Bury(h)
  BY <1>1, <1>2, <1>9 DEF DeadLetter, Retry, Bury, broker, TypeOK
<1>10. CASE Settle(h)
  BY <1>1, <1>2, <1>10 DEF Settle, TypeOK
<1> QED
  BY <1>3, <1>4, <1>5, <1>6, <1>7, <1>8, <1>9, <1>10
  DEF Handle, StoreFails, ReadFails, PublishFails

(* A step without mishaps follows states without mishaps.                  *)
LEMMA MishapsStay ==
    ASSUME TypeOK, [Next]_vars, mishaps' = 0
    PROVE  mishaps = 0 /\ ~Mishap
<1>1. Mishap \/ mishaps' = mishaps
  BY DEF Next, Deliver, DelayPasses, Handle, Accept, Decline, Defer, Break,
     Store, StoreFails, ReadAttempts, ReadFails, Republish, DeadLetter,
     PublishFails, Retry, Bury, Settle, Disconnect, Crash, Requeue, Restart,
       Drained,
     vars
<1> QED
  BY <1>1 DEF Mishap, TypeOK

LEMMA NextWithoutMishaps ==
    ASSUME TypeOK, PublishedAreQueued, WithoutMishaps, [Next]_vars
    PROVE  WithoutMishaps'
<1> SUFFICES ASSUME mishaps' = 0 PROVE WorkParts'
  BY DEF WithoutMishaps, WorkParts
<1> USE SmsWorkerAssumption, DeliveryParts
<1>1. mishaps = 0 /\ ~Mishap
  BY MishapsStay
<1>2. WorkParts
  BY <1>1 DEF WithoutMishaps, WorkParts
<1>3. ASSUME NEW n \in Message, Deliver(n) PROVE WorkParts'
  <2>1. <<n, delivered[n] + 1>> \in Delivery
    BY <1>3 DEF Deliver, Delivery, TypeOK
  <2> QED
    BY <1>2, <1>3, <2>1 DEF Deliver, GoTo, WorkParts, OneAtWork,
       CopiesAreCounted, AtWork, TypeOK
<1>4. ASSUME NEW n \in Message, DelayPasses(n) PROVE WorkParts'
  BY <1>2, <1>4 DEF DelayPasses, WorkParts, OneAtWork, CopiesAreCounted, AtWork,
     TypeOK
<1>5. ASSUME NEW h \in Delivery, Handle(h) PROVE WorkParts'
  BY <1>1, <1>2, <1>5, HandlerKeepsWork
<1>6. CASE UNCHANGED vars
  BY <1>2, <1>6 DEF vars, WorkParts, OneAtWork, CopiesAreCounted, AtWork
<1> QED
  BY <1>1, <1>3, <1>4, <1>5, <1>6, StepKinds DEF Disconnect, Crash, Requeue,
     Restart

LEMMA WithoutMishapsHolds == Spec => []WithoutMishaps
<1>1. PendingInv => TypeOK /\ PublishedAreQueued
  BY DEF PendingInv
<1> QED
  BY <1>1, InvariantHolds, InitWithoutMishaps, NextWithoutMishaps, PTL DEF Spec

(* While nothing but the provider fails a settled row stays as it is: the  *)
(* handlers that come after it write no row.                               *)
THEOREM SettledRowIsFinalHolds == Spec => SettledRowIsFinal
<1>1. ASSUME TypeOK, WithoutMishaps, [Next]_vars, row.status # "pending",
             mishaps' = 0
      PROVE  row' = row
  <2>1. ASSUME NEW h \in Delivery, Store(h) PROVE FALSE
    <3>1. mishaps = 0
      BY <1>1, <2>1 DEF Store
    <3> QED
      BY <1>1, <2>1, <3>1 DEF Store, Storing, WithoutMishaps, OneAtWork, AtWork
  <2>2. ASSUME NEW h \in Delivery, StoreFails(h) PROVE FALSE
    BY <1>1, <2>2 DEF StoreFails, Mishap, TypeOK
  <2> QED
    BY <1>1, <2>1, <2>2 DEF Next, Deliver, DelayPasses, Handle, Accept, Decline,
       Defer, Break, ReadAttempts, ReadFails, Republish, DeadLetter,
       PublishFails, Retry, Bury, Settle, Disconnect, Crash, Requeue, Restart,
       Drained,
       vars
<1>2. TypeOK /\ WithoutMishaps /\ [Next]_vars =>
        [row.status # "pending" /\ mishaps' = 0 => row' = row]_vars
  BY <1>1
<1> QED
  BY <1>2, TypeCorrect, WithoutMishapsHolds, PTL DEF Spec, SettledRowIsFinal
-----------------------------------------------------------------------------
(* How the order ends while nothing but the provider fails.                *)

(* The handler is about to publish to dist.dead.sms.                       *)
Closing(h) == stage[h] \in {"lettering", "burying"}

Open ==
    \/ \E n \in Message : queue[n] = "ready"
    \/ \E h \in Delivery : AtWork(h)

(* The handler had its last run and its message is rejected, or will be.   *)
Spent(h) ==
    /\ attempt[h] = MaxAttempts
    /\ \/ stage[h] = "rejecting"
       \/ stage[h] = "ended" /\ queue[h[1]] = "dropped"

(* What a handler works on is its message's only delivery out.             *)
HeldMessages ==
    mishaps = 0 =>
        \A h \in Delivery : stage[h] \in Running =>
            queue[h[1]] = "unacked" /\ delivered[h[1]] = h[2]

StoryIsTold ==
    \/ row.status = "delivered" /\ posted = 1 /\ dead = 0
    \/ row.status = "failed" /\ posted = 0 /\ dead = 1
    \/ /\ row.status = "pending" /\ posted = 0
       /\ \/ /\ dead = 1 /\ "breaks" \in Answers
             /\ \E h \in Delivery : Spent(h)
          \/ dead = 0 /\ \E n \in Message : queue[n] = "expired"

(* An order is open, or one handler closes it, or its story is told.       *)
OneStory ==
    mishaps = 0 =>
        /\ Open => dead = 0
        /\ \A h \in Delivery : Closing(h) =>
            /\ ~Open /\ dead = 0 /\ posted = 0
            /\ \A g \in Delivery : Closing(g) => g = h
            /\ \/ row.status = "failed"
               \/ /\ stage[h] = "burying" /\ row.status = "pending"
                  /\ "breaks" \in Answers /\ attempt[h] = MaxAttempts
        /\ Open \/ (\E h \in Delivery : Closing(h)) \/ StoryIsTold

LEMMA InitOneStory == Init => OneStory
<1> SUFFICES ASSUME Init PROVE OneStory
  OBVIOUS
<1>1. 1 \in Message /\ queue[1] = "ready"
  BY SmsWorkerAssumption DEF Init, Message
<1> QED
  BY <1>1 DEF Init, OneStory, Open, Closing

(* Where a handler at work goes: it stays at work, or publishes a copy, or *)
(* settles the row, or gives the message up.                               *)
LEMMA WorkerKeepsStory ==
    ASSUME MaxRetries <= Backoffs,
           TypeOK, PublishedAreQueued, WorkParts, OneStory,
           mishaps = 0, mishaps' = 0, NEW h \in Delivery, AtWork(h), Handle(h)
    PROVE  OneStory'
<1> USE SmsWorkerAssumption, DeliveryParts
<1>1. /\ stage' = [stage EXCEPT ![h] = stage'[h]]
      /\ \A g \in Delivery : g # h => stage'[g] = stage[g]
  BY HandlerMovesItself DEF TypeOK
<1>2. /\ dead = 0 /\ \A g \in Delivery : ~Closing(g)
      /\ row.status = "pending"
      /\ posted = IF stage[h] = "delivering" THEN 1 ELSE 0
      /\ \A g \in Delivery : g # h => ~AtWork(g)
      /\ \A n \in Message : queue[n] # "ready"
  BY DEF OneStory, Open, WorkParts, OneAtWork, AtWork
<1>3. ~Mishap
  BY DEF Mishap
<1>4. ASSUME AtWork(h)', dead' = 0 PROVE OneStory'
  <2>1. Open'
    BY <1>4 DEF Open
  <2>2. \A g \in Delivery : ~Closing(g)'
    BY <1>1, <1>2, <1>4 DEF Closing, AtWork
  <2> QED
    BY <1>4, <2>1, <2>2 DEF OneStory
<1>5. ASSUME Closing(h)', queue' = queue, dead' = 0, posted' = 0,
             \/ row'.status = "failed"
             \/ /\ stage'[h] = "burying" /\ row' = row
                /\ "breaks" \in Answers /\ attempt'[h] = MaxAttempts
      PROVE  OneStory'
  <2>1. ~Open'
    BY <1>1, <1>2, <1>5 DEF Open, AtWork, Closing
  <2>2. \A g \in Delivery : Closing(g)' => g = h
    BY <1>1, <1>2 DEF Closing
  <2> QED
    BY <1>2, <1>5, <2>1, <2>2 DEF OneStory
<1>6. CASE Accept(h) \/ Decline(h) \/ Defer(h)
  <2>1. stage'[h] \in {"delivering", "refusing", "counting"} /\ dead' = dead
    BY <1>6 DEF Accept, Decline, Defer, GoTo, TypeOK
  <2> QED
    BY <1>2, <1>4, <2>1 DEF AtWork
<1>7. CASE Break(h)
  <2>1. /\ stage'[h] \in {"sleeping", "burying"} /\ UNCHANGED <<row, dead>>
        /\ queue' = queue /\ "breaks" \in Answers
        /\ posted' = posted /\ stage[h] = "posting"
        /\ stage'[h] = "burying" => attempt'[h] = MaxAttempts
    BY <1>3, <1>7 DEF Break, Raise, GoTo, broker, TypeOK
  <2> QED
    BY <1>2, <1>4, <1>5, <2>1 DEF AtWork, Closing
<1>8. CASE Store(h)
  <2>1. /\ row' = Effect(h) /\ stage'[h] = AfterStore(stage[h])
        /\ queue' = queue /\ posted' = posted /\ dead' = dead
        /\ stage[h] \in Storing
    BY <1>8 DEF Store, GoTo, broker, TypeOK
  <2>2. CASE stage[h] = "delivering"
    <3>1. stage'[h] = "acking" /\ row'.status = "delivered"
      BY <2>1, <2>2 DEF AfterStore, Effect
    <3>2. ~Open' /\ \A g \in Delivery : ~Closing(g)'
      BY <1>1, <1>2, <2>1, <3>1 DEF Open, AtWork, Closing
    <3> QED
      BY <1>2, <2>1, <2>2, <3>1, <3>2 DEF OneStory, StoryIsTold
  <2>3. CASE stage[h] \in {"refusing", "failing"}
    <3>1. stage'[h] \in {"burying", "lettering"} /\ row'.status = "failed"
      BY <2>1, <2>3 DEF AfterStore, Effect
    <3> QED
      BY <1>2, <1>5, <2>1, <2>3, <3>1 DEF Closing
  <2>4. CASE stage[h] \in {"counting", "scheduling"}
    <3>1. stage'[h] \in {"reading", "republishing"}
      BY <2>1, <2>4 DEF AfterStore
    <3> QED
      BY <1>2, <1>4, <2>1, <3>1 DEF AtWork
  <2> QED
    BY <2>1, <2>2, <2>3, <2>4 DEF Storing
<1>9. CASE ReadAttempts(h)
  <2>1. ~(row.attempts > MaxRetries) => ~(row.attempts > Backoffs)
    BY DEF TypeOK, Row
  <2>2. stage'[h] \in {"failing", "scheduling"} /\ dead' = dead
    BY <1>9, <2>1 DEF ReadAttempts, GoTo, TypeOK
  <2> QED
    BY <1>2, <1>4, <2>2 DEF AtWork
<1>10. CASE Republish(h)
  <2>1. /\ copies + 1 \in Message /\ queue'[copies + 1] = "ready"
        /\ stage'[h] = "acking" /\ dead' = dead
    BY <1>10, CopyIsNew DEF Republish, AddCopy, GoTo, TypeOK
  <2>2. Open' /\ \A g \in Delivery : ~Closing(g)'
    BY <1>1, <1>2, <2>1 DEF Open, Closing
  <2> QED
    BY <1>2, <2>1, <2>2 DEF OneStory
<1>11. CASE Retry(h)
  <2>1. stage'[h] = "posting" /\ dead' = dead
    BY <1>11 DEF Retry, GoTo, TypeOK
  <2> QED
    BY <1>2, <1>4, <2>1 DEF AtWork
<1> QED
  BY <1>3, <1>6, <1>7, <1>8, <1>9, <1>10, <1>11
  DEF Handle, StoreFails, ReadFails, PublishFails, DeadLetter, Bury, Settle,
      AtWork

(* The settling of a message leaves it spent, and settles no other.        *)
LEMMA SettledStaysSpent ==
    ASSUME TypeOK, HeldMessages, mishaps = 0,
           NEW h \in Delivery, Settle(h), NEW g \in Delivery, Spent(g)
    PROVE  Spent(g)'
<1> USE DeliveryParts
<1>1. /\ stage' = [stage EXCEPT ![h] = "ended"] /\ attempt' = attempt
      /\ stage[h] \in {"acking", "rejecting"}
  BY DEF Settle, GoTo
<1>2. queue[h[1]] = "unacked" /\ delivered[h[1]] = h[2]
  BY <1>1 DEF HeldMessages, Running, Stage
<1>3. queue' = [queue EXCEPT ![h[1]] =
                  IF stage[h] = "acking" THEN "acked" ELSE "dropped"]
  BY <1>2 DEF Settle
<1>4. CASE g = h
  BY <1>1, <1>3, <1>4 DEF Spent, TypeOK
<1>5. CASE g # h
  <2>1. stage'[g] = stage[g]
    BY <1>1, <1>5 DEF TypeOK
  <2>2. stage[g] = "ended" => g[1] # h[1]
    BY <1>2 DEF Spent
  <2>3. stage[g] = "ended" => queue'[g[1]] = queue[g[1]]
    BY <1>3, <2>2 DEF TypeOK
  <2> QED
    BY <1>1, <2>1, <2>3 DEF Spent
<1> QED
  BY <1>4, <1>5

(* What a handler that is not at work does: it puts the dead letter where  *)
(* none was, or settles its message.                                       *)
LEMMA CloserKeepsStory ==
    ASSUME TypeOK, OneStory, HeldMessages, mishaps = 0, mishaps' = 0,
           NEW h \in Delivery, ~AtWork(h), Handle(h)
    PROVE  OneStory'
<1>1. /\ stage' = [stage EXCEPT ![h] = stage'[h]]
      /\ \A g \in Delivery : g # h => stage'[g] = stage[g]
  BY HandlerMovesItself DEF TypeOK
<1>2. ~Mishap
  BY DEF Mishap
<1>3. CASE DeadLetter(h) \/ Bury(h)
  <2>1. /\ Closing(h) /\ dead' = dead + 1
        /\ queue' = queue /\ UNCHANGED <<row, posted, attempt>>
        /\ stage'[h] \in {"acking", "rejecting"}
        /\ stage[h] = "burying" => stage'[h] = "rejecting"
    BY <1>2, <1>3 DEF DeadLetter, Bury, Closing, GoTo, broker, TypeOK
  <2>2. /\ ~Open /\ dead = 0 /\ posted = 0
        /\ \A g \in Delivery : Closing(g) => g = h
        /\ \/ row.status = "failed"
           \/ /\ stage[h] = "burying" /\ row.status = "pending"
              /\ "breaks" \in Answers /\ attempt[h] = MaxAttempts
    BY <2>1 DEF OneStory
  <2>3. ~Open' /\ \A g \in Delivery : ~Closing(g)'
    BY <1>1, <2>1, <2>2 DEF Open, AtWork, Closing
  <2>4. StoryIsTold'
    BY <2>1, <2>2 DEF StoryIsTold, Spent
  <2> QED
    BY <2>3, <2>4 DEF OneStory
<1>4. CASE Settle(h)
  <2>1. /\ UNCHANGED <<row, posted, dead>>
        /\ \A n \in Message : queue'[n] = "ready" <=> queue[n] = "ready"
        /\ \A n \in Message : queue'[n] = "expired" <=> queue[n] = "expired"
        /\ stage'[h] = "ended" /\ ~Closing(h)
    BY <1>4, DeliveryParts DEF Settle, GoTo, Closing, TypeOK
  <2>2. /\ \A g \in Delivery : AtWork(g)' <=> AtWork(g)
        /\ \A g \in Delivery : Closing(g)' <=> Closing(g)
    BY <1>1, <2>1 DEF AtWork, Closing
  <2>3. Open' <=> Open
    BY <2>1, <2>2 DEF Open
  <2>4. StoryIsTold => StoryIsTold'
    <3>1. ASSUME NEW g \in Delivery, Spent(g) PROVE Spent(g)'
      BY <1>4, <3>1, SettledStaysSpent
    <3> QED
      BY <2>1, <3>1 DEF StoryIsTold
  <2>5. /\ \A g \in Delivery : Closing(g) => stage'[g] = stage[g]
        /\ attempt' = attempt
    BY <1>1, <1>4, <2>1 DEF Settle
  <2> QED
    BY <2>1, <2>2, <2>3, <2>4, <2>5 DEF OneStory
<1> QED
  BY <1>2, <1>3, <1>4
  DEF Handle, Accept, Decline, Defer, Break, Store, Storing, StoreFails,
      ReadAttempts, ReadFails, Republish, PublishFails, Retry, AtWork

LEMMA NextOneStory ==
    ASSUME MaxRetries <= Backoffs,
           TypeOK, PublishedAreQueued, WithoutMishaps, HeldMessages, OneStory,
           [Next]_vars
    PROVE  OneStory'
<1> SUFFICES ASSUME mishaps' = 0 PROVE OneStory'
  BY DEF OneStory
<1>1. mishaps = 0 /\ ~Mishap /\ WorkParts
  BY MishapsStay DEF WithoutMishaps, WorkParts
<1>2. ASSUME NEW n \in Message, Deliver(n) PROVE OneStory'
  <2> DEFINE h == <<n, delivered[n] + 1>>
  <2>1. h \in Delivery
    BY <1>2, SmsWorkerAssumption DEF Deliver, Delivery, TypeOK
  <2>2. stage'[h] = "posting" /\ dead' = dead
    BY <1>2, <2>1 DEF Deliver, GoTo, TypeOK
  <2>3. Open /\ dead = 0 /\ \A g \in Delivery : ~Closing(g)
    BY <1>1, <1>2 DEF Deliver, Open, OneStory
  <2>4. \A g \in Delivery : ~Closing(g)'
    BY <1>2, <2>2, <2>3 DEF Deliver, GoTo, Closing, TypeOK
  <2>5. Open'
    BY <2>1, <2>2 DEF Open, AtWork
  <2> QED
    BY <2>2, <2>3, <2>4, <2>5 DEF OneStory
<1>3. ASSUME NEW n \in Message, DelayPasses(n) PROVE OneStory'
  <2>1. UNCHANGED <<stage, attempt, row, posted, dead>>
    BY <1>3 DEF DelayPasses
  <2>2. CASE queue[n] = "ready"
    <3>1. /\ row.status = "pending" /\ posted = 0 /\ dead = 0
          /\ \A h \in Delivery : ~AtWork(h) /\ ~Closing(h)
          /\ \A m \in Message : queue[m] = "ready" => m = n
      BY <1>1, <2>2 DEF OneStory, Open, WorkParts, OneAtWork
    <3>2. queue'[n] = "expired" /\ \A m \in Message : queue'[m] # "ready"
      BY <1>3, <2>2, <3>1 DEF DelayPasses, TypeOK
    <3>3. /\ ~Open'
          /\ \A h \in Delivery : ~Closing(h)'
      BY <2>1, <3>1, <3>2 DEF Open, AtWork, Closing
    <3> QED
      BY <2>1, <3>1, <3>2, <3>3 DEF OneStory, StoryIsTold
  <2>3. CASE queue[n] # "ready"
    <3>1. queue' = queue
      BY <1>3, <2>3 DEF DelayPasses
    <3> QED
      BY <1>1, <2>1, <3>1
      DEF OneStory, Open, AtWork, Closing, StoryIsTold, Spent
  <2> QED
    BY <2>2, <2>3
<1>4. ASSUME NEW h \in Delivery, Handle(h) PROVE OneStory'
  BY <1>1, <1>4, WorkerKeepsStory, CloserKeepsStory
<1>5. CASE UNCHANGED vars
  BY <1>1, <1>5 DEF vars, OneStory, Open, AtWork, Closing, StoryIsTold, Spent
<1> QED
  BY <1>1, <1>2, <1>3, <1>4, <1>5, StepKinds DEF Disconnect, Crash, Requeue,
     Restart

LEMMA NextHeldMessages ==
    ASSUME TypeOK, PublishedAreQueued, HandledArePublished, HeldMessages,
           [Next]_vars
    PROVE  HeldMessages'
<1> SUFFICES ASSUME mishaps' = 0, NEW g \in Delivery, stage'[g] \in Running
             PROVE  queue'[g[1]] = "unacked" /\ delivered'[g[1]] = g[2]
  BY DEF HeldMessages
<1> USE SmsWorkerAssumption, DeliveryParts
<1> DEFINE Held == queue[g[1]] = "unacked" /\ delivered[g[1]] = g[2]
<1>1. mishaps = 0 /\ ~Mishap
  BY MishapsStay
<1>2. stage[g] \in Running => Held
  BY <1>1 DEF HeldMessages
<1>3. ASSUME NEW n \in Message, Deliver(n)
      PROVE  queue'[g[1]] = "unacked" /\ delivered'[g[1]] = g[2]
  <2>1. CASE g = <<n, delivered[n] + 1>>
    <3>1. g[1] = n /\ g[2] = delivered[n] + 1
      BY <2>1
    <3> QED
      BY <1>3, <3>1 DEF Deliver, TypeOK
  <2>2. CASE g # <<n, delivered[n] + 1>>
    <3>1. Held
      BY <1>2, <1>3, <2>2 DEF Deliver, GoTo, TypeOK
    <3>2. g[1] # n
      BY <1>3, <3>1 DEF Deliver
    <3> QED
      BY <1>3, <3>1, <3>2 DEF Deliver, TypeOK
  <2> QED
    BY <2>1, <2>2
<1>4. ASSUME NEW n \in Message, DelayPasses(n)
      PROVE  queue'[g[1]] = "unacked" /\ delivered'[g[1]] = g[2]
  BY <1>2, <1>4 DEF DelayPasses, TypeOK
<1>5. ASSUME NEW h \in Delivery, Handle(h)
      PROVE  queue'[g[1]] = "unacked" /\ delivered'[g[1]] = g[2]
  <2>1. Held /\ stage[g] \in Running /\ stage[g] # "idle"
    BY <1>2, <1>5, HandlerMovesItself DEF TypeOK, Running
  <2>2. delivered' = delivered
    BY <1>5 DEF Handle, Accept, Decline, Defer, Break, Store, StoreFails,
       ReadAttempts, ReadFails, Republish, AddCopy, DeadLetter, PublishFails,
       Retry, Bury, Settle, broker
  <2>3. CASE Settle(h)
    <3>1. g # h
      BY <2>3 DEF Settle, GoTo, TypeOK, Running
    <3>2. h[1] = g[1] => queue[h[1]] # "unacked" \/ delivered[h[1]] # h[2]
      BY <2>1, <3>1
    <3> QED
      BY <2>1, <2>2, <2>3, <3>2 DEF Settle, TypeOK
  <2>4. CASE Republish(h)
    <3>1. g[1] <= copies /\ copies \in Message
      BY <2>1 DEF HandledArePublished, TypeOK
    <3>2. g[1] # copies + 1
      BY <3>1 DEF Message
    <3> QED
      BY <2>1, <2>2, <2>4, <3>2 DEF Republish, AddCopy, TypeOK
  <2>5. Settle(h) \/ Republish(h) \/ queue' = queue
    BY <1>1, <1>5 DEF Handle, Accept, Decline, Defer, Break, Store, StoreFails,
       ReadAttempts, ReadFails, DeadLetter, PublishFails, Retry, Bury, broker
  <2> QED
    BY <2>1, <2>2, <2>3, <2>4, <2>5
<1>6. CASE UNCHANGED vars
  BY <1>2, <1>6 DEF vars
<1> QED
  BY <1>1, <1>3, <1>4, <1>5, <1>6, StepKinds DEF Disconnect, Crash, Requeue,
     Restart

LEMMA HeldMessagesHolds == Spec => []HeldMessages
<1>1. Init => HeldMessages
  BY DEF Init, HeldMessages, Running
<1>2. PendingInv => TypeOK /\ PublishedAreQueued /\ HandledArePublished
  BY DEF PendingInv
<1> QED
  BY <1>1, <1>2, InvariantHolds, NextHeldMessages, PTL DEF Spec

(* Once nothing moves any more and nothing but the provider failed, the    *)
(* row, the provider and the dead-letter queue tell one story, for any     *)
(* number of retries that have their delays.                               *)
THEOREM OutcomesAgreeHolds ==
    ASSUME MaxRetries <= Backoffs
    PROVE  Spec => []OutcomesAgree
<1>1. OneStory /\ TypeOK => OutcomesAgree
  <2> SUFFICES ASSUME OneStory, Quiet, mishaps = 0 PROVE StoryIsTold
    <3>1. ASSUME NEW h \in Delivery, Spent(h), Quiet
          PROVE  \E n \in Message : queue[n] = "dropped" /\ UsedUp(n)
      <4>1. stage[h] = "ended" /\ queue[h[1]] = "dropped"
        BY <3>1 DEF Spent, Quiet, Running, Stage
      <4> QED
        BY <3>1, <4>1, DeliveryParts DEF Spent, UsedUp
    <3> QED
      BY <3>1 DEF OutcomesAgree, StoryIsTold
  <2>1. ~Open /\ \A h \in Delivery : ~Closing(h)
    BY DEF Quiet, Open, AtWork, Closing, Running, Stage
  <2> QED
    BY <2>1 DEF OneStory
<1>2. PendingInv => TypeOK /\ PublishedAreQueued
  BY DEF PendingInv
<1>3. /\ OneStory /\ TypeOK /\ PublishedAreQueued /\ WithoutMishaps
      /\ HeldMessages /\ [Next]_vars
      => OneStory'
  BY NextOneStory
<1> QED
  BY <1>1, <1>2, <1>3, InvariantHolds, InitOneStory, WithoutMishapsHolds,
     HeldMessagesHolds, PTL DEF Spec
=============================================================================

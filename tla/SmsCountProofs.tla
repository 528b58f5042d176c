-------------------------- MODULE SmsCountProofs ---------------------------
(***************************************************************************)
(* The two counts of SmsWorker, with every mishap: how many copies of the  *)
(* message are published while the row is open, and how many SMS the       *)
(* provider accepts.  Both are sums over the handlers at work.             *)
(***************************************************************************)
EXTENDS SmsWorkerProofs, FiniteSetTheorems

LEMMA DeliveriesAreFinite ==
    ASSUME NEW S \in SUBSET Delivery
    PROVE  IsFiniteSet(S) /\ Cardinality(S) \in Nat
<1>1. IsFiniteSet(1 .. MaxCopies) /\ IsFiniteSet(1 .. MaxDeliveries)
  BY FS_Interval, SmsWorkerAssumption
<1>2. IsFiniteSet(Delivery)
  BY <1>1, FS_Product DEF Delivery, Message
<1> QED
  BY <1>2, FS_Subset, FS_CardinalityType

(* A subset has no more elements, and one element adds at most one.        *)
LEMMA OneMore ==
    ASSUME NEW S \in SUBSET Delivery, NEW T \in SUBSET Delivery,
           NEW x \in Delivery, T \subseteq S \cup {x}
    PROVE  Cardinality(T) <= Cardinality(S) + 1
<1>1. IsFiniteSet(S \cup {x}) /\ Cardinality(S \cup {x}) <= Cardinality(S) + 1
  BY DeliveriesAreFinite, FS_AddElement
<1>2. Cardinality(T) <= Cardinality(S \cup {x})
  BY <1>1, FS_Subset
<1> QED
  BY <1>1, <1>2, DeliveriesAreFinite

LEMMA NoMore ==
    ASSUME NEW S \in SUBSET Delivery, NEW T \in SUBSET S
    PROVE  Cardinality(T) <= Cardinality(S)
BY DeliveriesAreFinite, FS_Subset

LEMMA OneLess ==
    ASSUME NEW S \in SUBSET Delivery, NEW x \in S, NEW T \in SUBSET (S \ {x})
    PROVE  Cardinality(T) + 1 <= Cardinality(S)
<1>1. Cardinality(S \ {x}) = Cardinality(S) - 1
  BY DeliveriesAreFinite, FS_RemoveElement
<1>2. Cardinality(T) <= Cardinality(S \ {x})
  BY NoMore
<1> QED
  BY <1>1, <1>2, DeliveriesAreFinite

-----------------------------------------------------------------------------
(* The copies.  A handler that counted an attempt may publish one copy for *)
(* it, and one that read fewer than the limit has a place left for it.     *)

Retrying == {h \in Delivery : stage[h] \in {"reading", "scheduling", "republishing"}}
Renewing == {h \in Delivery : stage[h] \in {"scheduling", "republishing"}}

CopiesInv ==
    row.status = "pending" =>
        /\ copies + Cardinality(Retrying) <= row.attempts + 1
        /\ copies + Cardinality(Renewing) <= MaxRetries + 1

LEMMA InitCopies == Init => CopiesInv
<1> SUFFICES ASSUME Init PROVE CopiesInv
  OBVIOUS
<1>1. Retrying = {} /\ Renewing = {}
  BY DEF Init, Retrying, Renewing
<1> QED
  BY <1>1, FS_EmptySet, SmsWorkerAssumption DEF Init, CopiesInv

(* What one handler step changes in the two sums.                          *)
LEMMA HandlerKeepsCopies ==
    ASSUME TypeOK, PublishedAreQueued, CopiesInv, NEW h \in Delivery, Handle(h)
    PROVE  CopiesInv'
<1> SUFFICES ASSUME row'.status = "pending"
             PROVE  /\ copies' + Cardinality(Retrying') <= row'.attempts + 1
                    /\ copies' + Cardinality(Renewing') <= MaxRetries + 1
  BY DEF CopiesInv
<1> USE SmsWorkerAssumption
<1>1. row.status = "pending"
  BY HandlerKeepsRow
<1>2. /\ copies + Cardinality(Retrying) <= row.attempts + 1
      /\ copies + Cardinality(Renewing) <= MaxRetries + 1
  BY <1>1 DEF CopiesInv
<1>3. /\ Retrying \subseteq Delivery /\ Renewing \subseteq Delivery
      /\ Retrying' \subseteq Delivery /\ Renewing' \subseteq Delivery
      /\ Renewing \subseteq Retrying
  BY DEF Retrying, Renewing
<1>4. /\ Cardinality(Retrying) \in Nat /\ Cardinality(Renewing) \in Nat
      /\ Cardinality(Retrying') \in Nat /\ Cardinality(Renewing') \in Nat
      /\ copies \in Nat /\ row.attempts \in Nat /\ row'.attempts \in Nat
      /\ copies' \in Nat
  <2>1. /\ Cardinality(Retrying) \in Nat /\ Cardinality(Renewing) \in Nat
        /\ Cardinality(Retrying') \in Nat /\ Cardinality(Renewing') \in Nat
    BY <1>3, DeliveriesAreFinite
  <2>2. copies' \in Message
    BY HandlerQueue
  <2>3. row \in Row /\ row' \in Row /\ copies \in Message
    BY HandlerKeepsRow DEF TypeOK
  <2> QED
    BY <2>1, <2>2, <2>3 DEF Message, Row
<1>5. \A g \in Delivery : g # h => stage'[g] = stage[g]
  BY HandlerMovesItself DEF TypeOK
<1>6. ASSUME stage'[h] \notin {"reading", "scheduling", "republishing"}
      PROVE  /\ Retrying' \subseteq Retrying \ {h}
             /\ Renewing' \subseteq Renewing \ {h}
  BY <1>5, <1>6 DEF Retrying, Renewing
<1>7. ASSUME stage'[h] \notin {"reading", "scheduling", "republishing"},
             copies' = copies, row'.attempts >= row.attempts
      PROVE  /\ copies' + Cardinality(Retrying') <= row'.attempts + 1
             /\ copies' + Cardinality(Renewing') <= MaxRetries + 1
  <2>1. /\ Cardinality(Retrying') <= Cardinality(Retrying)
        /\ Cardinality(Renewing') <= Cardinality(Renewing)
    BY <1>3, <1>6, <1>7, NoMore
  <2> QED
    BY <1>2, <1>4, <1>7, <2>1
<1>8. CASE \/ Accept(h) \/ Decline(h) \/ Defer(h) \/ Break(h) \/ ReadFails(h)
           \/ DeadLetter(h) \/ Retry(h) \/ Bury(h) \/ Settle(h)
  <2>1. /\ stage'[h] \notin {"reading", "scheduling", "republishing"}
        /\ copies' = copies /\ row' = row
    BY <1>8 DEF Accept, Decline, Defer, Break, ReadFails, DeadLetter, Retry,
       Bury, Settle, Raise, GoTo, broker, TypeOK
  <2> QED
    BY <1>4, <1>7, <2>1
<1>9. CASE Store(h) \/ StoreFails(h)
  <2>1. /\ stage[h] \in Storing /\ copies' = copies
        /\ row' \in {row, Effect(h)}
    BY <1>9 DEF Store, StoreFails, broker
  <2>2. row' = Effect(h) =>
          /\ stage[h] \in {"counting", "scheduling"}
          /\ row'.attempts = row.attempts + IF stage[h] = "counting" THEN 1 ELSE 0
    BY <1>4, <2>1 DEF Effect, Storing
  <2>3. row'.attempts >= row.attempts
    BY <1>4, <2>1, <2>2
  <2>4. CASE StoreFails(h)
    <3>1. stage'[h] \notin {"reading", "scheduling", "republishing"}
      BY <2>4 DEF StoreFails, Raise, GoTo, TypeOK
    <3> QED
      BY <1>7, <2>1, <2>3, <3>1
  <2>5. CASE Store(h)
    <3>1. row' = Effect(h) /\ stage'[h] = AfterStore(stage[h])
      BY <2>5 DEF Store, GoTo, TypeOK
    <3>2. CASE stage[h] = "counting"
      <4>1. stage'[h] = "reading"
        BY <3>1, <3>2 DEF AfterStore
      <4>2. Retrying' \subseteq Retrying \cup {h} /\ Renewing' \subseteq Renewing
        BY <1>5, <4>1 DEF Retrying, Renewing
      <4>3. /\ Cardinality(Retrying') <= Cardinality(Retrying) + 1
            /\ Cardinality(Renewing') <= Cardinality(Renewing)
        BY <1>3, <4>2, OneMore, NoMore
      <4> QED
        BY <1>2, <1>4, <2>1, <2>2, <3>1, <3>2, <4>3
    <3>3. CASE stage[h] = "scheduling"
      <4>1. stage'[h] = "republishing"
        BY <3>1, <3>3 DEF AfterStore
      <4>2. Retrying' \subseteq Retrying /\ Renewing' \subseteq Renewing
        BY <1>5, <3>3, <4>1 DEF Retrying, Renewing
      <4>3. /\ Cardinality(Retrying') <= Cardinality(Retrying)
            /\ Cardinality(Renewing') <= Cardinality(Renewing)
        BY <1>3, <4>2, NoMore
      <4> QED
        BY <1>2, <1>4, <2>1, <2>3, <4>3
    <3> QED
      BY <2>2, <3>1, <3>2, <3>3
  <2> QED
    BY <1>9, <2>4, <2>5
<1>10. CASE ReadAttempts(h)
  <2>1. stage[h] = "reading" /\ copies' = copies /\ row' = row
    BY <1>10 DEF ReadAttempts, broker
  <2>2. CASE stage'[h] = "scheduling"
    <3>1. row.attempts <= MaxRetries
      BY <1>4, <1>10, <2>2 DEF ReadAttempts, GoTo, TypeOK
    <3>2. h \in Retrying /\ Renewing \in SUBSET (Retrying \ {h})
      BY <2>1 DEF Retrying, Renewing
    <3>3. Retrying' \subseteq Retrying /\ Renewing' \subseteq Renewing \cup {h}
      BY <1>5, <2>2, <3>2 DEF Retrying, Renewing
    <3>4. /\ Cardinality(Renewing) + 1 <= Cardinality(Retrying)
          /\ Cardinality(Retrying') <= Cardinality(Retrying)
          /\ Cardinality(Renewing') <= Cardinality(Renewing) + 1
      BY <1>3, <3>2, <3>3, OneLess, OneMore, NoMore
    <3> QED
      BY <1>2, <1>4, <2>1, <3>1, <3>4
  <2>3. CASE stage'[h] # "scheduling"
    <3>1. stage'[h] \notin {"reading", "scheduling", "republishing"}
      BY <1>10, <2>3 DEF ReadAttempts, Raise, GoTo, TypeOK
    <3> QED
      BY <1>4, <1>7, <2>1, <3>1
  <2> QED
    BY <2>2, <2>3
<1>11. CASE Republish(h) \/ PublishFails(h)
  <2>1. /\ row' = row
        /\ stage'[h] \notin {"reading", "scheduling", "republishing"}
        /\ \/ copies' = copies
           \/ copies' = copies + 1 /\ stage[h] = "republishing"
    BY <1>11 DEF Republish, PublishFails, AddCopy, Raise, GoTo, broker, TypeOK
  <2>2. CASE copies' = copies
    BY <1>4, <1>7, <2>1, <2>2
  <2>3. CASE copies' = copies + 1 /\ stage[h] = "republishing"
    <3>1. h \in Retrying /\ h \in Renewing
      BY <2>3 DEF Retrying, Renewing
    <3>2. /\ Cardinality(Retrying') + 1 <= Cardinality(Retrying)
          /\ Cardinality(Renewing') + 1 <= Cardinality(Renewing)
      BY <1>3, <1>6, <2>1, <3>1, OneLess
    <3> QED
      BY <1>2, <1>4, <2>1, <2>3, <3>2
  <2> QED
    BY <2>1, <2>2, <2>3
<1> QED
  BY <1>8, <1>9, <1>10, <1>11 DEF Handle

LEMMA NextCopies ==
    ASSUME TypeOK, PublishedAreQueued, CopiesInv, [Next]_vars
    PROVE  CopiesInv'
<1>1. CASE \/ \E n \in Message : Deliver(n) \/ DelayPasses(n)
           \/ Disconnect \/ Crash \/ Restart \/ UNCHANGED vars
  <2>1. Retrying' \subseteq Retrying /\ Renewing' \subseteq Renewing
    BY <1>1, AroundTheHandlers DEF Retrying, Renewing
  <2>2. /\ Cardinality(Retrying') <= Cardinality(Retrying)
        /\ Cardinality(Renewing') <= Cardinality(Renewing)
        /\ Cardinality(Retrying) \in Nat /\ Cardinality(Retrying') \in Nat
        /\ Cardinality(Renewing) \in Nat /\ Cardinality(Renewing') \in Nat
    <3>1. Retrying \subseteq Delivery /\ Renewing \subseteq Delivery
      BY DEF Retrying, Renewing
    <3>2. Retrying' \subseteq Delivery /\ Renewing' \subseteq Delivery
      BY <2>1, <3>1
    <3> QED
      BY <2>1, <3>1, <3>2, NoMore, DeliveriesAreFinite
  <2>3. row' = row /\ copies' = copies /\ copies \in Nat /\ row.attempts \in Nat
    BY <1>1, AroundTheHandlers, SmsWorkerAssumption DEF TypeOK, Message, Row
  <2> QED
    BY <2>2, <2>3, SmsWorkerAssumption DEF CopiesInv
<1> QED
  BY <1>1, StepKinds, HandlerKeepsCopies

(* While the row is open the attempts counted in it, and MaxRetries, bound *)
(* the copies, for any interleaving of handlers, redeliveries and          *)
(* mishaps; without mishaps MaxRetries bounds them for good.               *)
THEOREM RetriesAreBoundedHolds == Spec => []RetriesAreBounded
<1>1. PendingInv => TypeOK /\ PublishedAreQueued
  BY DEF PendingInv
<1>2. TypeOK /\ PublishedAreQueued /\ CopiesInv /\ [Next]_vars => CopiesInv'
  BY NextCopies
<1>3. TypeOK /\ CopiesInv /\ WithoutMishaps => RetriesAreBounded
  <2> SUFFICES ASSUME TypeOK, CopiesInv, row.status = "pending"
               PROVE  copies <= row.attempts + 1 /\ copies <= MaxRetries + 1
    BY DEF RetriesAreBounded, WithoutMishaps
  <2>1. Cardinality(Retrying) \in Nat /\ Cardinality(Renewing) \in Nat
    BY DeliveriesAreFinite DEF Retrying, Renewing
  <2>2. copies \in Nat /\ row.attempts \in Nat
    BY SmsWorkerAssumption DEF TypeOK, Message, Row
  <2> QED
    BY <2>1, <2>2, SmsWorkerAssumption DEF CopiesInv
<1> QED
  BY <1>1, <1>2, <1>3, InitCopies, InvariantHolds, WithoutMishapsHolds, PTL
  DEF Spec

-----------------------------------------------------------------------------
(* The SMS.  What may still send one without a further failure is a        *)
(* handler on its way, or a message that waits for its first delivery; a   *)
(* message that was taken back is paid for by the mishap behind it, once,  *)
(* and then by each of its deliveries.                                     *)

Live ==
    {h \in Delivery :
        \/ stage[h] \in {"posting", "counting", "reading", "scheduling",
                         "republishing", "sleeping"}
        \/ h[2] = 1 /\ stage[h] = "idle" /\ queue[h[1]] = "ready"}

TakenBack ==
    \E n \in Message :
        delivered[n] >= 2 \/ (delivered[n] >= 1 /\ queue[n] = "ready")

SmsInv ==
    posted + Cardinality(Live) + (IF TakenBack THEN 1 ELSE 0)
        <= 1 + mishaps + Cardinality(Redelivered)

(* The deliveries made so far are those that have a handler.               *)
DeliveriesInv ==
    /\ \A h \in Delivery : stage[h] = "idle" <=> h[2] > delivered[h[1]]
    /\ \A n \in Message : queue[n] = "unacked" => delivered[n] >= 1

LEMMA InitDeliveries == Init => DeliveriesInv
BY DeliveryParts, SmsWorkerAssumption DEF Init, DeliveriesInv

(* A handler takes no message; it may publish one, in the next free place. *)
LEMMA HandlerTakesNothing ==
    ASSUME TypeOK, PublishedAreQueued, NEW h \in Delivery, Handle(h)
    PROVE  /\ delivered' = delivered
           /\ \A n \in Message : queue'[n] = "unacked" => queue[n] = "unacked"
           /\ \A n \in Message : queue'[n] = "ready" =>
                \/ queue[n] = "ready"
                \/ AddCopy /\ n = copies + 1 /\ stage[h] = "republishing"
<1>1. CASE AddCopy /\ stage[h] = "republishing"
  BY <1>1 DEF AddCopy, TypeOK
<1>2. CASE Settle(h)
  BY <1>2, DeliveryParts DEF Settle, TypeOK
<1>3. CASE UNCHANGED broker
  BY <1>3 DEF broker
<1>4. (AddCopy /\ stage[h] = "republishing") \/ Settle(h) \/ UNCHANGED broker
  BY DEF Handle, Accept, Decline, Defer, Break, Store, StoreFails, ReadAttempts,
     ReadFails, Republish, DeadLetter, PublishFails, Retry, Bury
<1> QED
  BY <1>1, <1>2, <1>3, <1>4

LEMMA NextDeliveries ==
    ASSUME TypeOK, PublishedAreQueued, DeliveriesInv, [Next]_vars
    PROVE  DeliveriesInv'
<1> USE SmsWorkerAssumption, DeliveryParts
<1>1. ASSUME NEW n \in Message, Deliver(n) PROVE DeliveriesInv'
  <2> DEFINE g == <<n, delivered[n] + 1>>
  <2>1. /\ delivered' = [delivered EXCEPT ![n] = delivered[n] + 1]
        /\ stage' = [stage EXCEPT ![g] = "posting"]
        /\ queue' = [queue EXCEPT ![n] = "unacked"]
        /\ delivered[n] \in 0 .. MaxDeliveries /\ delivered[n] < MaxDeliveries
    BY <1>1 DEF Deliver, GoTo, TypeOK
  <2>2. g \in Delivery /\ g[1] = n /\ g[2] = delivered[n] + 1
    BY <2>1 DEF Delivery
  <2>3. ASSUME NEW h \in Delivery PROVE stage'[h] = "idle" <=> h[2] > delivered'[h[1]]
    <3>1. CASE h = g
      BY <2>1, <2>2, <3>1 DEF TypeOK
    <3>2. CASE h # g /\ h[1] = n
      <4>1. h[2] # delivered[n] + 1 /\ h[2] \in Nat
        BY <3>2
      <4>2. stage'[h] = stage[h] /\ delivered'[h[1]] = delivered[n] + 1
        BY <2>1, <3>2 DEF TypeOK
      <4>3. stage[h] = "idle" <=> h[2] > delivered[n]
        BY <3>2 DEF DeliveriesInv
      <4> QED
        BY <2>1, <4>1, <4>2, <4>3
    <3>3. CASE h[1] # n
      BY <2>1, <2>2, <3>3 DEF TypeOK, DeliveriesInv
    <3> QED
      BY <3>1, <3>2, <3>3
  <2>4. \A m \in Message : queue'[m] = "unacked" => delivered'[m] >= 1
    BY <2>1 DEF TypeOK, DeliveriesInv
  <2> QED
    BY <2>3, <2>4 DEF DeliveriesInv
<1>2. ASSUME NEW n \in Message, DelayPasses(n) PROVE DeliveriesInv'
  BY <1>2 DEF DelayPasses, DeliveriesInv, TypeOK
<1>3. ASSUME NEW h \in Delivery, Handle(h) PROVE DeliveriesInv'
  <2>1. \A g \in Delivery : stage'[g] = "idle" <=> stage[g] = "idle"
    BY <1>3, HandlerMovesItself DEF TypeOK, Running
  <2>2. delivered' = delivered /\ \A n \in Message : queue'[n] = "unacked" => queue[n] = "unacked"
    BY <1>3, HandlerTakesNothing
  <2> QED
    BY <2>1, <2>2 DEF DeliveriesInv
<1>4. CASE Disconnect \/ Crash \/ Restart
  <2>1. /\ delivered' = delivered
        /\ \A n \in Message : queue'[n] # "unacked"
    BY <1>4 DEF Disconnect, Crash, Requeue, Restart, TypeOK
  <2>2. \A g \in Delivery : stage'[g] = "idle" <=> stage[g] = "idle"
    BY <1>4 DEF Disconnect, Crash, Restart, Running
  <2> QED
    BY <2>1, <2>2 DEF DeliveriesInv
<1>5. CASE UNCHANGED vars
  BY <1>5 DEF vars, DeliveriesInv
<1> QED
  BY <1>1, <1>2, <1>3, <1>4, <1>5, StepKinds

LEMMA InitSms == Init => SmsInv
<1> SUFFICES ASSUME Init PROVE SmsInv
  OBVIOUS
<1> USE SmsWorkerAssumption
<1>1. Live \subseteq {<<1, 1>>}
  BY DeliveryParts DEF Init, Live
<1>2. <<1, 1>> \in Delivery /\ {} \subseteq Delivery /\ Live \subseteq Delivery
  BY DEF Delivery, Message, Live
<1>3. Cardinality(Live) <= Cardinality({}) + 1 /\ Cardinality(Live) \in Nat
  BY <1>1, <1>2, OneMore, DeliveriesAreFinite
<1>4. Redelivered = {} /\ ~TakenBack
  BY DEF Init, Redelivered, TakenBack
<1> QED
  BY <1>3, <1>4, FS_EmptySet DEF Init, SmsInv

(* What a handler step does to the SMS and the mishaps: an SMS, or a new   *)
(* member of Live, takes the place of one, or has a mishap of its own.     *)
LEMMA HandlerKeepsSum ==
    ASSUME TypeOK, PublishedAreQueued, HandledArePublished, DeliveriesInv,
           NEW h \in Delivery, Handle(h)
    PROVE  posted' + Cardinality(Live') + mishaps
             <= posted + Cardinality(Live) + mishaps'
<1> USE SmsWorkerAssumption
<1>1. /\ Live \subseteq Delivery /\ Live' \subseteq Delivery
      /\ Cardinality(Live) \in Nat /\ Cardinality(Live') \in Nat
      /\ posted \in Nat /\ mishaps \in Nat
  <2>1. Live \subseteq Delivery /\ Live' \subseteq Delivery
    BY DEF Live
  <2> QED
    BY <2>1, DeliveriesAreFinite DEF TypeOK
<1>2. \A g \in Delivery : g # h => stage'[g] = stage[g]
  BY HandlerMovesItself DEF TypeOK
<1>3. stage[h] # "idle" /\ stage'[h] # "idle"
  BY HandlerMovesItself DEF Running
<1>4. ASSUME queue' = queue \/ Settle(h)
      PROVE  Live' \subseteq Live \cup {h}
  <2>1. \A n \in Message : queue'[n] = "ready" => queue[n] = "ready"
    BY <1>4, DeliveryParts DEF Settle, TypeOK
  <2> QED
    BY <1>2, <2>1, DeliveryParts DEF Live
<1>5. ASSUME Live' \subseteq Live \cup {h}, h \in Live' => h \in Live
      PROVE  Cardinality(Live') <= Cardinality(Live)
  BY <1>1, <1>5, NoMore
<1>6. CASE Accept(h)
  <2>1. /\ stage[h] = "posting" /\ stage'[h] = "delivering"
        /\ posted' = posted + 1 /\ queue' = queue /\ mishaps' = mishaps
    BY <1>6 DEF Accept, GoTo, broker, TypeOK
  <2>2. h \in Live /\ Live' \in SUBSET (Live \ {h})
    BY <1>4, <2>1 DEF Live
  <2> QED
    BY <1>1, <2>1, <2>2, OneLess
<1>7. CASE Decline(h) \/ Defer(h) \/ Break(h)
  <2>1. /\ stage[h] = "posting" /\ queue' = queue
        /\ \/ posted' = posted /\ mishaps' = mishaps
           \/ posted' = posted + 1 /\ mishaps' = mishaps + 1
    BY <1>7 DEF Decline, Defer, Break, Mishap, broker
  <2>2. h \in Live
    BY <2>1 DEF Live
  <2> QED
    BY <1>1, <1>4, <1>5, <2>1, <2>2
<1>8. CASE Store(h) \/ ReadAttempts(h) \/ DeadLetter(h) \/ Retry(h)
           \/ Bury(h) \/ Settle(h)
  <2>1. /\ posted' = posted /\ mishaps' \in {mishaps, mishaps + 1}
        /\ queue' = queue \/ Settle(h)
    BY <1>8 DEF Store, ReadAttempts, DeadLetter, Retry, Bury, Mishap, Settle,
       broker
  <2>2. h \in Live' => h \in Live
    <3>1. CASE Store(h)
      BY <1>3, <3>1 DEF Store, Storing, AfterStore, GoTo, TypeOK, Live
    <3>2. CASE ReadAttempts(h) \/ Retry(h)
      BY <1>3, <3>2 DEF ReadAttempts, Retry, Live
    <3>3. CASE DeadLetter(h) \/ Bury(h) \/ Settle(h)
      BY <1>3, <3>3 DEF DeadLetter, Bury, Settle, GoTo, TypeOK, Live
    <3> QED
      BY <1>8, <3>1, <3>2, <3>3
  <2> QED
    BY <1>1, <1>4, <1>5, <2>1, <2>2
<1>9. CASE StoreFails(h) \/ ReadFails(h)
  <2>1. posted' = posted /\ mishaps' = mishaps + 1 /\ queue' = queue
    BY <1>9 DEF StoreFails, ReadFails, Mishap, broker
  <2> QED
    BY <1>1, <1>4, <2>1, OneMore
<1>10. CASE Republish(h) \/ PublishFails(h)
  <2>1. /\ posted' = posted
        /\ \/ mishaps' = mishaps /\ stage'[h] = "acking"
           \/ mishaps' = mishaps + 1
        /\ \/ queue' = queue /\ mishaps' = mishaps + 1
           \/ AddCopy /\ stage[h] = "republishing"
    BY <1>10 DEF Republish, PublishFails, Mishap, GoTo, broker, TypeOK
  <2>2. CASE queue' = queue /\ mishaps' = mishaps + 1
    BY <1>1, <1>4, <2>1, <2>2, OneMore
  <2>3. CASE AddCopy /\ stage[h] = "republishing"
    <3> DEFINE c == <<copies + 1, 1>>
    <3>1. copies + 1 \in Message /\ c \in Delivery /\ c[1] = copies + 1 /\ c[2] = 1
      BY <2>3, CopyIsNew DEF AddCopy, Delivery
    <3>2. Live' \subseteq Live \cup {h} \cup {c}
      <4>1. \A n \in Message : queue'[n] = "ready" =>
              queue[n] = "ready" \/ n = copies + 1
        BY HandlerTakesNothing
      <4> QED
        BY <1>2, <4>1, DeliveryParts DEF Live
    <3>3. h \in Live
      BY <2>3 DEF Live
    <3>4. CASE mishaps' = mishaps + 1
      <4>1. Live' \subseteq Live \cup {c}
        BY <3>2, <3>3
      <4>2. Cardinality(Live') <= Cardinality(Live) + 1
        BY <1>1, <3>1, <4>1, OneMore
      <4> QED
        BY <1>1, <2>1, <3>4, <4>2
    <3>5. CASE mishaps' = mishaps /\ stage'[h] = "acking"
      <4>1. h \notin Live'
        BY <3>5 DEF Live
      <4>2. Live \ {h} \subseteq Delivery /\ Live' \subseteq (Live \ {h}) \cup {c}
        BY <1>1, <3>2, <4>1
      <4>3. Cardinality(Live') <= Cardinality(Live \ {h}) + 1
        BY <1>1, <3>1, <4>2, OneMore
      <4>4. Cardinality(Live \ {h}) + 1 <= Cardinality(Live)
        BY <1>1, <3>3, OneLess
      <4>5. Cardinality(Live \ {h}) \in Nat
        BY <4>2, DeliveriesAreFinite
      <4> QED
        BY <1>1, <2>1, <3>5, <4>3, <4>4, <4>5
    <3> QED
      BY <1>1, <2>1, <3>4, <3>5
  <2> QED
    BY <2>1, <2>2, <2>3
<1> QED
  BY <1>6, <1>7, <1>8, <1>9, <1>10 DEF Handle

(* A handler makes no delivery and takes no message back.                  *)
LEMMA HandlerTakesNoneBack ==
    ASSUME TypeOK, PublishedAreQueued, HandledArePublished, DeliveriesInv,
           NEW h \in Delivery, Handle(h)
    PROVE  Redelivered' = Redelivered /\ (TakenBack' => TakenBack)
<1> USE SmsWorkerAssumption
<1>1. \A g \in Delivery : stage'[g] = "idle" <=> stage[g] = "idle"
  BY HandlerMovesItself DEF TypeOK, Running
<1>2. Redelivered' = Redelivered
  BY <1>1 DEF Redelivered
<1>3. ASSUME AddCopy, copies + 1 \in Message PROVE delivered[copies + 1] = 0
  <2> DEFINE c == <<copies + 1, 1>>
  <2>1. c \in Delivery /\ c[1] = copies + 1 /\ c[2] = 1
    BY <1>3 DEF Delivery
  <2>2. copies \in Nat /\ ~(copies + 1 <= copies)
    BY DEF TypeOK, Message
  <2>3. stage[c] = "idle"
    BY <2>1, <2>2 DEF HandledArePublished
  <2>4. 1 > delivered[copies + 1] /\ delivered[copies + 1] \in Nat
    BY <1>3, <2>1, <2>3 DEF DeliveriesInv, TypeOK
  <2> QED
    BY <2>4
<1>4. ASSUME NEW n \in Message,
             delivered'[n] >= 2 \/ (delivered'[n] >= 1 /\ queue'[n] = "ready")
      PROVE  TakenBack
  <2>1. delivered' = delivered
    BY HandlerTakesNothing
  <2>2. queue'[n] = "ready" =>
          queue[n] = "ready" \/ (AddCopy /\ n = copies + 1)
    BY HandlerTakesNothing
  <2>3. AddCopy /\ n = copies + 1 => ~(delivered[n] >= 1)
    BY <1>3
  <2> QED
    BY <1>4, <2>1, <2>2, <2>3 DEF TakenBack
<1> QED
  BY <1>2, <1>4 DEF TakenBack

LEMMA NextSms ==
    ASSUME TypeOK, PublishedAreQueued, HandledArePublished, DeliveriesInv,
           SmsInv, [Next]_vars
    PROVE  SmsInv'
<1> USE SmsWorkerAssumption
<1> DEFINE Owed == IF TakenBack THEN 1 ELSE 0
<1>1. /\ Live \subseteq Delivery /\ Live' \subseteq Delivery
      /\ Redelivered \subseteq Delivery /\ Redelivered' \subseteq Delivery
      /\ Cardinality(Live) \in Nat /\ Cardinality(Live') \in Nat
      /\ Cardinality(Redelivered) \in Nat /\ Cardinality(Redelivered') \in Nat
      /\ posted \in Nat /\ mishaps \in Nat
  <2>1. /\ Live \subseteq Delivery /\ Live' \subseteq Delivery
        /\ Redelivered \subseteq Delivery /\ Redelivered' \subseteq Delivery
    BY DEF Live, Redelivered
  <2> QED
    BY <2>1, DeliveriesAreFinite DEF TypeOK
<1>2. posted + Cardinality(Live) + Owed <= 1 + mishaps + Cardinality(Redelivered)
  BY DEF SmsInv
<1>3. Owed \in {0, 1} /\ Owed' \in {0, 1} /\ (TakenBack <=> Owed = 1)
      /\ (TakenBack' <=> Owed' = 1)
  OBVIOUS
<1> SUFFICES posted' + Cardinality(Live') + Owed'
               <= 1 + mishaps' + Cardinality(Redelivered')
  BY DEF SmsInv
<1> HIDE DEF Owed
<1>4. ASSUME NEW h \in Delivery, Handle(h)
      PROVE  posted' + Cardinality(Live') + Owed'
               <= 1 + mishaps' + Cardinality(Redelivered')
  <2>1. /\ posted' + Cardinality(Live') + mishaps
             <= posted + Cardinality(Live) + mishaps'
        /\ Redelivered' = Redelivered /\ (TakenBack' => TakenBack)
    BY <1>4, HandlerKeepsSum, HandlerTakesNoneBack
  <2>2. posted' \in Nat /\ mishaps' \in Nat
    <3>1. CASE Accept(h) \/ Decline(h) \/ Defer(h) \/ Break(h)
      BY <1>1, <3>1 DEF Accept, Decline, Defer, Break, Mishap
    <3>2. CASE Store(h) \/ StoreFails(h) \/ ReadAttempts(h) \/ ReadFails(h)
      BY <1>1, <3>2 DEF Store, StoreFails, ReadAttempts, ReadFails, Mishap
    <3>3. CASE Republish(h) \/ DeadLetter(h) \/ PublishFails(h)
      BY <1>1, <3>3 DEF Republish, DeadLetter, PublishFails, Mishap
    <3>4. CASE Retry(h) \/ Bury(h) \/ Settle(h)
      BY <1>1, <3>4 DEF Retry, Bury, Settle, Mishap
    <3> QED
      BY <1>4, <3>1, <3>2, <3>3, <3>4 DEF Handle
  <2>3. Owed' <= Owed
    BY <1>3, <2>1
  <2> QED
    BY <1>1, <1>2, <1>3, <2>1, <2>2, <2>3
<1>5. ASSUME NEW n \in Message, Deliver(n)
      PROVE  posted' + Cardinality(Live') + Owed'
               <= 1 + mishaps' + Cardinality(Redelivered')
  <2> DEFINE g == <<n, delivered[n] + 1>>
  <2>1. /\ delivered' = [delivered EXCEPT ![n] = delivered[n] + 1]
        /\ stage' = [stage EXCEPT ![g] = "posting"]
        /\ queue' = [queue EXCEPT ![n] = "unacked"]
        /\ delivered[n] \in 0 .. MaxDeliveries /\ delivered[n] < MaxDeliveries
        /\ posted' = posted /\ mishaps' = mishaps /\ queue[n] = "ready"
    BY <1>5 DEF Deliver, GoTo, TypeOK
  <2>2. g \in Delivery /\ g[1] = n /\ g[2] = delivered[n] + 1
    BY <2>1 DEF Delivery
  <2>3. stage[g] = "idle"
    BY <2>1, <2>2 DEF DeliveriesInv
  <2>4. Live' \subseteq Live \cup {g}
    <3>1. \A m \in Message : queue'[m] = "ready" => queue[m] = "ready"
      BY <2>1 DEF TypeOK
    <3>2. \A h \in Delivery : h # g => stage'[h] = stage[h]
      BY <2>1 DEF TypeOK
    <3> QED
      BY <3>1, <3>2, DeliveryParts DEF Live
  <2>5. CASE delivered[n] = 0
    <3>1. g \in Live
      BY <2>1, <2>2, <2>3, <2>5 DEF Live
    <3>2. Cardinality(Live') <= Cardinality(Live)
      BY <1>1, <2>4, <3>1, NoMore
    <3>3. Redelivered' = Redelivered
      BY <2>1, <2>2, <2>5 DEF Redelivered, TypeOK
    <3>4. TakenBack' => TakenBack
      <4>1. ASSUME NEW m \in Message,
                   delivered'[m] >= 2 \/ (delivered'[m] >= 1 /\ queue'[m] = "ready")
            PROVE  TakenBack
        <5>1. m # n
          BY <2>1, <2>5, <4>1 DEF TypeOK
        <5>2. delivered'[m] = delivered[m] /\ queue'[m] = queue[m]
          BY <2>1, <5>1 DEF TypeOK
        <5> QED
          BY <4>1, <5>2 DEF TakenBack
      <4> QED
        BY <4>1 DEF TakenBack
    <3>5. Owed' <= Owed
      BY <1>3, <3>4
    <3> QED
      BY <1>1, <1>2, <1>3, <2>1, <3>2, <3>3, <3>5
  <2>6. CASE delivered[n] >= 1
    <3>1. TakenBack
      BY <2>1, <2>6 DEF TakenBack
    <3>2. Cardinality(Live') <= Cardinality(Live) + 1
      BY <1>1, <2>2, <2>4, OneMore
    <3>3. g \notin Redelivered /\ g \in Redelivered'
      BY <2>1, <2>2, <2>3, <2>6 DEF Redelivered, TypeOK
    <3>4. Redelivered \in SUBSET (Redelivered' \ {g})
      BY <2>1, <3>3 DEF Redelivered, TypeOK
    <3>5. Cardinality(Redelivered) + 1 <= Cardinality(Redelivered')
      BY <1>1, <3>3, <3>4, OneLess
    <3> QED
      BY <1>1, <1>2, <1>3, <2>1, <3>1, <3>2, <3>5
  <2> QED
    BY <2>1, <2>5, <2>6
<1>6. ASSUME UNCHANGED <<posted, delivered>>,
             \A h \in Delivery : (stage'[h] = "idle" <=> stage[h] = "idle")
                /\ (stage'[h] # stage[h] => stage'[h] = "dead"),
             \A m \in Message : queue'[m] = "ready" =>
                queue[m] = "ready" \/ (queue[m] = "unacked" /\ mishaps' = mishaps + 1),
             mishaps' = mishaps \/ mishaps' = mishaps + 1
      PROVE  posted' + Cardinality(Live') + Owed'
               <= 1 + mishaps' + Cardinality(Redelivered')
  <2>1. Redelivered' = Redelivered
    BY <1>6 DEF Redelivered
  <2>2. Live' \subseteq Live
    <3>1. ASSUME NEW h \in Delivery, h[2] = 1, stage[h] = "idle"
          PROVE  queue[h[1]] # "unacked"
      <4>1. 1 > delivered[h[1]] /\ delivered[h[1]] \in Nat
        BY <3>1, DeliveryParts DEF DeliveriesInv, TypeOK
      <4> QED
        BY <4>1, DeliveryParts DEF DeliveriesInv
    <3> QED
      BY <1>6, <3>1, DeliveryParts DEF Live
  <2>3. Cardinality(Live') <= Cardinality(Live)
    BY <1>1, <2>2, NoMore
  <2>4. mishaps' = mishaps => (TakenBack' => TakenBack)
    BY <1>1, <1>6 DEF TakenBack
  <2> QED
    BY <1>1, <1>2, <1>3, <1>6, <2>1, <2>3, <2>4
<1>7. ASSUME NEW n \in Message, DelayPasses(n)
      PROVE  posted' + Cardinality(Live') + Owed'
               <= 1 + mishaps' + Cardinality(Redelivered')
  BY <1>6, <1>7 DEF DelayPasses, TypeOK
<1>8. CASE Disconnect \/ Crash \/ Restart
  <2>1. /\ UNCHANGED <<posted, delivered>> /\ mishaps' = mishaps + 1
        /\ \A m \in Message : queue'[m] = "ready" =>
             queue[m] = "ready" \/ queue[m] = "unacked"
    BY <1>8 DEF Disconnect, Crash, Requeue, Restart, Mishap, TypeOK
  <2>2. \A h \in Delivery :
          /\ stage'[h] = "idle" <=> stage[h] = "idle"
          /\ stage'[h] # stage[h] => stage'[h] = "dead"
    BY <1>8 DEF Disconnect, Crash, Restart, Running
  <2> QED
    BY <1>6, <2>1, <2>2
<1>9. CASE UNCHANGED vars
  BY <1>6, <1>9 DEF vars
<1> QED
  BY <1>4, <1>5, <1>7, <1>8, <1>9, StepKinds

(* Each SMS after the first has a failure or a redelivery of its own, for  *)
(* any number of retries, copies, redeliveries and mishaps, and whatever   *)
(* the provider answers.                                                   *)
THEOREM SmsAreAccountedForHolds == Spec => []SmsAreAccountedFor
<1>1. PendingInv => TypeOK /\ PublishedAreQueued /\ HandledArePublished
  BY DEF PendingInv
<1>2. /\ TypeOK /\ PublishedAreQueued /\ DeliveriesInv /\ [Next]_vars
      => DeliveriesInv'
  BY NextDeliveries
<1>3. /\ TypeOK /\ PublishedAreQueued /\ HandledArePublished
      /\ DeliveriesInv /\ SmsInv /\ [Next]_vars
      => SmsInv'
  BY NextSms
<1>4. TypeOK /\ DeliveriesInv /\ SmsInv => SmsAreAccountedFor
  <2> SUFFICES ASSUME TypeOK, DeliveriesInv, SmsInv PROVE SmsAreAccountedFor
    OBVIOUS
  <2>1. /\ Cardinality(Live) \in Nat /\ Cardinality(Redelivered) \in Nat
        /\ posted \in Nat /\ mishaps \in Nat
    BY DeliveriesAreFinite DEF Live, Redelivered, TypeOK
  <2>2. Redelivered # {} => TakenBack
    <3>1. ASSUME NEW h \in Redelivered PROVE delivered[h[1]] >= 2 /\ h[1] \in Message
      <4>1. h \in Delivery /\ h[2] > 1 /\ ~(h[2] > delivered[h[1]])
        BY DEF Redelivered, DeliveriesInv
      <4>2. h[1] \in Message /\ delivered[h[1]] \in Nat /\ h[2] \in Nat
        BY <4>1, DeliveryParts DEF TypeOK
      <4> QED
        BY <4>1, <4>2
    <3> QED
      BY <3>1 DEF TakenBack
  <2>3. CASE Redelivered = {}
    <3>1. Cardinality(Redelivered) = 0
      BY <2>3, FS_EmptySet
    <3> QED
      BY <2>1, <2>3, <3>1 DEF SmsInv, SmsAreAccountedFor
  <2>4. CASE Redelivered # {}
    BY <2>1, <2>2, <2>4 DEF SmsInv, SmsAreAccountedFor
  <2> QED
    BY <2>3, <2>4
<1> QED
  BY <1>1, <1>2, <1>3, <1>4, InitDeliveries, InitSms, InvariantHolds, PTL
  DEF Spec
=============================================================================

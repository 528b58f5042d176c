-------------------------- MODULE LeadWorkerProofs --------------------------
(***************************************************************************)
(* What LeadWorker keeps for every set of messages and leads, every bound  *)
(* on attempts and deliveries, and every mix of failures.                  *)
(***************************************************************************)
EXTENDS LeadWorker, TLAPS

-----------------------------------------------------------------------------
(* The inductive invariant behind AtMostOncePerChannel.                    *)

UndeliveredAreIdle ==
    \A h \in Delivery : h[2] > delivered[h[1]] => stage[h] = "idle"

SleepersHaveAttempts ==
    \A h \in Delivery : stage[h] = "sleeping" => attempt[h] < MaxAttempts

(* The handler that stored a lead is the only one that may publish it.     *)
OnePublisher ==
    \A g, h \in Delivery :
        stage[g] = "publishing" /\ stage[h] = "publishing" /\ Lead(g) = Lead(h)
            => g = h

PublisherStored ==
    \A h \in Delivery : stage[h] = "publishing" => Lead(h) \in events

(* The channels from its next one on have nothing yet.                     *)
PublisherIsAhead ==
    \A h \in Delivery : stage[h] = "publishing" =>
        \A c \in Channel : c >= next[h] => copies[Lead(h)][c] = 0

DistributionInv ==
    /\ TypeOK /\ UndeliveredAreIdle /\ SleepersHaveAttempts
    /\ OnePublisher /\ PublisherStored /\ PublisherIsAhead
    /\ DistributionHasRow /\ AtMostOncePerChannel

-----------------------------------------------------------------------------

(* A delivery is a message and the number of one of its deliveries.        *)
LEMMA DeliveryParts ==
    ASSUME NEW h \in Delivery
    PROVE  /\ h[1] \in Msg /\ h[2] \in 1 .. MaxDeliveries
           /\ h = <<h[1], h[2]>> /\ Lead(h) \in Order
BY LeadWorkerAssumption DEF Delivery, Lead

LEMMA InitInv == Init => DistributionInv
BY LeadWorkerAssumption
DEF Init, DistributionInv, TypeOK, Stage, Channel, UndeliveredAreIdle,
    SleepersHaveAttempts, OnePublisher, PublisherStored, PublisherIsAhead,
    DistributionHasRow, AtMostOncePerChannel

(* Every step keeps the types, given that a sleeping handler has an        *)
(* attempt left.                                                           *)
LEMMA NextTypeOK ==
    ASSUME TypeOK, SleepersHaveAttempts, [Next]_vars
    PROVE  TypeOK'
<1> USE LeadWorkerAssumption, DeliveryParts
<1>1. ASSUME NEW m \in Msg, Deliver(m) PROVE TypeOK'
  <2>1. delivered' \in [Msg -> 0 .. MaxDeliveries]
    BY <1>1 DEF Deliver, TypeOK
  <2> QED
    BY <1>1, <2>1 DEF Deliver, TypeOK, Stage
<1>7. ASSUME NEW m \in Msg, Arrive(m) PROVE TypeOK'
  BY <1>7 DEF Arrive, TypeOK
<1>2. ASSUME NEW h \in Delivery, Handle(h) PROVE TypeOK'
  <2>1. CASE InsertLead(h)
    BY <2>1 DEF InsertLead, TypeOK, Stage, Channel
  <2>2. CASE InsertLeadFails(h)
    BY <2>2 DEF InsertLeadFails, Raise, TypeOK, Stage
  <2>3. ASSUME AddCopy(h) PROVE copies' \in [Order -> [Channel -> Nat]]
    BY <2>3 DEF AddCopy, TypeOK, Channel
  <2>4. CASE PublishChannel(h)
    <3>1. next' \in [Delivery -> Channel]
      BY <2>4 DEF PublishChannel, TypeOK, Channel
    <3> QED
      BY <2>3, <2>4, <3>1 DEF PublishChannel, TypeOK, Stage
  <2>5. CASE PublishChannelFails(h)
    BY <2>3, <2>5 DEF PublishChannelFails, Raise, TypeOK, Stage
  <2>6. CASE Commit(h) \/ CommitFails(h)
    BY <2>6 DEF Commit, CommitFails, Raise, TypeOK, Stage
  <2>7. CASE Retry(h)
    <3>1. attempt' \in [Delivery -> 1 .. MaxAttempts]
      BY <2>7 DEF Retry, TypeOK, SleepersHaveAttempts
    <3> QED
      BY <2>7, <3>1 DEF Retry, TypeOK, Stage
  <2>8. CASE Bury(h)
    BY <2>8 DEF Bury, TypeOK, Stage
  <2>9. CASE Settle(h)
    BY <2>9 DEF Settle, TypeOK, Stage, Gone
  <2> QED
    BY <1>2, <2>1, <2>2, <2>4, <2>5, <2>6, <2>7, <2>8, <2>9 DEF Handle
<1>3. CASE Disconnect
  BY <1>3 DEF Disconnect, Requeue, TypeOK
<1>4. CASE Crash
  BY <1>4 DEF Crash, Requeue, TypeOK, Stage
<1>5. CASE Restart
  BY <1>5 DEF Restart, TypeOK, Gone
<1>6. CASE UNCHANGED vars
  BY <1>6 DEF vars, TypeOK
<1> QED
  BY <1>1, <1>7, <1>2, <1>3, <1>4, <1>5, <1>6 DEF Next, Drained

(* Only a delivery touches the counter, and it wakes its own handler.      *)
LEMMA UndeliveredStayIdle ==
    ASSUME TypeOK, UndeliveredAreIdle, [Next]_vars
    PROVE  UndeliveredAreIdle'
<1> SUFFICES ASSUME NEW g \in Delivery, g[2] > delivered'[g[1]]
             PROVE  stage'[g] = "idle"
  BY DEF UndeliveredAreIdle
<1> USE DeliveryParts, LeadWorkerAssumption
<1>1. ASSUME NEW m \in Msg, Deliver(m) PROVE stage'[g] = "idle"
  <2>1. g # <<m, delivered[m] + 1>> /\ g[2] > delivered[g[1]]
    BY <1>1 DEF Deliver, TypeOK
  <2>2. stage[g] = "idle"
    BY <2>1 DEF UndeliveredAreIdle
  <2> QED
    BY <1>1, <2>1, <2>2 DEF Deliver, TypeOK
<1>2. ASSUME delivered' = delivered PROVE stage[g] = "idle"
  BY <1>2 DEF UndeliveredAreIdle
<1>3. ASSUME NEW h \in Delivery, Handle(h) PROVE stage'[g] = "idle"
  <2>1. /\ delivered' = delivered
        /\ stage[h] # "idle"
        /\ stage' = stage \/ \E x : stage' = [stage EXCEPT ![h] = x]
    BY <1>3 DEF Handle, InsertLead, InsertLeadFails, PublishChannel,
       PublishChannelFails, Commit, CommitFails, Retry, Bury, Settle, Raise
  <2> QED
    BY <1>2, <2>1 DEF TypeOK
<1>4. CASE Disconnect \/ Crash \/ Restart \/ \E m \in Msg : Arrive(m)
  BY <1>2, <1>4 DEF Disconnect, Crash, Restart, Arrive, Running, TypeOK
<1>5. CASE UNCHANGED vars
  BY <1>2, <1>5 DEF vars
<1> QED
  BY <1>1, <1>3, <1>4, <1>5 DEF Next, Drained

LEMMA SleepersKeepAttempts ==
    ASSUME TypeOK, SleepersHaveAttempts, UndeliveredAreIdle, [Next]_vars
    PROVE  SleepersHaveAttempts'
<1> SUFFICES ASSUME NEW g \in Delivery, stage'[g] = "sleeping"
             PROVE  attempt'[g] < MaxAttempts
  BY DEF SleepersHaveAttempts
<1> USE DeliveryParts, LeadWorkerAssumption
<1>1. ASSUME NEW m \in Msg, Deliver(m) PROVE attempt'[g] < MaxAttempts
  BY <1>1 DEF Deliver, TypeOK, SleepersHaveAttempts
<1>2. ASSUME NEW h \in Delivery, Handle(h) PROVE attempt'[g] < MaxAttempts
  <2>1. CASE \/ InsertLeadFails(h) \/ PublishChannelFails(h) \/ CommitFails(h)
    <3>1. Raise(h)
      BY <2>1 DEF InsertLeadFails, PublishChannelFails, CommitFails
    <3>2. attempt[h] \in 1 .. MaxAttempts
      BY DEF TypeOK
    <3>3. CASE g = h
      <4>1. stage'[h] = IF attempt[h] = MaxAttempts THEN "burying" ELSE "sleeping"
        BY <3>1 DEF Raise, TypeOK
      <4>2. attempt[h] # MaxAttempts
        BY <3>3, <4>1
      <4>3. attempt[h] < MaxAttempts
        BY <3>2, <4>2
      <4> QED
        BY <3>1, <3>3, <4>3 DEF Raise
    <3>4. CASE g # h
      BY <3>1, <3>4 DEF Raise, TypeOK, SleepersHaveAttempts
    <3> QED
      BY <3>3, <3>4
  <2>2. CASE Retry(h)
    BY <2>2 DEF Retry, TypeOK, SleepersHaveAttempts
  <2>3. CASE InsertLead(h) \/ PublishChannel(h) \/ Commit(h)
    BY <2>3 DEF InsertLead, PublishChannel, Commit, TypeOK, SleepersHaveAttempts
  <2>4. CASE Bury(h) \/ Settle(h)
    BY <2>4 DEF Bury, Settle, TypeOK, SleepersHaveAttempts
  <2> QED
    BY <1>2, <2>1, <2>2, <2>3, <2>4 DEF Handle
<1>3. CASE Disconnect \/ Crash \/ Restart \/ \E m \in Msg : Arrive(m)
  BY <1>3 DEF Disconnect, Crash, Restart, Arrive, TypeOK, SleepersHaveAttempts
<1>4. CASE UNCHANGED vars
  BY <1>4 DEF vars, SleepersHaveAttempts
<1> QED
  BY <1>1, <1>2, <1>3, <1>4 DEF Next, Drained

-----------------------------------------------------------------------------
(* Publishing.  A step either stores a lead, publishes for a handler that  *)
(* has stored it, or leaves events and copies alone and makes no handler a *)
(* publisher.                                                              *)

PublishParts ==
    /\ OnePublisher /\ PublisherStored /\ PublisherIsAhead
    /\ DistributionHasRow /\ AtMostOncePerChannel

(* Publishers may stop, none appears, and stored leads stay stored.        *)
NoNewPublisher ==
    /\ copies' = copies
    /\ events \subseteq events'
    /\ \A h \in Delivery : stage'[h] = "publishing" =>
         stage[h] = "publishing" /\ next'[h] = next[h]

(* One copy to h's next channel; h stops, or moves on to the one after.    *)
OneCopy(h) ==
    /\ stage[h] = "publishing" /\ AddCopy(h)
    /\ events' = events
    /\ stage'[h] = "publishing" => next'[h] = next[h] + 1
    /\ \A g \in Delivery \ {h} : stage'[g] = stage[g] /\ next'[g] = next[g]

LEMMA StepKinds ==
    ASSUME DistributionInv, [Next]_vars
    PROVE  \/ NoNewPublisher
           \/ \E h \in Delivery : OneCopy(h)
           \/ \E h \in Delivery : InsertLead(h) /\ Lead(h) \notin events
<1> USE DeliveryParts, LeadWorkerAssumption
<1> USE DEF DistributionInv
<1>1. ASSUME NEW m \in Msg, Deliver(m) PROVE NoNewPublisher
  BY <1>1 DEF Deliver, NoNewPublisher, TypeOK
<1>2. ASSUME NEW h \in Delivery, Handle(h)
      PROVE  NoNewPublisher \/ OneCopy(h) \/ (InsertLead(h) /\ Lead(h) \notin events)
  <2>1. CASE InsertLead(h) /\ Lead(h) \in events
    BY <2>1 DEF InsertLead, NoNewPublisher, TypeOK
  <2>2. CASE InsertLeadFails(h)
    BY <2>2 DEF InsertLeadFails, Raise, NoNewPublisher, TypeOK
  <2>3. CASE PublishChannel(h)
    BY <2>3 DEF PublishChannel, OneCopy, TypeOK
  <2>4. CASE PublishChannelFails(h)
    BY <2>4 DEF PublishChannelFails, Raise, OneCopy, NoNewPublisher, TypeOK
  <2>5. CASE Commit(h) \/ CommitFails(h) \/ Retry(h)
    BY <2>5 DEF Commit, CommitFails, Retry, Raise, NoNewPublisher, TypeOK
  <2>6. CASE Bury(h) \/ Settle(h)
    BY <2>6 DEF Bury, Settle, NoNewPublisher, TypeOK
  <2> QED
    BY <1>2, <2>1, <2>2, <2>3, <2>4, <2>5, <2>6 DEF Handle
<1>3. CASE Disconnect \/ Crash \/ Restart \/ \E m \in Msg : Arrive(m)
  BY <1>3 DEF Disconnect, Crash, Restart, Arrive, NoNewPublisher, TypeOK
<1>4. CASE UNCHANGED vars
  BY <1>4 DEF vars, NoNewPublisher
<1> QED
  BY <1>1, <1>2, <1>3, <1>4 DEF Next, Drained

LEMMA NoNewPublisherKeeps ==
    ASSUME DistributionInv, NoNewPublisher
    PROVE  PublishParts'
BY DEF DistributionInv, NoNewPublisher, PublishParts, OnePublisher,
   PublisherStored, PublisherIsAhead, DistributionHasRow, AtMostOncePerChannel,
   Lead

(* The channel that gets the copy had none, and no other handler counts on *)
(* it.                                                                     *)
LEMMA OneCopyKeeps ==
    ASSUME DistributionInv, NEW h \in Delivery, OneCopy(h)
    PROVE  PublishParts'
<1> USE DeliveryParts
<1>1. TypeOK /\ next[h] \in Channel /\ Lead(h) \in events
  BY DEF DistributionInv, TypeOK, OneCopy, PublisherStored
<1>2. copies[Lead(h)][next[h]] = 0
  BY <1>1 DEF DistributionInv, PublisherIsAhead, OneCopy, Channel
<1>3. /\ copies'[Lead(h)][next[h]] = 1
      /\ \A c \in Channel : c # next[h] =>
           copies'[Lead(h)][c] = copies[Lead(h)][c]
      /\ \A o \in Order : o # Lead(h) => copies'[o] = copies[o]
  BY <1>1, <1>2 DEF OneCopy, AddCopy, TypeOK
<1>4. OnePublisher'
  BY DEF DistributionInv, OneCopy, OnePublisher, Lead
<1>5. PublisherStored'
  BY DEF DistributionInv, OneCopy, PublisherStored, Lead
<1>6. PublisherIsAhead'
  <2> SUFFICES ASSUME NEW g \in Delivery, stage'[g] = "publishing",
                      NEW c \in Channel, c >= next'[g]
               PROVE  copies'[Lead(g)][c] = 0
    BY DEF PublisherIsAhead, Lead
  <2>1. CASE g = h
    BY <1>1, <1>3, <2>1 DEF DistributionInv, PublisherIsAhead, OneCopy, Channel
  <2>2. CASE g # h
    <3>1. Lead(g) # Lead(h)
      BY <2>2 DEF DistributionInv, OnePublisher, OneCopy
    <3> QED
      BY <1>3, <2>2, <3>1 DEF DistributionInv, PublisherIsAhead, OneCopy
  <2> QED
    BY <2>1, <2>2
<1>7. DistributionHasRow'
  BY <1>1, <1>3 DEF DistributionInv, DistributionHasRow, OneCopy
<1>8. AtMostOncePerChannel'
  <2> SUFFICES ASSUME NEW o \in Order, NEW c \in Channel PROVE copies'[o][c] <= 1
    BY DEF AtMostOncePerChannel
  <2> QED
    BY <1>3 DEF DistributionInv, AtMostOncePerChannel
<1> QED
  BY <1>4, <1>5, <1>6, <1>7, <1>8 DEF PublishParts

(* A lead stored for the first time has no publisher and no copy.          *)
LEMMA InsertLeadKeeps ==
    ASSUME DistributionInv, NEW h \in Delivery, InsertLead(h), Lead(h) \notin events
    PROVE  PublishParts'
<1> USE DeliveryParts
<1>1. /\ TypeOK /\ copies' = copies /\ events' = events \cup {Lead(h)}
      /\ \A g \in Delivery \ {h} : stage'[g] = stage[g] /\ next'[g] = next[g]
  BY DEF DistributionInv, InsertLead, TypeOK
<1>2. \A g \in Delivery \ {h} : stage[g] = "publishing" => Lead(g) # Lead(h)
  BY DEF DistributionInv, PublisherStored
<1>3. \A c \in Channel : copies[Lead(h)][c] = 0
  BY <1>1 DEF DistributionInv, DistributionHasRow, TypeOK
<1>4. OnePublisher'
  BY <1>1, <1>2 DEF DistributionInv, OnePublisher, Lead
<1>5. PublisherStored'
  BY <1>1 DEF DistributionInv, PublisherStored, Lead
<1>6. PublisherIsAhead'
  <2> SUFFICES ASSUME NEW g \in Delivery, stage'[g] = "publishing",
                      NEW c \in Channel, c >= next'[g]
               PROVE  copies[Lead(g)][c] = 0
    BY <1>1 DEF PublisherIsAhead, Lead
  <2> QED
    BY <1>1, <1>3 DEF DistributionInv, PublisherIsAhead
<1>7. DistributionHasRow' /\ AtMostOncePerChannel'
  BY <1>1 DEF DistributionInv, DistributionHasRow, AtMostOncePerChannel
<1> QED
  BY <1>4, <1>5, <1>6, <1>7 DEF PublishParts

LEMMA NextInv == DistributionInv /\ [Next]_vars => DistributionInv'
<1> SUFFICES ASSUME DistributionInv, [Next]_vars PROVE DistributionInv'
  OBVIOUS
<1>1. TypeOK' /\ UndeliveredAreIdle' /\ SleepersHaveAttempts'
  BY NextTypeOK, UndeliveredStayIdle, SleepersKeepAttempts DEF DistributionInv
<1>2. PublishParts'
  BY StepKinds, NoNewPublisherKeeps, OneCopyKeeps, InsertLeadKeeps
<1> QED
  BY <1>1, <1>2 DEF DistributionInv, PublishParts

-----------------------------------------------------------------------------
(* Apart from arrivals no step brings a message, handlers start only for   *)
(* messages that are there, and only a call that is under way stores.      *)
Onward ==
    /\ \A m \in Msg : queue'[m] = "absent" <=> queue[m] = "absent"
    /\ \A h \in Delivery : stage'[h] # "idle" =>
         stage[h] # "idle" \/ queue[h[1]] # "absent"
    /\ \A o \in events' \ events :
         \E h \in Delivery : stage[h] = "calling" /\ o = Lead(h)

LEMMA StepsGoOnward ==
    ASSUME TypeOK,
           \/ \E m \in Msg : Deliver(m)
           \/ \E h \in Delivery : Handle(h)
           \/ Disconnect \/ Crash \/ Restart \/ UNCHANGED vars
    PROVE  Onward
<1> USE DeliveryParts, LeadWorkerAssumption
<1>1. ASSUME NEW m \in Msg, Deliver(m) PROVE Onward
  BY <1>1 DEF Deliver, Onward, TypeOK
<1>2. ASSUME NEW h \in Delivery, Handle(h) PROVE Onward
  <2>1. CASE InsertLead(h) \/ InsertLeadFails(h)
    BY <2>1 DEF InsertLead, InsertLeadFails, Raise, Onward, TypeOK
  <2>2. CASE PublishChannel(h) \/ PublishChannelFails(h)
    BY <2>2 DEF PublishChannel, PublishChannelFails, Raise, Onward, TypeOK
  <2>3. CASE Commit(h) \/ CommitFails(h) \/ Retry(h) \/ Bury(h)
    BY <2>3 DEF Commit, CommitFails, Retry, Bury, Raise, Onward, TypeOK
  <2>4. CASE Settle(h)
    BY <2>4 DEF Settle, Onward, TypeOK
  <2> QED
    BY <1>2, <2>1, <2>2, <2>3, <2>4 DEF Handle
<1>3. CASE Disconnect \/ Crash \/ Restart
  BY <1>3 DEF Disconnect, Crash, Restart, Requeue, Running, Onward, TypeOK
<1>4. CASE UNCHANGED vars
  BY <1>4 DEF vars, Onward
<1> QED
  BY <1>1, <1>2, <1>3, <1>4

(* Every reachable state is well typed.                                    *)
THEOREM TypeCorrect == Spec => []TypeOK
<1>1. DistributionInv => TypeOK
  BY DEF DistributionInv
<1> QED
  BY <1>1, InitInv, NextInv, PTL DEF Spec

(* No channel gets two messages for one lead, whatever is retried,         *)
(* redelivered, repeated or lost.                                          *)
THEOREM AtMostOncePerChannelHolds == Spec => []AtMostOncePerChannel
<1>1. DistributionInv => AtMostOncePerChannel
  BY DEF DistributionInv
<1> QED
  BY <1>1, InitInv, NextInv, PTL DEF Spec

(* A channel message always finds its distribution_status row.             *)
THEOREM DistributionHasRowHolds == Spec => []DistributionHasRow
<1>1. DistributionInv => DistributionHasRow
  BY DEF DistributionInv
<1> QED
  BY <1>1, InitInv, NextInv, PTL DEF Spec

(* A lead whose publishing was cut short stays that way: at-most-once is   *)
(* bought with a distribution that no retry and no redelivery resumes.     *)
THEOREM CutIsForeverHolds == Spec => CutIsForever
<1>1. ASSUME DistributionInv, [Next]_vars, NEW o \in Order, Cut(o)
      PROVE  Cut(o)' /\ copies'[o] = copies[o]
  <2> USE DeliveryParts, <1>1
  <2>1. TypeOK /\ o \in events
    BY DEF DistributionInv, Cut, DistributionHasRow, TypeOK
  <2>2. CASE NoNewPublisher
    BY <2>2 DEF NoNewPublisher, Cut, Lead
  <2>3. ASSUME NEW h \in Delivery, OneCopy(h)
        PROVE  Cut(o)' /\ copies'[o] = copies[o]
    <3>1. Lead(h) # o
      BY <2>3 DEF OneCopy, Cut
    <3>2. copies'[o] = copies[o]
      BY <2>1, <2>3, <3>1 DEF OneCopy, AddCopy, TypeOK
    <3> QED
      BY <2>3, <3>1, <3>2 DEF OneCopy, Cut, Lead
  <2>4. ASSUME NEW h \in Delivery, InsertLead(h), Lead(h) \notin events
        PROVE  Cut(o)' /\ copies'[o] = copies[o]
    BY <2>1, <2>4 DEF InsertLead, Cut, Lead, TypeOK
  <2> QED
    BY <2>2, <2>3, <2>4, StepKinds
<1>2. DistributionInv /\ [Next]_vars =>
        [\A o \in Order : Cut(o) => Cut(o)' /\ copies'[o] = copies[o]]_vars
  BY <1>1
<1> QED
  BY <1>2, InitInv, NextInv, PTL DEF Spec, CutIsForever

-----------------------------------------------------------------------------
(* Acknowledging and rejecting: the inductive invariants behind            *)
(* AckedIsStored, DroppedIsBuried and AckedIsDistributed.                  *)

AckersStored ==
    \A h \in Delivery :
        stage[h] \in {"publishing", "committing", "acking"} => Lead(h) \in events

RejectersBuried == \A h \in Delivery : stage[h] = "rejecting" => h[1] \in buried

PublisherHasPublished ==
    \A h \in Delivery : stage[h] = "publishing" =>
        \A c \in Channel : c < next[h] => copies[Lead(h)][c] > 0

StoredIsPublished ==
    \A o \in events :
        \/ \A c \in Channel : copies[o][c] > 0
        \/ \E h \in Delivery : Lead(h) = o /\ stage[h] = "publishing"

LEMMA AckersStayStored ==
    ASSUME TypeOK, AckersStored, AckedIsStored, [Next]_vars
    PROVE  AckersStored' /\ AckedIsStored'
<1> USE DeliveryParts, LeadWorkerAssumption
    DEF AckersStored, AckedIsStored, TypeOK, Lead
<1>1. ASSUME NEW m \in Msg, Arrive(m) \/ Deliver(m)
      PROVE  AckersStored' /\ AckedIsStored'
  BY <1>1 DEF Arrive, Deliver
<1>2. ASSUME NEW h \in Delivery, Handle(h)
      PROVE  AckersStored' /\ AckedIsStored'
  <2>1. CASE InsertLead(h) \/ InsertLeadFails(h)
    BY <2>1 DEF InsertLead, InsertLeadFails, Raise
  <2>2. CASE PublishChannel(h) \/ PublishChannelFails(h)
    BY <2>2 DEF PublishChannel, PublishChannelFails, Raise
  <2>3. CASE Commit(h) \/ CommitFails(h) \/ Retry(h) \/ Bury(h)
    BY <2>3 DEF Commit, CommitFails, Retry, Bury, Raise
  <2>4. CASE Settle(h)
    BY <2>4 DEF Settle
  <2> QED
    BY <1>2, <2>1, <2>2, <2>3, <2>4 DEF Handle
<1>3. CASE Disconnect \/ Crash \/ Restart
  BY <1>3 DEF Disconnect, Crash, Restart, Requeue, Running
<1>4. CASE UNCHANGED vars
  BY <1>4 DEF vars
<1> QED
  BY <1>1, <1>2, <1>3, <1>4 DEF Next, Drained

LEMMA RejectersStayBuried ==
    ASSUME {"publish", "restart"} \cap Faults = {},
           TypeOK, RejectersBuried, DroppedIsBuried, [Next]_vars
    PROVE  RejectersBuried' /\ DroppedIsBuried'
<1> USE DeliveryParts, LeadWorkerAssumption DEF RejectersBuried, DroppedIsBuried, TypeOK
<1>1. ASSUME NEW m \in Msg, Arrive(m) \/ Deliver(m)
      PROVE  RejectersBuried' /\ DroppedIsBuried'
  BY <1>1 DEF Arrive, Deliver
<1>2. ASSUME NEW h \in Delivery, Handle(h)
      PROVE  RejectersBuried' /\ DroppedIsBuried'
  <2>1. CASE InsertLead(h) \/ InsertLeadFails(h)
    BY <2>1 DEF InsertLead, InsertLeadFails, Raise
  <2>2. CASE PublishChannel(h) \/ PublishChannelFails(h)
    BY <2>2 DEF PublishChannel, PublishChannelFails, Raise
  <2>3. CASE Commit(h) \/ CommitFails(h) \/ Retry(h) \/ Bury(h)
    BY <2>3 DEF Commit, CommitFails, Retry, Bury, Raise
  <2>4. CASE Settle(h)
    BY <2>4 DEF Settle
  <2> QED
    BY <1>2, <2>1, <2>2, <2>3, <2>4 DEF Handle
<1>3. CASE Disconnect \/ Crash \/ Restart
  BY <1>3 DEF Disconnect, Crash, Restart, Requeue, Running
<1>4. CASE UNCHANGED vars
  BY <1>4 DEF vars
<1> QED
  BY <1>1, <1>2, <1>3, <1>4 DEF Next, Drained

(* No message is acknowledged before its lead is stored.                   *)
THEOREM AckedIsStoredHolds == Spec => []AckedIsStored
<1>1. Init => AckersStored /\ AckedIsStored
  BY DEF Init, AckersStored, AckedIsStored
<1>2. DistributionInv => TypeOK
  BY DEF DistributionInv
<1> QED
  BY <1>1, <1>2, InitInv, NextInv, AckersStayStored, PTL DEF Spec

(* While the broker confirms what it is sent and does not restart, a       *)
(* rejected message is kept in lead.dead.consumer_failed.                  *)
THEOREM DroppedIsBuriedHolds ==
    ASSUME {"publish", "restart"} \cap Faults = {}
    PROVE  Spec => []DroppedIsBuried
<1>1. Init => RejectersBuried /\ DroppedIsBuried
  BY DEF Init, RejectersBuried, DroppedIsBuried
<1>2. DistributionInv => TypeOK
  BY DEF DistributionInv
<1>3. TypeOK /\ RejectersBuried /\ DroppedIsBuried /\ [Next]_vars
        => RejectersBuried' /\ DroppedIsBuried'
  BY RejectersStayBuried
<1> QED
  BY <1>1, <1>2, <1>3, InitInv, NextInv, PTL DEF Spec

-----------------------------------------------------------------------------
(* Every message gets its answer.                                          *)

UnackedAreDelivered ==
    \A m \in Msg : queue[m] = "unacked" => delivered[m] \in 1 .. MaxDeliveries

LEMMA UnackedStayHandled ==
    ASSUME TypeOK, UnackedAreDelivered, UnackedIsHandled, [Next]_vars
    PROVE  UnackedAreDelivered' /\ UnackedIsHandled'
<1> USE DeliveryParts, LeadWorkerAssumption
<1>1. ASSUME NEW m \in Msg, queue[m] = "unacked"
      PROVE  <<m, delivered[m]>> \in Delivery
             /\ stage[<<m, delivered[m]>>] \in Running
  BY <1>1 DEF UnackedAreDelivered, UnackedIsHandled, Delivery
<1>2. ASSUME \A m \in Msg : queue'[m] # "unacked"
      PROVE  UnackedAreDelivered' /\ UnackedIsHandled'
  BY <1>2 DEF UnackedAreDelivered, UnackedIsHandled
<1>3. ASSUME delivered' = delivered,
             \A m \in Msg : queue'[m] = "unacked" =>
               /\ queue[m] = "unacked"
               /\ \/ stage'[<<m, delivered[m]>>] = stage[<<m, delivered[m]>>]
                  \/ stage'[<<m, delivered[m]>>] \in Running
      PROVE  UnackedAreDelivered' /\ UnackedIsHandled'
  BY <1>3 DEF UnackedAreDelivered, UnackedIsHandled
<1>4. ASSUME NEW m \in Msg, Deliver(m)
      PROVE  UnackedAreDelivered' /\ UnackedIsHandled'
  <2> DEFINE g == <<m, delivered[m] + 1>>
  <2>1. g \in Delivery /\ delivered[m] + 1 \in 1 .. MaxDeliveries
    BY <1>4 DEF Deliver, Delivery, TypeOK
  <2>2. delivered'[m] = delivered[m] + 1 /\ stage'[g] = "calling"
    BY <1>4, <2>1 DEF Deliver, TypeOK
  <2>3. ASSUME NEW n \in Msg, n # m, queue'[n] = "unacked"
        PROVE  /\ delivered'[n] \in 1 .. MaxDeliveries
               /\ stage'[<<n, delivered'[n]>>] \in Running
    <3>1. queue[n] = "unacked" /\ delivered'[n] = delivered[n]
      BY <1>4, <2>3 DEF Deliver, TypeOK
    <3>2. stage'[<<n, delivered[n]>>] = stage[<<n, delivered[n]>>]
      BY <1>1, <1>4, <2>3, <3>1 DEF Deliver, TypeOK
    <3> QED
      BY <1>1, <3>1, <3>2 DEF UnackedAreDelivered
  <2> QED
    BY <2>1, <2>2, <2>3 DEF UnackedAreDelivered, UnackedIsHandled, Running, Stage
<1>5. ASSUME NEW h \in Delivery, Handle(h)
      PROVE  UnackedAreDelivered' /\ UnackedIsHandled'
  <2>1. CASE Settle(h)
    <3>1. ASSUME NEW m \in Msg, queue'[m] = "unacked"
          PROVE  queue[m] = "unacked" /\ h # <<m, delivered[m]>>
      BY <2>1, <3>1 DEF Settle, TypeOK
    <3> QED
      BY <1>1, <1>3, <2>1, <3>1 DEF Settle, TypeOK
  <2>2. CASE ~Settle(h)
    <3>1. /\ queue' = queue /\ delivered' = delivered
          /\ \E x \in Running : stage' = [stage EXCEPT ![h] = x]
             \/ stage' = stage
      BY <1>5, <2>2 DEF Handle, InsertLead, InsertLeadFails, PublishChannel,
         PublishChannelFails, Commit, CommitFails, Retry, Bury, Raise,
         Running, Stage
    <3> QED
      BY <1>1, <1>3, <3>1 DEF TypeOK
  <2> QED
    BY <2>1, <2>2
<1>6. CASE Disconnect \/ Crash \/ Restart
  BY <1>2, <1>6 DEF Disconnect, Crash, Restart, Requeue, TypeOK
<1>7. ASSUME NEW m \in Msg, Arrive(m)
      PROVE  UnackedAreDelivered' /\ UnackedIsHandled'
  BY <1>3, <1>7 DEF Arrive, TypeOK
<1>8. CASE UNCHANGED vars
  BY <1>3, <1>8 DEF vars
<1> QED
  BY <1>4, <1>5, <1>6, <1>7, <1>8 DEF Next, Drained

(* No message waits for an acknowledgement nobody will give: whatever      *)
(* raises and whatever the broker takes back, its last delivery is being   *)
(* handled.                                                                *)
THEOREM UnackedIsHandledHolds == Spec => []UnackedIsHandled
<1>1. Init => UnackedAreDelivered /\ UnackedIsHandled
  BY DEF Init, UnackedAreDelivered, UnackedIsHandled
<1>2. DistributionInv => TypeOK
  BY DEF DistributionInv
<1> QED
  BY <1>1, <1>2, InitInv, NextInv, UnackedStayHandled, PTL DEF Spec

-----------------------------------------------------------------------------
(* Distributing all of it.  While no publish fails, no result set is lost  *)
(* and the process lives, a publisher goes on to the last channel.         *)

LEMMA PublishersGoOn ==
    ASSUME {"reply", "publish", "crash"} \cap Faults = {}, DistributionInv,
           PublisherHasPublished, StoredIsPublished, [Next]_vars
    PROVE  PublisherHasPublished' /\ StoredIsPublished'
<1> USE DeliveryParts, LeadWorkerAssumption
    DEF PublisherHasPublished, StoredIsPublished, Lead
<1>1. TypeOK
  BY DEF DistributionInv
<1>2. ASSUME copies' = copies, events' = events,
             \A h \in Delivery :
               /\ stage'[h] = "publishing" <=> stage[h] = "publishing"
               /\ stage'[h] = "publishing" => next'[h] = next[h]
      PROVE  PublisherHasPublished' /\ StoredIsPublished'
  BY <1>2
<1>3. ASSUME NEW m \in Msg, Deliver(m)
      PROVE  PublisherHasPublished' /\ StoredIsPublished'
  <2> DEFINE g == <<m, delivered[m] + 1>>
  <2>1. g \in Delivery /\ g[1] = m /\ g[2] = delivered[m] + 1
    BY <1>1, <1>3 DEF Deliver, Delivery, TypeOK
  <2>2. stage[g] = "idle"
    BY <1>1, <2>1 DEF DistributionInv, UndeliveredAreIdle, TypeOK
  <2>3. stage' = [stage EXCEPT ![g] = "calling"]
        /\ UNCHANGED <<next, events, copies>>
    BY <1>3 DEF Deliver
  <2> HIDE DEF g
  <2> QED
    BY <1>1, <1>2, <2>1, <2>2, <2>3 DEF TypeOK
<1>4. ASSUME NEW h \in Delivery, Handle(h)
      PROVE  PublisherHasPublished' /\ StoredIsPublished'
  <2>1. CASE InsertLead(h)
    <3>1. CASE Lead(h) \in events
      BY <1>1, <1>2, <2>1, <3>1 DEF InsertLead, TypeOK
    <3>2. CASE Lead(h) \notin events
      BY <1>1, <2>1, <3>2 DEF InsertLead, TypeOK, Channel
    <3> QED
      BY <3>1, <3>2
  <2>2. CASE PublishChannel(h)
    <3>1. /\ TypeOK /\ stage[h] = "publishing" /\ next[h] \in Channel
          /\ Lead(h) \in Order /\ events' = events
          /\ \A g \in Delivery \ {h} : stage'[g] = stage[g] /\ next'[g] = next[g]
      BY <1>1, <2>2 DEF PublishChannel, TypeOK
    <3>2. /\ copies'[Lead(h)][next[h]] > 0
          /\ \A o \in Order : \A c \in Channel :
               copies[o][c] > 0 => copies'[o][c] > 0
      BY <2>2, <3>1 DEF PublishChannel, AddCopy, TypeOK
    <3>3. CASE next[h] = 4
      <4>1. \A c \in Channel : copies'[Lead(h)][c] > 0
        BY <3>1, <3>2, <3>3 DEF Channel
      <4>2. stage'[h] = "committing"
        BY <2>2, <3>1, <3>3 DEF PublishChannel, TypeOK
      <4>3. PublisherHasPublished'
        BY <3>1, <3>2, <4>2
      <4>4. StoredIsPublished'
        <5> SUFFICES ASSUME NEW o \in events, NEW c \in Channel,
                            ~(copies'[o][c] > 0)
                     PROVE  \E g \in Delivery : Lead(g) = o /\ stage'[g] = "publishing"
          BY <3>1, <3>2 DEF TypeOK
        <5>1. o # Lead(h) /\ o \in Order /\ ~(copies[o][c] > 0)
          BY <3>1, <3>2, <4>1 DEF TypeOK
        <5>2. PICK g \in Delivery : Lead(g) = o /\ stage[g] = "publishing"
          BY <5>1
        <5> QED
          BY <3>1, <5>1, <5>2
      <4> QED
        BY <4>3, <4>4
    <3>4. CASE next[h] # 4
      <4>1. stage' = stage /\ next'[h] = next[h] + 1
        BY <2>2, <3>1, <3>4 DEF PublishChannel, TypeOK
      <4>2. PublisherHasPublished'
        <5> SUFFICES ASSUME NEW g \in Delivery, stage[g] = "publishing",
                            NEW c \in Channel, c < next'[g]
                     PROVE  copies'[Lead(g)][c] > 0
          BY <4>1
        <5>1. CASE g = h /\ c = next[h]
          BY <3>2, <5>1
        <5>2. CASE ~(g = h /\ c = next[h])
          BY <3>1, <3>2, <4>1, <5>2 DEF Channel
        <5> QED
          BY <5>1, <5>2
      <4>3. StoredIsPublished'
        BY <3>1, <3>2, <4>1 DEF TypeOK
      <4> QED
        BY <4>2, <4>3
    <3> QED
      BY <3>3, <3>4
  <2>3. CASE InsertLeadFails(h) \/ PublishChannelFails(h)
    BY <1>1, <1>2, <2>3 DEF InsertLeadFails, PublishChannelFails, Raise, TypeOK
  <2>4. CASE Commit(h) \/ CommitFails(h) \/ Retry(h) \/ Bury(h)
    BY <1>1, <1>2, <2>4 DEF Commit, CommitFails, Retry, Bury, Raise, TypeOK
  <2>5. CASE Settle(h)
    BY <1>1, <1>2, <2>5 DEF Settle, TypeOK
  <2> QED
    BY <1>4, <2>1, <2>2, <2>3, <2>4, <2>5 DEF Handle
<1>5. CASE Disconnect \/ Crash \/ Restart \/ \E m \in Msg : Arrive(m)
  BY <1>2, <1>5 DEF Disconnect, Crash, Restart, Arrive
<1>6. CASE UNCHANGED vars
  BY <1>2, <1>6 DEF vars
<1> QED
  BY <1>3, <1>4, <1>5, <1>6 DEF Next, Drained

(* An acknowledged message means a lead in all four channels, or a handler *)
(* still on its way there, unless a publish fails, a result set is lost or *)
(* the process dies.                                                       *)
THEOREM AckedIsDistributedHolds ==
    ASSUME {"reply", "publish", "crash"} \cap Faults = {}
    PROVE  Spec => []AckedIsDistributed
<1>1. Init => PublisherHasPublished /\ StoredIsPublished
  BY DEF Init, PublisherHasPublished, StoredIsPublished
<1>2. DistributionInv /\ PublisherHasPublished /\ StoredIsPublished /\ [Next]_vars
        => PublisherHasPublished' /\ StoredIsPublished'
  BY PublishersGoOn
<1>3. AckedIsStored /\ StoredIsPublished => AckedIsDistributed
  BY DEF AckedIsStored, StoredIsPublished, AckedIsDistributed, Busy, Running, Stage
<1> QED
  BY <1>1, <1>2, <1>3, InitInv, NextInv, AckedIsStoredHolds, PTL DEF Spec
=============================================================================

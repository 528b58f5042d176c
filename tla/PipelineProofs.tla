--------------------------- MODULE PipelineProofs ---------------------------
(***************************************************************************)
(* The pipeline runs the receiver and the lead consumer, so what is proved *)
(* of each holds in it; together they implement LeadDelivery, for every    *)
(* set of webhooks, every bound and every mix of failures of both parts.   *)
(***************************************************************************)
EXTENDS Pipeline, TLAPS

(* The parts with their theorems.                                          *)
RP == INSTANCE AnswerProofs WITH
        Submissions <- {Form[w] : w \in Webhook},
        Faults <- ReceiverFaults

LP == INSTANCE LeadWorkerProofs WITH
        Msg <- R!Request,
        Order <- R!Key,
        OrderOf <- [r \in R!Request |-> KeyOf(r[1])],
        Faults <- WorkerFaults

-----------------------------------------------------------------------------
(* The inductive invariant behind the refinement.                          *)

ArrivedWereTaken ==
    \A r \in R!Request :
        queue[r] # "absent" => r \in queued /\ outcome[r] = "accepted"

TakenHaveArrived ==
    \A r \in queued : outcome[r] = "accepted" => queue[r] # "absent"

HandledHaveArrived ==
    \A h \in L!Delivery : stage[h] # "idle" => queue[h[1]] # "absent"

StoredWereTaken == events \subseteq TakenLeads

PipelineInv ==
    /\ RP!AnswerInv /\ LP!DistributionInv
    /\ ArrivedWereTaken /\ TakenHaveArrived
    /\ HandledHaveArrived /\ StoredWereTaken

-----------------------------------------------------------------------------
(* R and RP, and L and LP, are two names for the same definitions.         *)

LEMMA SameRequests ==
    /\ RP!Request = R!Request
    /\ \A r : RP!S(r) = R!S(r)
    /\ \A s : RP!Verdict(s) = R!Verdict(s)
    /\ \A r : RP!NaturalKey(r) = R!NaturalKey(r)
    /\ \A r : RP!Correlation(r) = R!Correlation(r)
BY DEF RP!Request, R!Request, RP!S, R!S, RP!Verdict, R!Verdict, RP!Body,
   R!Body, RP!IsEncrypted, R!IsEncrypted, RP!Decrypts, R!Decrypts,
   RP!IsObject, R!IsObject, RP!ValidGateways, R!ValidGateways,
   RP!NaturalKey, R!NaturalKey, RP!Correlation, R!Correlation

LEMMA SameHandlers ==
    ASSUME NEW r
    PROVE  RP!Handle(r) <=> R!Handle(r)
<1>1. RP!Reject(r) <=> R!Reject(r)
  BY SameRequests DEF RP!Reject, R!Reject, RP!Respond, R!Respond,
     RP!AfterFailure, R!AfterFailure, RP!txnVars, R!txnVars, RP!clientVars,
     R!clientVars
<1>2. RP!Fail(r) <=> R!Fail(r)
  BY SameRequests DEF RP!Fail, R!Fail, RP!txnVars, R!txnVars, RP!clientVars,
     R!clientVars
<1>3. RP!Validate(r) <=> R!Validate(r)
  BY SameRequests DEF RP!Validate, R!Validate, RP!txnVars, R!txnVars,
     RP!clientVars, R!clientVars
<1>4. RP!CheckIdempotency(r) <=> R!CheckIdempotency(r)
  BY SameRequests DEF RP!CheckIdempotency, R!CheckIdempotency, RP!Locks,
     R!Locks, RP!RowCount, R!RowCount, RP!txnVars, R!txnVars, RP!clientVars,
     R!clientVars
<1>5. RP!InsertRawPayload(r) <=> R!InsertRawPayload(r)
  BY DEF RP!InsertRawPayload, R!InsertRawPayload, RP!Publishes, R!Publishes,
     RP!txnVars, R!txnVars, RP!clientVars, R!clientVars
<1>6. RP!StatementFails(r) <=> R!StatementFails(r)
  BY DEF RP!StatementFails, R!StatementFails, RP!txnVars, R!txnVars,
     RP!clientVars, R!clientVars
<1>7. RP!Publish(r) <=> R!Publish(r)
  BY SameRequests DEF RP!Publish, R!Publish, RP!Publishable, R!Publishable,
     RP!DeadLetterBody, R!DeadLetterBody, RP!IsObject, R!IsObject, RP!Body,
     R!Body, RP!IsEncrypted, R!IsEncrypted, RP!txnVars, R!txnVars,
     RP!clientVars, R!clientVars
<1>8. RP!PublishFails(r) <=> R!PublishFails(r)
  BY SameRequests DEF RP!PublishFails, R!PublishFails, RP!Publishable,
     R!Publishable, RP!DeadLetterBody, R!DeadLetterBody, RP!IsObject,
     R!IsObject, RP!Body, R!Body, RP!IsEncrypted, R!IsEncrypted, RP!txnVars,
     R!txnVars, RP!clientVars, R!clientVars
<1>9. RP!Reply(r) <=> R!Reply(r)
  BY DEF RP!Reply, R!Reply, RP!Respond, R!Respond, RP!AfterFailure,
     R!AfterFailure, RP!txnVars, R!txnVars, RP!clientVars, R!clientVars
<1>10. RP!Refuse(r) <=> R!Refuse(r)
  BY DEF RP!Refuse, R!Refuse, RP!Respond, R!Respond, RP!AfterFailure,
     R!AfterFailure, RP!txnVars, R!txnVars, RP!clientVars, R!clientVars
<1>11. RP!Commit(r) <=> R!Commit(r)
  BY SameRequests DEF RP!Commit, R!Commit, RP!txnVars, R!txnVars,
     RP!clientVars, R!clientVars
<1>12. RP!CommitFails(r) <=> R!CommitFails(r)
  BY DEF RP!CommitFails, R!CommitFails, RP!txnVars, R!txnVars,
     RP!clientVars, R!clientVars
<1> QED
  BY <1>1, <1>2, <1>3, <1>4, <1>5, <1>6, <1>7, <1>8, <1>9, <1>10, <1>11,
     <1>12 DEF RP!Handle, R!Handle

LEMMA SameReceiver == [RP!Next]_(RP!vars) <=> [R!Next]_(R!vars)
<1>1. ASSUME NEW w PROVE RP!Send(w) <=> R!Send(w)
  BY DEF RP!Send, R!Send, RP!txnVars, R!txnVars, RP!clientVars, R!clientVars
<1>2. ASSUME NEW w PROVE RP!GiveUp(w) <=> R!GiveUp(w)
  BY DEF RP!GiveUp, R!GiveUp, RP!AfterFailure, R!AfterFailure, RP!txnVars,
     R!txnVars, RP!clientVars, R!clientVars
<1>3. ASSUME NEW r PROVE RP!LoseConnection(r) <=> R!LoseConnection(r)
  BY DEF RP!LoseConnection, R!LoseConnection, RP!Forget, R!Forget,
     RP!txnVars, R!txnVars, RP!clientVars, R!clientVars
<1>4. ASSUME NEW r PROVE RP!Crash(r) <=> R!Crash(r)
  BY DEF RP!Crash, R!Crash, RP!Forget, R!Forget, RP!Running, R!Running,
     RP!Stage, R!Stage, RP!txnVars, R!txnVars, RP!clientVars, R!clientVars
<1>5. RP!Finished <=> R!Finished
  BY SameRequests DEF RP!Finished, R!Finished, RP!Running, R!Running,
     RP!Stage, R!Stage, RP!vars, R!vars, RP!txnVars, R!txnVars,
     RP!clientVars, R!clientVars
<1>6. (\E w \in Webhook : RP!Send(w) \/ RP!GiveUp(w))
     <=> \E w \in Webhook : R!Send(w) \/ R!GiveUp(w)
  BY <1>1, <1>2, <1>3, <1>4, <1>5
<1>7. (\E r \in RP!Request : RP!Handle(r) \/ RP!LoseConnection(r) \/ RP!Crash(r))
     <=> \E r \in R!Request : R!Handle(r) \/ R!LoseConnection(r) \/ R!Crash(r)
  BY SameHandlers, SameRequests, <1>1, <1>2, <1>3, <1>4, <1>5
<1>8. RP!Next <=> R!Next
  BY <1>1, <1>2, <1>3, <1>4, <1>5, <1>6, <1>7 DEF RP!Next, R!Next
<1> QED
  BY <1>8 DEF RP!vars, R!vars, RP!txnVars, R!txnVars, RP!clientVars,
     R!clientVars

LEMMA SameFree == LP!ConnectionIsFree <=> L!ConnectionIsFree
BY DEF LP!ConnectionIsFree, L!ConnectionIsFree, LP!HoldsConnection,
   L!HoldsConnection, LP!Delivery, L!Delivery, LP!Cardinality, L!Cardinality

LEMMA SameConsumers ==
    ASSUME NEW h
    PROVE  LP!Handle(h) <=> L!Handle(h)
<1>1. LP!InsertLead(h) <=> L!InsertLead(h)
  BY SameFree DEF LP!InsertLead, L!InsertLead, LP!Lead, L!Lead
<1>2. LP!InsertLeadFails(h) <=> L!InsertLeadFails(h)
  BY SameFree DEF LP!InsertLeadFails, L!InsertLeadFails, LP!Lead, L!Lead,
     LP!Raise, L!Raise
<1>3. LP!PublishChannel(h) <=> L!PublishChannel(h)
  BY DEF LP!PublishChannel, L!PublishChannel, LP!AddCopy, L!AddCopy,
     LP!Lead, L!Lead
<1>4. LP!PublishChannelFails(h) <=> L!PublishChannelFails(h)
  BY DEF LP!PublishChannelFails, L!PublishChannelFails, LP!AddCopy,
     L!AddCopy, LP!Lead, L!Lead, LP!Raise, L!Raise
<1>5. LP!Commit(h) <=> L!Commit(h)
  BY DEF LP!Commit, L!Commit
<1>6. LP!CommitFails(h) <=> L!CommitFails(h)
  BY DEF LP!CommitFails, L!CommitFails, LP!Raise, L!Raise
<1>7. LP!Retry(h) <=> L!Retry(h)
  BY DEF LP!Retry, L!Retry
<1>8. LP!Bury(h) <=> L!Bury(h)
  BY DEF LP!Bury, L!Bury
<1>9. LP!Settle(h) <=> L!Settle(h)
  BY DEF LP!Settle, L!Settle
<1> QED
  BY <1>1, <1>2, <1>3, <1>4, <1>5, <1>6, <1>7, <1>8, <1>9 DEF LP!Handle,
     L!Handle

LEMMA SameBroker ==
    /\ \A m : LP!Arrive(m) <=> L!Arrive(m)
    /\ \A m : LP!Deliver(m) <=> L!Deliver(m)
    /\ LP!Disconnect <=> L!Disconnect
    /\ LP!Crash <=> L!Crash
    /\ LP!Restart <=> L!Restart
<1>1. ASSUME NEW m PROVE LP!Arrive(m) <=> L!Arrive(m)
  BY DEF LP!Arrive, L!Arrive
<1>2. ASSUME NEW m PROVE LP!Deliver(m) <=> L!Deliver(m)
  BY DEF LP!Deliver, L!Deliver
<1>3. LP!Disconnect <=> L!Disconnect
  BY DEF LP!Disconnect, L!Disconnect, LP!Requeue, L!Requeue
<1>4. LP!Crash <=> L!Crash
  BY DEF LP!Crash, L!Crash, LP!Requeue, L!Requeue, LP!Delivery, L!Delivery,
     LP!Running, L!Running, LP!Stage, L!Stage
<1>5. LP!Restart <=> L!Restart
  BY DEF LP!Restart, L!Restart
<1> QED
  BY <1>1, <1>2, <1>3, <1>4, <1>5

LEMMA SameWorker == [LP!Next]_(LP!vars) <=> [L!Next]_(L!vars)
<1>1. LP!Drained <=> L!Drained
  BY DEF LP!Drained, L!Drained, LP!Gone, L!Gone, LP!Delivery, L!Delivery,
     LP!Running, L!Running, LP!Stage, L!Stage, LP!vars, L!vars
<1>2. (\E m \in R!Request : LP!Arrive(m) \/ LP!Deliver(m))
     <=> \E m \in R!Request : L!Arrive(m) \/ L!Deliver(m)
  BY SameBroker
<1>3. (\E h \in LP!Delivery : LP!Handle(h)) <=> \E h \in L!Delivery : L!Handle(h)
  BY SameConsumers DEF LP!Delivery, L!Delivery
<1>4. LP!Next <=> L!Next
  BY <1>1, <1>2, <1>3, SameBroker DEF LP!Next, L!Next
<1> QED
  BY <1>4 DEF LP!vars, L!vars

-----------------------------------------------------------------------------
(* The assumptions of the parts follow from the pipeline's.                *)

LEMMA KeysOfWebhooks ==
    ASSUME NEW w \in Webhook
    PROVE  KeyOf(w) \in R!Key
<1>1. Form[w].order \in Order
  BY PipelineAssumption DEF R!Submission
<1> QED
  BY <1>1, PipelineAssumption DEF KeyOf, R!Key

LEMMA WorkerAssumption == LP!LeadWorkerAssumption /\ L!LeadWorkerAssumption
<1>1. ASSUME NEW r \in R!Request PROVE KeyOf(r[1]) \in R!Key
  BY KeysOfWebhooks DEF R!Request
<1> QED
  BY <1>1, PipelineAssumption
  DEF LP!LeadWorkerAssumption, L!LeadWorkerAssumption, LP!FaultKinds, L!FaultKinds

LEMMA ReceiverAssumption == RP!ReceiverAssumption
BY PipelineAssumption
DEF RP!ReceiverAssumption, RP!Submission, R!Submission, RP!ValidGateways,
    R!ValidGateways, RP!FaultKinds, R!FaultKinds, RP!CorrelationId, R!CorrelationId

LEMMA ReceiverStep ==
    /\ R!Init => RP!AnswerInv
    /\ RP!AnswerInv /\ [R!Next]_(R!vars) => RP!AnswerInv'
<1>1. RP!AnswerInv /\ [RP!Next]_(RP!vars) => RP!AnswerInv'
  BY RP!NextAnswerInv, ReceiverAssumption
<1>2. RP!Init => RP!AnswerInv
  BY RP!InitAnswerInv, ReceiverAssumption
<1>3. RP!Init <=> R!Init
  BY SameRequests DEF RP!Init, R!Init, RP!Key, R!Key, RP!ValidGateways, R!ValidGateways
<1> QED
  BY <1>1, <1>2, <1>3, SameReceiver

LEMMA WorkerStep ==
    /\ L!Init => LP!DistributionInv
    /\ LP!DistributionInv /\ [L!Next]_(L!vars) => LP!DistributionInv'
<1>1. LP!DistributionInv /\ [LP!Next]_(LP!vars) => LP!DistributionInv'
  BY LP!NextInv, WorkerAssumption
<1>2. LP!Init => LP!DistributionInv
  BY LP!InitInv, WorkerAssumption
<1>3. LP!Init <=> L!Init
  BY DEF LP!Init, L!Init, LP!Delivery, L!Delivery, LP!Channel, L!Channel
<1> QED
  BY <1>1, <1>2, <1>3, SameWorker
-----------------------------------------------------------------------------
(* Every step of the pipeline is a step of each part, or none.             *)

LEMMA PartsStep ==
    ASSUME [Next]_vars
    PROVE  [R!Next]_(R!vars) /\ [L!Next]_(L!vars)
<1>1. UNCHANGED receiverVars => UNCHANGED R!vars
  BY DEF receiverVars, R!vars, R!clientVars, R!txnVars
<1>2. UNCHANGED workerVars => UNCHANGED L!vars
  BY DEF workerVars, L!vars
<1>3. ASSUME \/ UNCHANGED workerVars
             \/ \E r \in R!Request : L!Arrive(r)
      PROVE  [L!Next]_(L!vars)
  BY <1>2, <1>3 DEF L!Next
<1>4. ASSUME NEW w \in Webhook, Send(w) \/ GiveUp(w)
      PROVE  R!Next /\ [L!Next]_(L!vars)
  <2>1. R!Send(w) \/ R!GiveUp(w)
    BY <1>4 DEF Send, GiveUp, Receive
  <2> QED
    BY <1>3, <1>4, <2>1 DEF Send, GiveUp, Receive, R!Next
<1>5. ASSUME NEW r \in R!Request, HandleRequest(r) \/ DisturbRequest(r)
      PROVE  R!Next /\ [L!Next]_(L!vars)
  <2>1. R!Handle(r) \/ R!LoseConnection(r) \/ R!Crash(r)
    BY <1>5 DEF HandleRequest, DisturbRequest, Receive
  <2> QED
    BY <1>3, <1>5, <2>1 DEF HandleRequest, DisturbRequest, Receive, R!Next
<1>6. ASSUME NEW r \in R!Request, Deliver(r) PROVE [R!Next]_(R!vars) /\ L!Next
  BY <1>1, <1>6 DEF Deliver, Distribute, L!Next
<1>7. ASSUME NEW h \in L!Delivery, HandleMessage(h)
      PROVE  [R!Next]_(R!vars) /\ L!Next
  BY <1>1, <1>7 DEF HandleMessage, Distribute, L!Next
<1>8. CASE DisturbWorker
  BY <1>1, <1>8 DEF DisturbWorker, Distribute, L!Next
<1>9. CASE UNCHANGED vars
  BY <1>1, <1>2, <1>9 DEF vars
<1> QED
  BY <1>4, <1>5, <1>6, <1>7, <1>8, <1>9 DEF Next, Finished

(* What is proved of the receiver alone, and of the consumer alone, holds  *)
(* in the pipeline.                                                        *)
THEOREM ReceiverRuns == Spec => R!Spec
<1>1. Init => R!Init
  BY DEF Init
<1> QED
  BY <1>1, PartsStep, PTL DEF Spec, R!Spec

THEOREM WorkerRuns == Spec => L!Spec
<1>1. Init => L!Init
  BY DEF Init
<1> QED
  BY <1>1, PartsStep, PTL DEF Spec, L!Spec

(* So the proof modules' theorems hold in it.                              *)
LEMMA ReceiverSpec == Spec => RP!Spec
<1>1. R!Init <=> RP!Init
  BY SameRequests DEF RP!Init, R!Init, RP!Key, R!Key, RP!ValidGateways,
     R!ValidGateways
<1> QED
  BY <1>1, ReceiverRuns, SameReceiver, PTL DEF RP!Spec, R!Spec

LEMMA WorkerSpec == Spec => LP!Spec
<1>1. L!Init <=> LP!Init
  BY DEF LP!Init, L!Init, LP!Delivery, L!Delivery, LP!Channel, L!Channel
<1> QED
  BY <1>1, WorkerRuns, SameWorker, PTL DEF LP!Spec, L!Spec

LEMMA QuietHasNoneBusy ==
    ASSUME Quiet
    PROVE  \A k \in R!Key : ~LP!Busy(k)
BY DEF Quiet, LP!Busy, LP!Delivery, L!Delivery, LP!Running, L!Running, LP!Stage,
   L!Stage

-----------------------------------------------------------------------------
(* A step is one of the receiver, which may bring the consumer a message,  *)
(* or one of the consumer or the broker.                                   *)

Reception ==
    /\ [R!Next]_(R!vars)
    /\ IF \E r \in R!Request : Arrives(r)
       THEN \E r \in R!Request : Arrives(r) /\ L!Arrive(r)
       ELSE UNCHANGED workerVars

Distribution ==
    /\ UNCHANGED receiverVars
    /\ \/ \E r \in R!Request : L!Deliver(r)
       \/ \E h \in L!Delivery : L!Handle(h)
       \/ L!Disconnect \/ L!Crash \/ L!Restart

LEMMA StepSides == ASSUME [Next]_vars PROVE Reception \/ Distribution
<1>1. ASSUME NEW w \in Webhook, Send(w) \/ GiveUp(w) PROVE Reception
  BY <1>1 DEF Send, GiveUp, Receive, Reception, R!Next
<1>2. ASSUME NEW r \in R!Request, HandleRequest(r) \/ DisturbRequest(r)
      PROVE  Reception
  BY <1>2 DEF HandleRequest, DisturbRequest, Receive, Reception, R!Next
<1>3. ASSUME NEW r \in R!Request, Deliver(r) PROVE Distribution
  BY <1>3 DEF Deliver, Distribute, Distribution
<1>4. ASSUME NEW h \in L!Delivery, HandleMessage(h) PROVE Distribution
  BY <1>4 DEF HandleMessage, Distribute, Distribution
<1>5. CASE DisturbWorker
  BY <1>5 DEF DisturbWorker, Distribute, Distribution
<1>6. CASE UNCHANGED vars
  BY <1>6 DEF vars, receiverVars, Reception, Arrives, R!vars, R!clientVars, R!txnVars
<1> QED
  BY <1>1, <1>2, <1>3, <1>4, <1>5, <1>6 DEF Next, Finished

LEMMA ReceptionKinds ==
    ASSUME RP!AnswerInv, [R!Next]_(R!vars)
    PROVE  RP!Still \/ \E r \in R!Request : RP!Publishing(r) \/ RP!Answering(r)
BY RP!AnswerSteps, ReceiverAssumption, SameReceiver, SameRequests

(* What is in RabbitMQ, or was, keeps its outcome: leads stay taken.       *)
LEMMA TakenStayTaken ==
    ASSUME RP!AnswerInv, [R!Next]_(R!vars)
    PROVE  /\ queued \subseteq queued'
           /\ \A r \in queued : outcome'[r] = outcome[r]
           /\ \A r \in queued' \ queued : outcome'[r] = outcome[r]
           /\ \A q, r \in queued' \ queued : q = r
           /\ TakenLeads \subseteq TakenLeads'
<1>1. /\ queued \subseteq queued'
      /\ \A r \in queued : outcome'[r] = outcome[r]
      /\ \A r \in queued' \ queued : outcome'[r] = outcome[r]
      /\ \A q, r \in queued' \ queued : q = r
  BY ReceptionKinds DEF RP!Still, RP!Publishing, RP!Answering
<1> QED
  BY <1>1 DEF TakenLeads

(* The types of what the parts share, in the words of the composition.     *)
LEMMA SeamTypes ==
    ASSUME PipelineInv
    PROVE  /\ queued \subseteq R!Request
           /\ queue \in [R!Request -> {"absent", "ready", "unacked"} \cup L!Gone]
BY SameRequests DEF PipelineInv, RP!AnswerInv, RP!TypeOK, LP!DistributionInv,
   LP!TypeOK, LP!Gone, L!Gone

(* The lead of a message that has arrived was taken.                       *)
LEMMA ArrivedIsTaken ==
    ASSUME ArrivedWereTaken, NEW r \in R!Request, queue[r] # "absent"
    PROVE  KeyOf(r[1]) \in TakenLeads
<1>1. r \in queued /\ outcome[r] = "accepted"
  BY DEF ArrivedWereTaken
<1>2. KeyOf(r[1]) \in R!Key
  BY KeysOfWebhooks DEF R!Request
<1> QED
  BY <1>1, <1>2 DEF TakenLeads

LEMMA InitPipelineInv == Init => PipelineInv
<1> SUFFICES ASSUME Init PROVE PipelineInv
  OBVIOUS
<1>1. RP!AnswerInv /\ LP!DistributionInv
  BY ReceiverStep, WorkerStep DEF Init
<1>2. ArrivedWereTaken /\ TakenHaveArrived /\ HandledHaveArrived /\ StoredWereTaken
  BY DEF Init, R!Init, L!Init, ArrivedWereTaken, TakenHaveArrived,
     HandledHaveArrived, StoredWereTaken
<1> QED
  BY <1>1, <1>2 DEF PipelineInv

LEMMA ReceptionKeeps ==
    ASSUME PipelineInv, Reception
    PROVE  /\ ArrivedWereTaken' /\ TakenHaveArrived'
           /\ HandledHaveArrived' /\ StoredWereTaken'
<1>1. /\ RP!AnswerInv
      /\ queue \in [R!Request -> {"absent", "ready", "unacked"} \cup L!Gone]
      /\ ArrivedWereTaken /\ TakenHaveArrived
      /\ HandledHaveArrived /\ StoredWereTaken
  BY SeamTypes DEF PipelineInv
<1>2. /\ queued \subseteq queued'
      /\ \A r \in queued : outcome'[r] = outcome[r]
      /\ \A r \in queued' \ queued : outcome'[r] = outcome[r]
      /\ \A q, r \in queued' \ queued : q = r
      /\ TakenLeads \subseteq TakenLeads'
  BY <1>1, TakenStayTaken DEF Reception
<1>3. /\ stage' = stage /\ events' = events
      /\ \/ queue' = queue
         \/ \E r \in R!Request : Arrives(r) /\ queue' = [queue EXCEPT ![r] = "ready"]
  BY DEF Reception, workerVars, L!Arrive
<1>4. ArrivedWereTaken'
  BY <1>1, <1>2, <1>3 DEF ArrivedWereTaken, Arrives
<1>5. HandledHaveArrived'
  BY <1>1, <1>3 DEF HandledHaveArrived, L!Delivery
<1>6. StoredWereTaken'
  BY <1>1, <1>2, <1>3 DEF StoredWereTaken
<1>7. TakenHaveArrived'
  <2> SUFFICES ASSUME NEW r \in queued', outcome'[r] = "accepted"
               PROVE  queue'[r] # "absent"
    BY DEF TakenHaveArrived
  <2>1. RP!TypeOK'
    BY <1>1, ReceiverStep DEF Reception, RP!AnswerInv
  <2>2. r \in R!Request
    BY <2>1, SameRequests DEF RP!TypeOK
  <2>3. CASE r \in queued
    BY <1>1, <1>2, <1>3, <2>2, <2>3 DEF TakenHaveArrived
  <2>4. CASE r \notin queued
    <3>1. Arrives(r)
      BY <1>2, <2>4 DEF Arrives
    <3>2. PICK q \in R!Request : Arrives(q) /\ L!Arrive(q)
      BY <2>2, <3>1 DEF Reception
    <3>3. q = r
      BY <1>2, <3>1, <3>2 DEF Arrives
    <3> QED
      BY <1>1, <2>2, <3>2, <3>3 DEF L!Arrive
  <2> QED
    BY <2>3, <2>4
<1> QED
  BY <1>4, <1>5, <1>6, <1>7

LEMMA DistributionKeeps ==
    ASSUME PipelineInv, Distribution
    PROVE  /\ ArrivedWereTaken' /\ TakenHaveArrived'
           /\ HandledHaveArrived' /\ StoredWereTaken'
<1>1. /\ LP!DistributionInv
      /\ ArrivedWereTaken /\ TakenHaveArrived
      /\ HandledHaveArrived /\ StoredWereTaken
  BY DEF PipelineInv
<1>2. LP!Delivery = L!Delivery
  BY DEF LP!Delivery, L!Delivery
<1>3. LP!Onward
  BY <1>1, <1>2, LP!StepsGoOnward, WorkerAssumption, SameBroker, SameConsumers
  DEF Distribution, LP!DistributionInv
<1>4. queued' = queued /\ outcome' = outcome
  BY DEF Distribution, receiverVars
<1>5. ASSUME NEW h \in L!Delivery, stage[h] # "idle"
      PROVE  queue[h[1]] # "absent" /\ h[1] \in R!Request
  BY <1>1, <1>5 DEF HandledHaveArrived, L!Delivery
<1>6. ArrivedWereTaken'
  BY <1>1, <1>3, <1>4 DEF ArrivedWereTaken, LP!Onward
<1>7. HandledHaveArrived'
  BY <1>2, <1>3, <1>5 DEF HandledHaveArrived, LP!Onward, L!Delivery
<1>8. StoredWereTaken'
  <2> SUFFICES ASSUME NEW o \in events' \ events PROVE o \in TakenLeads
    BY <1>1, <1>4 DEF StoredWereTaken, TakenLeads
  <2>1. PICK h \in L!Delivery : stage[h] = "calling" /\ o = LP!Lead(h)
    BY <1>2, <1>3 DEF LP!Onward
  <2>2. o = KeyOf(h[1][1])
    BY <2>1 DEF LP!Lead, L!Delivery
  <2> QED
    BY <1>1, <1>5, <2>1, <2>2, ArrivedIsTaken
<1>9. TakenHaveArrived'
  <2>1. queued \subseteq R!Request
    BY SeamTypes
  <2> QED
    BY <1>1, <1>3, <1>4, <2>1 DEF TakenHaveArrived, LP!Onward
<1> QED
  BY <1>6, <1>7, <1>8, <1>9

LEMMA NextPipelineInv == PipelineInv /\ [Next]_vars => PipelineInv'
<1> SUFFICES ASSUME PipelineInv, [Next]_vars PROVE PipelineInv'
  OBVIOUS
<1>1. RP!AnswerInv' /\ LP!DistributionInv'
  BY PartsStep, ReceiverStep, WorkerStep DEF PipelineInv
<1>2. /\ ArrivedWereTaken' /\ TakenHaveArrived'
      /\ HandledHaveArrived' /\ StoredWereTaken'
  BY StepSides, ReceptionKeeps, DistributionKeeps
<1> QED
  BY <1>1, <1>2 DEF PipelineInv

-----------------------------------------------------------------------------
(* Every step of the receiver takes a lead, tells of one, or stutters.     *)
LEMMA ReceptionRefines ==
    ASSUME PipelineInv, Reception
    PROVE  [Promise!Next]_(Promise!vars)
<1>1. copies' = copies
  BY DEF Reception, workerVars, L!Arrive
<1>2. RP!AnswerInv
  BY DEF PipelineInv
<1>3. ASSUME NEW r \in R!Request PROVE KeyOf(r[1]) \in R!Key
  BY KeysOfWebhooks DEF R!Request
<1>4. CASE RP!Still
  <2>1. TakenLeads' = TakenLeads /\ ToldLeads' = ToldLeads
    BY <1>4 DEF RP!Still, TakenLeads, ToldLeads
  <2> QED
    BY <1>1, <2>1 DEF Promise!vars
<1>5. ASSUME NEW r \in R!Request, RP!Publishing(r)
      PROVE  [Promise!Next]_(Promise!vars)
  <2>1. ToldLeads' = ToldLeads
    BY <1>5 DEF RP!Publishing, ToldLeads
  <2>2. CASE outcome[r] = "accepted"
    <3>1. TakenLeads' = TakenLeads \cup {KeyOf(r[1])}
      BY <1>3, <1>5, <2>2 DEF RP!Publishing, TakenLeads
    <3> QED
      BY <1>1, <1>3, <2>1, <3>1 DEF Promise!Next, Promise!Take
  <2>3. CASE outcome[r] # "accepted"
    <3>1. TakenLeads' = TakenLeads
      BY <1>5, <2>3 DEF RP!Publishing, TakenLeads
    <3> QED
      BY <1>1, <2>1, <3>1 DEF Promise!vars
  <2> QED
    BY <2>2, <2>3
<1>6. ASSUME NEW r \in R!Request, RP!Answering(r)
      PROVE  [Promise!Next]_(Promise!vars)
  <2>1. TakenLeads' = TakenLeads
    BY <1>6 DEF RP!Answering, TakenLeads
  <2>2. answer[r] # "accepted"
    BY <1>6 DEF RP!Answering, RP!Outcome
  <2>3. \A q \in R!Request : q # r => answer'[q] = answer[q]
    BY <1>6, SameRequests DEF RP!Answering
  <2>4. CASE answer'[r] = "accepted"
    <3>1. pc[r] = "replying" /\ outcome[r] = "accepted"
      BY <1>6, <2>4 DEF RP!Answering, RP!Outcome
    <3>2. r \in queued
      BY <1>2, <3>1 DEF RP!AnswerInv, RP!AnswersAreTrue, RP!SaysIt, RP!Publishes,
         RP!Request, R!Request
    <3>3. KeyOf(r[1]) \in TakenLeads
      BY <1>3, <3>1, <3>2 DEF TakenLeads
    <3>4. ToldLeads' = ToldLeads \cup {KeyOf(r[1])}
      BY <1>3, <2>2, <2>3, <2>4 DEF ToldLeads
    <3> QED
      BY <1>1, <1>3, <2>1, <3>3, <3>4 DEF Promise!Next, Promise!Tell
  <2>5. CASE answer'[r] # "accepted"
    <3>1. ToldLeads' = ToldLeads
      BY <2>2, <2>3, <2>5 DEF ToldLeads
    <3> QED
      BY <1>1, <2>1, <3>1 DEF Promise!vars
  <2> QED
    BY <2>4, <2>5
<1> QED
  BY <1>2, <1>4, <1>5, <1>6, ReceptionKinds DEF Reception

(* Every step of the consumer hands a taken lead to one channel that has   *)
(* not had it, or stutters.                                                *)
LEMMA DistributionRefines ==
    ASSUME PipelineInv, Distribution, [LP!Next]_(LP!vars)
    PROVE  [Promise!Next]_(Promise!vars)
<1>1. LP!DistributionInv /\ StoredWereTaken
  BY DEF PipelineInv
<1>2. TakenLeads' = TakenLeads /\ ToldLeads' = ToldLeads
  BY DEF Distribution, receiverVars, TakenLeads, ToldLeads
<1>3. CASE copies' = copies
  BY <1>2, <1>3 DEF Promise!vars
<1>4. ASSUME NEW h \in LP!Delivery, LP!OneCopy(h)
      PROVE  Promise!Next
  <2>1. /\ stage[h] = "publishing" /\ next[h] \in L!Channel
        /\ copies \in [R!Key -> [L!Channel -> Nat]]
    BY <1>1, <1>4 DEF LP!OneCopy, LP!DistributionInv, LP!TypeOK, LP!Channel, L!Channel
  <2>2. LP!Lead(h) \in events
    BY <1>1, <1>4, <2>1 DEF LP!DistributionInv, LP!PublisherStored
  <2>3. LP!Lead(h) \in TakenLeads
    BY <1>1, <2>2 DEF StoredWereTaken
  <2>4. LP!Lead(h) \in R!Key
    BY <2>3 DEF TakenLeads
  <2>5. copies[LP!Lead(h)][next[h]] = 0
    BY <1>1, <2>1 DEF LP!DistributionInv, LP!PublisherIsAhead, LP!Channel, L!Channel
  <2>6. copies' = [copies EXCEPT ![LP!Lead(h)][next[h]] = 1]
    <3>1. copies' = [copies EXCEPT ![LP!Lead(h)][next[h]] = @ + 1]
      BY <1>4 DEF LP!OneCopy, LP!AddCopy
    <3> QED
      BY <2>1, <2>4, <2>5, <3>1
  <2>7. Promise!Hand(LP!Lead(h), next[h])
    BY <1>2, <2>3, <2>5, <2>6 DEF Promise!Hand
  <2> QED
    BY <2>1, <2>4, <2>7 DEF Promise!Next
<1>5. ASSUME NEW h \in LP!Delivery, LP!InsertLead(h) PROVE copies' = copies
  BY <1>5 DEF LP!InsertLead
<1>6. CASE LP!NoNewPublisher
  BY <1>3, <1>6 DEF LP!NoNewPublisher
<1> QED
  BY <1>1, <1>3, <1>4, <1>5, <1>6, LP!StepKinds, WorkerAssumption

(* The two parts together keep the promise about every lead, for every set *)
(* of webhooks and every mix of failures: taken before told, handed to     *)
(* each channel at most once, and never without having been taken.         *)
THEOREM Refinement == Spec => ImplementsLeadDelivery
<1>1. Init => Promise!Init
  BY DEF Init, R!Init, L!Init, Promise!Init, TakenLeads, ToldLeads
<1>2. PipelineInv /\ [Next]_vars => [Promise!Next]_(Promise!vars)
  BY StepSides, ReceptionRefines, DistributionRefines, PartsStep, SameWorker
<1> QED
  BY <1>1, <1>2, InitPipelineInv, NextPipelineInv, PTL
  DEF Spec, ImplementsLeadDelivery, Promise!Spec

(* While no publish of the consumer fails, no result set is lost and the   *)
(* worker lives, a lead whose sender was told accepted is in all four      *)
(* channels once all is quiet, or a message of it was rejected or was lost *)
(* in a restart of RabbitMQ.                                               *)
THEOREM ToldIsAccountedForHolds ==
    ASSUME {"reply", "publish", "crash"} \cap WorkerFaults = {}
    PROVE  Spec => []ToldIsAccountedFor
<1>1. LP!AckedIsDistributed /\ PipelineInv => ToldIsAccountedFor
  <2> SUFFICES ASSUME LP!AckedIsDistributed, PipelineInv, Quiet,
                      NEW k \in ToldLeads,
                      \A r \in R!Request :
                        KeyOf(r[1]) = k => queue[r] \notin {"dropped", "lost"}
               PROVE  Distributed(k)
    BY DEF ToldIsAccountedFor
  <2>1. PICK r \in R!Request : answer[r] = "accepted" /\ KeyOf(r[1]) = k
    BY DEF ToldLeads
  <2>2. outcome[r] = "accepted" /\ r \in queued
    BY <2>1 DEF PipelineInv, RP!AnswerInv, RP!AnswersAreOutcomes,
       RP!AnswersAreTrue, RP!SaysIt, RP!Outcome, RP!Publishes, RP!Request,
       R!Request
  <2>3. queue[r] # "absent"
    BY <2>2 DEF PipelineInv, TakenHaveArrived
  <2>4. queue[r] = "acked"
    BY <2>1, <2>3 DEF Quiet, L!Gone
  <2>5. ~LP!Busy(KeyOf(r[1]))
    BY <2>1, QuietHasNoneBusy DEF ToldLeads
  <2> QED
    BY <2>1, <2>4, <2>5 DEF LP!AckedIsDistributed, Distributed, LP!Channel,
       L!Channel
<1>2. LP!Spec => []LP!AckedIsDistributed
  BY LP!AckedIsDistributedHolds, WorkerAssumption
<1> QED
  BY <1>1, <1>2, WorkerSpec, InitPipelineInv, NextPipelineInv, PTL DEF Spec

-----------------------------------------------------------------------------
(* What became of the events whose handlers ended: what EndedEventIsSettled*)
(* says of the receiver, followed through the consumer.                    *)

FormsAreSubmitted == sub = [w \in Webhook |-> Form[w]]

LEMMA FormsStay == Spec => []FormsAreSubmitted
<1>1. Init => FormsAreSubmitted
  BY DEF Init, FormsAreSubmitted
<1>2. FormsAreSubmitted /\ [Next]_vars => FormsAreSubmitted'
  BY PartsStep, SameReceiver, RP!WebhooksStay, ReceiverAssumption
  DEF FormsAreSubmitted
<1> QED
  BY <1>1, <1>2, PTL DEF Spec

(* The request through which an event was settled, in terms of its form.   *)
Settles(q, r) ==
    /\ KeyOf(q[1]) = KeyOf(r[1])
    /\ \/ q \in queued /\ outcome[q] = "accepted"
       \/ outcome[q] = "discarded_non_approved" /\ ~Form[q[1]].approved
       \/ answer[q] = "unavailable"

LEMMA EndedHaveSettler ==
    ASSUME FormsAreSubmitted, RP!EndedEventIsSettled,
           NEW r \in R!Request, pc[r] = "closed",
           R!Verdict(Form[r[1]]) = "event"
    PROVE  \E q \in R!Request : Settles(q, r)
<1>1. ASSUME NEW q \in R!Request
      PROVE  RP!S(q) = Form[q[1]] /\ RP!NaturalKey(q) = KeyOf(q[1])
  BY DEF FormsAreSubmitted, RP!S, RP!NaturalKey, KeyOf, R!Request
<1>2. RP!Verdict(RP!S(r)) = "event" /\ r \in RP!Request
  BY <1>1, SameRequests
<1>3. PICK q \in R!Request :
        /\ RP!NaturalKey(q) = RP!NaturalKey(r)
        /\ \/ q \in queued /\ outcome[q] = "accepted"
           \/ outcome[q] = "discarded_non_approved" /\ ~RP!S(q).approved
           \/ answer[q] = "unavailable"
  BY <1>2, SameRequests DEF RP!EndedEventIsSettled
<1> QED
  BY <1>1, <1>3 DEF Settles

(* What is left to see of an event that is in no channel.                  *)
Trace(q, r) ==
    /\ KeyOf(q[1]) = KeyOf(r[1])
    /\ \/ answer[q] = "unavailable"
       \/ outcome[q] = "discarded_non_approved" /\ ~Form[q[1]].approved
       \/ queue[q] \in {"dropped", "lost"}

EndedIsStored ==
    Quiet => \A r \in R!Request :
        pc[r] = "closed" /\ R!Verdict(Form[r[1]]) = "event" =>
            \/ KeyOf(r[1]) \in events
            \/ \E q \in R!Request : Trace(q, r)

(* A message of a settled event, once all is quiet.                        *)
LEMMA SettledIsAcked ==
    ASSUME PipelineInv, Quiet, NEW q \in R!Request, q \in queued,
           outcome[q] = "accepted", queue[q] \notin {"dropped", "lost"}
    PROVE  queue[q] = "acked"
BY DEF PipelineInv, TakenHaveArrived, Quiet, L!Gone

(* Whatever fails in either part: an event whose handler ended is stored,  *)
(* once all is quiet, or there is a trace of what became of it.            *)
THEOREM EndedIsStoredHolds == Spec => []EndedIsStored
<1>1. PipelineInv /\ FormsAreSubmitted /\ RP!EndedEventIsSettled
        /\ LP!AckedIsStored => EndedIsStored
  <2> SUFFICES ASSUME PipelineInv, FormsAreSubmitted, RP!EndedEventIsSettled,
                      LP!AckedIsStored, Quiet,
                      NEW r \in R!Request, pc[r] = "closed",
                      R!Verdict(Form[r[1]]) = "event"
               PROVE  \/ KeyOf(r[1]) \in events
                      \/ \E q \in R!Request : Trace(q, r)
    BY DEF EndedIsStored
  <2>1. PICK q \in R!Request : Settles(q, r)
    BY EndedHaveSettler
  <2>2. KeyOf(q[1]) = KeyOf(r[1]) /\ (queue[q] = "acked" \/ Trace(q, r))
    BY <2>1, SettledIsAcked DEF Settles, Trace
  <2> QED
    BY <2>2 DEF LP!AckedIsStored
<1>2. LP!Spec => []LP!AckedIsStored
  BY LP!AckedIsStoredHolds, WorkerAssumption
<1>3. RP!Spec => []RP!EndedEventIsSettled
  BY RP!EndedEventIsSettledHolds, ReceiverAssumption
<1> QED
  BY <1>1, <1>2, <1>3, WorkerSpec, ReceiverSpec, FormsStay, InitPipelineInv,
     NextPipelineInv, PTL DEF Spec

(* While no publish of the consumer fails, no result set is lost and the   *)
(* worker lives, such an event is in all four channels, or there is a      *)
(* trace of what became of it.                                             *)
THEOREM EndedIsAccountedForHolds ==
    ASSUME {"reply", "publish", "crash"} \cap WorkerFaults = {}
    PROVE  Spec => []EndedIsAccountedFor
<1>1. PipelineInv /\ FormsAreSubmitted /\ RP!EndedEventIsSettled
        /\ LP!AckedIsDistributed => EndedIsAccountedFor
  <2> SUFFICES ASSUME PipelineInv, FormsAreSubmitted, RP!EndedEventIsSettled,
                      LP!AckedIsDistributed, Quiet,
                      NEW r \in R!Request, pc[r] = "closed",
                      R!Verdict(Form[r[1]]) = "event"
               PROVE  \/ Distributed(KeyOf(r[1]))
                      \/ \E q \in R!Request : Trace(q, r)
    BY DEF EndedIsAccountedFor, Trace
  <2>1. PICK q \in R!Request : Settles(q, r)
    BY EndedHaveSettler
  <2>2. KeyOf(q[1]) = KeyOf(r[1]) /\ (queue[q] = "acked" \/ Trace(q, r))
    BY <2>1, SettledIsAcked DEF Settles, Trace
  <2>3. ~LP!Busy(KeyOf(q[1]))
    BY QuietHasNoneBusy, KeysOfWebhooks DEF R!Request
  <2> QED
    BY <2>2, <2>3 DEF LP!AckedIsDistributed, Distributed, LP!Channel, L!Channel
<1>2. LP!Spec => []LP!AckedIsDistributed
  BY LP!AckedIsDistributedHolds, WorkerAssumption
<1>3. RP!Spec => []RP!EndedEventIsSettled
  BY RP!EndedEventIsSettledHolds, ReceiverAssumption
<1> QED
  BY <1>1, <1>2, <1>3, WorkerSpec, ReceiverSpec, FormsStay, InitPipelineInv,
     NextPipelineInv, PTL DEF Spec
=============================================================================

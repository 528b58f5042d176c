---------------------------- MODULE AnswerProofs ----------------------------
(***************************************************************************)
(* What the answers of the receiver mean, for every set of webhooks, every *)
(* number of sends and every mix of failures; and what a second message    *)
(* for one natural key takes.                                              *)
(***************************************************************************)
EXTENDS ReceiverProofs

-----------------------------------------------------------------------------
(* The inductive invariant behind what the answers mean.                   *)

(* The outcome is decided before anything is recorded, published, said.    *)
OutcomesAreDecided ==
    \A r \in Request :
        /\ pc[r] \in {"idle", "received"} => outcome[r] = "none"
        /\ pc[r] \in {"recording", "publishing", "replying"} =>
                outcome[r] \in Outcome

QueuedAreLate ==
    \A r \in queued : pc[r] \in {"replying", "failing", "committing", "closed", "dead"}

PublishersAreRecorded ==
    \A r \in Request : pc[r] = "publishing" =>
        Publishes(outcome[r]) /\ (row[r] \/ lost[r])

(* Whoever is about to answer with its outcome, or has, is done with it.   *)
SaysIt(r) == pc[r] = "replying" \/ answer[r] \in Outcome

AnswersAreTrue ==
    \A r \in Request : SaysIt(r) =>
        /\ r \in queued <=> Publishes(outcome[r])
        /\ pc[r] = "dead" \/ row[r] \/ lost[r]

AnswersAreOutcomes ==
    \A r \in Request :
        /\ answer[r] \in Outcome => /\ answer[r] = outcome[r]
                                    /\ pc[r] \in {"committing", "closed", "dead"}
        /\ pc[r] \in {"committing", "closed"} /\ outcome[r] # "none" =>
                answer[r] \in {outcome[r], "unavailable"}

AnswerInv ==
    /\ TypeOK /\ UnsentAreIdle
    /\ OutcomesAreDecided /\ QueuedAreLate /\ PublishersAreRecorded
    /\ AnswersAreTrue /\ AnswersAreOutcomes
-----------------------------------------------------------------------------

(* The invariant, for one request.                                         *)
AnswerOk(q) ==
    /\ pc[q] \in {"idle", "received"} => outcome[q] = "none"
    /\ pc[q] \in {"recording", "publishing", "replying"} => outcome[q] \in Outcome
    /\ q \in queued =>
         pc[q] \in {"replying", "failing", "committing", "closed", "dead"}
    /\ pc[q] = "publishing" => Publishes(outcome[q]) /\ (row[q] \/ lost[q])
    /\ SaysIt(q) => /\ q \in queued <=> Publishes(outcome[q])
                    /\ pc[q] = "dead" \/ row[q] \/ lost[q]
    /\ answer[q] \in Outcome => /\ answer[q] = outcome[q]
                                /\ pc[q] \in {"committing", "closed", "dead"}
    /\ pc[q] \in {"committing", "closed"} /\ outcome[q] # "none" =>
         answer[q] \in {outcome[q], "unavailable"}

LEMMA AnswerInvParts ==
    AnswerInv <=> TypeOK /\ UnsentAreIdle /\ \A q \in Request : AnswerOk(q)
<1>1. ASSUME AnswerInv PROVE \A q \in Request : AnswerOk(q)
  BY <1>1 DEF AnswerInv, AnswerOk, OutcomesAreDecided, QueuedAreLate,
     PublishersAreRecorded, AnswersAreTrue, AnswersAreOutcomes, TypeOK
<1>2. ASSUME TypeOK, UnsentAreIdle, \A q \in Request : AnswerOk(q)
      PROVE  AnswerInv
  BY <1>2 DEF AnswerInv, AnswerOk, OutcomesAreDecided, QueuedAreLate,
     PublishersAreRecorded, AnswersAreTrue, AnswersAreOutcomes, TypeOK
<1> QED
  BY <1>1, <1>2 DEF AnswerInv

LEMMA InitAnswerInv == Init => AnswerInv
<1> SUFFICES ASSUME Init PROVE AnswerInv
  OBVIOUS
<1> QED
  BY InitTypeOK DEF Init, AnswerInv, UnsentAreIdle, OutcomesAreDecided,
     QueuedAreLate, PublishersAreRecorded, AnswersAreTrue, AnswersAreOutcomes,
     SaysIt, Outcome

(* Nothing the invariant looks at changes for q.                           *)
Untouched(q) ==
    /\ pc'[q] = pc[q] /\ outcome'[q] = outcome[q] /\ answer'[q] = answer[q]
    /\ row'[q] = row[q] /\ lost'[q] = lost[q]
    /\ q \in queued' <=> q \in queued

LEMMA UntouchedKeeps ==
    ASSUME NEW q, AnswerOk(q), Untouched(q)
    PROVE  AnswerOk(q)'
BY DEF AnswerOk, Untouched, SaysIt, Publishes

(* A handler's step touches its own request only.                          *)
LEMMA OthersAreUntouched ==
    ASSUME TypeOK, NEW r \in Request, Handle(r) \/ LoseConnection(r) \/ Crash(r),
           NEW q \in Request, q # r
    PROVE  Untouched(q)
<1>1. CASE Reject(r) \/ Fail(r) \/ Validate(r)
  BY <1>1 DEF Reject, Fail, Validate, Respond, Untouched, TypeOK, txnVars, clientVars
<1>2. CASE CheckIdempotency(r) \/ InsertRawPayload(r) \/ StatementFails(r)
  BY <1>2 DEF CheckIdempotency, InsertRawPayload, StatementFails, Untouched,
     TypeOK, txnVars, clientVars
<1>3. CASE Publish(r) \/ PublishFails(r)
  BY <1>3 DEF Publish, PublishFails, Untouched, TypeOK, txnVars, clientVars
<1>4. CASE Reply(r) \/ Refuse(r)
  BY <1>4 DEF Reply, Refuse, Respond, Untouched, TypeOK, txnVars
<1>5. CASE Commit(r) \/ CommitFails(r)
  BY <1>5 DEF Commit, CommitFails, Untouched, TypeOK, txnVars, clientVars
<1>6. CASE LoseConnection(r) \/ Crash(r)
  BY <1>6 DEF LoseConnection, Crash, Forget, Untouched, TypeOK, clientVars
<1> QED
  BY <1>1, <1>2, <1>3, <1>4, <1>5, <1>6 DEF Handle

(* Its own request keeps the invariant, step by step.                      *)
LEMMA HandlerKeeps ==
    ASSUME TypeOK, NEW r \in Request, AnswerOk(r),
           Handle(r) \/ LoseConnection(r) \/ Crash(r)
    PROVE  AnswerOk(r)'
<1> USE DEF AnswerOk, SaysIt, TypeOK, txnVars, clientVars, Outcome
<1>1. CASE Reject(r)
  BY <1>1 DEF Reject, Respond
<1>2. CASE Fail(r)
  BY <1>2 DEF Fail
<1>3. CASE Validate(r)
  BY <1>3 DEF Validate
<1>4. CASE CheckIdempotency(r)
  BY <1>4 DEF CheckIdempotency
<1>5. CASE InsertRawPayload(r)
  BY <1>5 DEF InsertRawPayload
<1>6. CASE StatementFails(r)
  BY <1>6 DEF StatementFails
<1>7. CASE Publish(r)
  BY <1>7 DEF Publish
<1>8. CASE PublishFails(r)
  BY <1>8 DEF PublishFails
<1>9. CASE Reply(r)
  BY <1>9 DEF Reply, Respond
<1>10. CASE Refuse(r)
  BY <1>10 DEF Refuse, Respond
<1>11. CASE Commit(r)
  BY <1>11 DEF Commit
<1>12. CASE CommitFails(r)
  BY <1>12 DEF CommitFails
<1>13. CASE LoseConnection(r)
  BY <1>13 DEF LoseConnection, Forget
<1>14. CASE Crash(r)
  BY <1>14 DEF Crash, Forget, Running, Stage
<1> QED
  BY <1>1, <1>2, <1>3, <1>4, <1>5, <1>6, <1>7, <1>8, <1>9, <1>10, <1>11,
     <1>12, <1>13, <1>14 DEF Handle

LEMMA NextAnswerInv == AnswerInv /\ [Next]_vars => AnswerInv'
<1> SUFFICES ASSUME AnswerInv, [Next]_vars PROVE AnswerInv'
  OBVIOUS
<1>1. TypeOK /\ UnsentAreIdle /\ \A q \in Request : AnswerOk(q)
  BY AnswerInvParts
<1>2. TypeOK' /\ UnsentAreIdle'
  BY <1>1, NextTypeOK, UnsentStayIdle
<1>3. ASSUME NEW q \in Request PROVE AnswerOk(q)'
  <2>1. ASSUME NEW w \in Webhook, Send(w) PROVE AnswerOk(q)'
    <3> DEFINE r == <<w, sent[w] + 1>>
    <3>1. r \in Request /\ r[1] = w /\ r[2] = sent[w] + 1
      BY <1>1, <2>1, ReceiverAssumption DEF Send, TypeOK, Request
    <3>2. pc[r] = "idle"
      BY <1>1, <3>1 DEF UnsentAreIdle, TypeOK
    <3>3. pc' = [pc EXCEPT ![r] = "received"]
          /\ UNCHANGED <<outcome, answer, txnVars, queued>>
      BY <2>1 DEF Send
    <3> HIDE DEF r
    <3>4. CASE q = r
      BY <1>1, <3>1, <3>2, <3>3, <3>4 DEF AnswerOk, SaysIt, TypeOK
    <3>5. CASE q # r
      BY <1>1, <1>3, <3>3, <3>5, UntouchedKeeps DEF Untouched, txnVars, TypeOK
    <3> QED
      BY <3>4, <3>5
  <2>2. ASSUME NEW w \in Webhook, GiveUp(w) PROVE AnswerOk(q)'
    BY <1>1, <2>2, UntouchedKeeps DEF GiveUp, Untouched, txnVars
  <2>3. ASSUME NEW r \in Request, Handle(r) \/ LoseConnection(r) \/ Crash(r)
        PROVE  AnswerOk(q)'
    BY <1>1, <2>3, UntouchedKeeps, OthersAreUntouched, HandlerKeeps
  <2>4. CASE UNCHANGED vars
    BY <1>1, <2>4, UntouchedKeeps DEF vars, Untouched, txnVars
  <2> QED
    BY <2>1, <2>2, <2>3, <2>4 DEF Next, Finished
<1>4. (\A q \in Request : AnswerOk(q))'
  BY <1>3
<1> QED
  BY <1>2, <1>4, AnswerInvParts, PTL

-----------------------------------------------------------------------------
(* A step publishes for one request, answers one, or does neither; what is *)
(* queued keeps its outcome.                                               *)

Still ==
    /\ queued' = queued /\ answer' = answer
    /\ \A q \in queued : outcome'[q] = outcome[q]

Publishing(r) ==
    /\ queued' = queued \cup {r}
    /\ UNCHANGED <<answer, outcome>>

Answering(r) ==
    /\ UNCHANGED <<queued, outcome>>
    /\ answer[r] \notin Outcome
    /\ answer'[r] \in Outcome => pc[r] = "replying" /\ answer'[r] = outcome[r]
    /\ \A q \in Request \ {r} : answer'[q] = answer[q]

LEMMA AnswerSteps ==
    ASSUME AnswerInv, [Next]_vars
    PROVE  Still \/ \E r \in Request : Publishing(r) \/ Answering(r)
<1>1. TypeOK /\ \A q \in Request : AnswerOk(q)
  BY AnswerInvParts
<1>2. ASSUME NEW w \in Webhook, Send(w) \/ GiveUp(w) PROVE Still
  BY <1>2 DEF Send, GiveUp, Still
<1>3. ASSUME NEW r \in Request, Fail(r) \/ CheckIdempotency(r) PROVE Still
  <2>1. r \notin queued
    BY <1>1, <1>3 DEF AnswerOk, Fail, CheckIdempotency
  <2> QED
    BY <1>1, <1>3, <2>1 DEF Fail, CheckIdempotency, Still, TypeOK
<1>4. ASSUME NEW r \in Request,
             \/ Validate(r) \/ InsertRawPayload(r) \/ StatementFails(r)
             \/ Commit(r) \/ CommitFails(r) \/ LoseConnection(r) \/ Crash(r)
      PROVE  Still
  BY <1>4 DEF Validate, InsertRawPayload, StatementFails, Commit, CommitFails,
     LoseConnection, Crash, Still
<1>5. ASSUME NEW r \in Request, Publish(r) \/ PublishFails(r)
      PROVE  Still \/ Publishing(r)
  BY <1>5 DEF Publish, PublishFails, Still, Publishing
<1>6. ASSUME NEW r \in Request, Reject(r) \/ Reply(r) \/ Refuse(r)
      PROVE  Answering(r)
  <2>1. pc[r] \in {"received", "replying", "failing"} /\ answer[r] \notin Outcome
    BY <1>1, <1>6 DEF Reject, Reply, Refuse, AnswerOk
  <2>2. CASE Reject(r) \/ Refuse(r)
    BY <1>1, <2>1, <2>2 DEF Reject, Refuse, Respond, Answering, TypeOK, Outcome
  <2>3. CASE Reply(r)
    BY <1>1, <2>1, <2>3 DEF Reply, Respond, Answering, TypeOK
  <2> QED
    BY <1>6, <2>2, <2>3
<1>7. CASE UNCHANGED vars
  BY <1>7 DEF vars, Still
<1> QED
  BY <1>2, <1>3, <1>4, <1>5, <1>6, <1>7 DEF Next, Handle, Finished

-----------------------------------------------------------------------------
(* The theorems.                                                           *)

(* A webhook is answered accepted, decrypt_failed or schema_failed only    *)
(* with its message in RabbitMQ, and anything else only without one.       *)
THEOREM AnswerMatchesQueueHolds == Spec => []AnswerMatchesQueue
<1>1. AnswerInv => AnswerMatchesQueue
  BY DEF AnswerInv, AnswersAreTrue, AnswersAreOutcomes, SaysIt, AnswerMatchesQueue
<1> QED
  BY <1>1, InitAnswerInv, NextAnswerInv, PTL DEF Spec

(* The audit trail misses an answered webhook only with its connection.    *)
THEOREM AnsweredIsAuditedHolds == Spec => []AnsweredIsAudited
<1>1. AnswerInv => AnsweredIsAudited
  BY DEF AnswerInv, AnswersAreTrue, SaysIt, AnsweredIsAudited
<1> QED
  BY <1>1, InitAnswerInv, NextAnswerInv, PTL DEF Spec

(* A lead that is claimed and not queued was refused with a 503.           *)
THEOREM SwallowedLeadWasRefusedHolds == Spec => []SwallowedLeadWasRefused
<1>1. AnswerInv => SwallowedLeadWasRefused
  <2> SUFFICES ASSUME AnswerInv, NEW r \in Request, pc[r] = "closed",
                      outcome[r] = "accepted", r \notin queued
               PROVE  answer[r] = "unavailable"
    BY DEF SwallowedLeadWasRefused
  <2>1. answer[r] \in {"accepted", "unavailable"}
    BY DEF AnswerInv, AnswersAreOutcomes
  <2>2. answer[r] # "accepted"
    BY DEF AnswerInv, AnswersAreTrue, SaysIt, Outcome, Publishes
  <2> QED
    BY <2>1, <2>2
<1> QED
  BY <1>1, InitAnswerInv, NextAnswerInv, PTL DEF Spec

(* A second message for one natural key takes a lost transaction, or a     *)
(* correlation id of the sender's that the driver takes for new.           *)
THEOREM SecondLeadNeedsLostTransactionHolds ==
    Spec => []SecondLeadNeedsLostTransaction
<1>1. FirstSeenInv => SecondLeadNeedsLostTransaction
  <2> SUFFICES ASSUME FirstSeenInv, NEW q \in queued, NEW r \in queued,
                      outcome[q] = "accepted", outcome[r] = "accepted",
                      NaturalKey(q) = NaturalKey(r),
                      claim[q] # "none", claim[r] # "none",
                      ~Mistakable(q), ~Mistakable(r)
               PROVE  q = r
    BY DEF SecondLeadNeedsLostTransaction, Mistakable
  <2>1. q \in Request /\ r \in Request
    BY DEF FirstSeenInv, ClaimInv, TypeOK
  <2>2. claim[q] = "inserted" /\ claim[r] = "inserted"
    BY <2>1 DEF FirstSeenInv, UpdatesAreDuplicates, ClaimInv, TypeOK
  <2> QED
    BY <2>1, <2>2 DEF FirstSeenInv, ClaimInv, OneClaimPerKey
<1> QED
  BY <1>1, InitFirstSeenInv, NextFirstSeenInv, PTL DEF Spec
-----------------------------------------------------------------------------
(* What becomes of an event: how far its outcome and its claim follow from *)
(* the webhook, and what it is told when nothing was decided.              *)

EventOk(q) ==
    /\ claim[q] # "none" \/ pc[q] = "claiming" => Verdict(S(q)) = "event"
    /\ claim[q] = "inserted" => FirstSeen(outcome[q])
    /\ outcome[q] = "accepted" => S(q).approved
    /\ outcome[q] = "discarded_non_approved" => ~S(q).approved
    /\ Verdict(S(q)) = "event" =>
         /\ outcome[q] \notin {"decrypt_failed", "schema_failed"}
         /\ pc[q] \in {"committing", "closed"} /\ outcome[q] = "none" =>
              answer[q] = "unavailable"

EventInv == AnswerInv /\ \A q \in Request : EventOk(q)

LEMMA InitEventInv == Init => EventInv
BY InitAnswerInv DEF Init, EventInv, EventOk

(* What the invariant looks at, with the claim and the webhook.            *)
LEMMA UntouchedEvent ==
    ASSUME NEW q, EventOk(q), Untouched(q), claim'[q] = claim[q], UNCHANGED sub
    PROVE  EventOk(q)'
BY DEF EventOk, Untouched, FirstSeen, S

LEMMA OthersKeepClaims ==
    ASSUME TypeOK, NEW r \in Request, Handle(r) \/ LoseConnection(r) \/ Crash(r),
           NEW q \in Request, q # r
    PROVE  claim'[q] = claim[q]
BY DEF Handle, Reject, Fail, Validate, CheckIdempotency, InsertRawPayload,
   StatementFails, Publish, PublishFails, Reply, Refuse, Commit, CommitFails,
   LoseConnection, Crash, Forget, TypeOK, txnVars

LEMMA WebhooksStay ==
    ASSUME [Next]_vars
    PROVE  UNCHANGED sub
BY DEF Next, Send, GiveUp, Handle, Reject, Fail, Validate, CheckIdempotency,
   InsertRawPayload, StatementFails, Publish, PublishFails, Reply, Refuse,
   Commit, CommitFails, LoseConnection, Crash, Finished, vars

LEMMA HandlerKeepsEvent ==
    ASSUME TypeOK, NEW r \in Request, AnswerOk(r), EventOk(r), UNCHANGED sub,
           Handle(r) \/ LoseConnection(r) \/ Crash(r)
    PROVE  EventOk(r)'
<1> USE DEF EventOk, TypeOK, txnVars, clientVars, Outcome, FirstSeen, S
<1>1. CASE Reject(r)
  BY <1>1 DEF Reject, Respond
<1>2. CASE Fail(r)
  BY <1>2 DEF Fail, AnswerOk
<1>3. CASE Validate(r)
  BY <1>3 DEF Validate
<1>4. CASE CheckIdempotency(r)
  <2>1. processed[NaturalKey(r)] = NoId => RowCount(r) = 1
    BY DEF RowCount
  <2> QED
    BY <1>4, <2>1 DEF CheckIdempotency
<1>5. CASE InsertRawPayload(r)
  BY <1>5 DEF InsertRawPayload
<1>6. CASE StatementFails(r)
  BY <1>6 DEF StatementFails
<1>7. CASE Publish(r)
  BY <1>7 DEF Publish
<1>8. CASE PublishFails(r)
  BY <1>8 DEF PublishFails
<1>9. CASE Reply(r)
  BY <1>9 DEF Reply, Respond, AnswerOk
<1>10. CASE Refuse(r)
  BY <1>10 DEF Refuse, Respond
<1>11. CASE Commit(r)
  BY <1>11 DEF Commit
<1>12. CASE CommitFails(r)
  BY <1>12 DEF CommitFails
<1>13. CASE LoseConnection(r)
  BY <1>13 DEF LoseConnection, Forget
<1>14. CASE Crash(r)
  BY <1>14 DEF Crash, Forget, Running, Stage
<1> QED
  BY <1>1, <1>2, <1>3, <1>4, <1>5, <1>6, <1>7, <1>8, <1>9, <1>10, <1>11,
     <1>12, <1>13, <1>14 DEF Handle

LEMMA NextEventInv == EventInv /\ [Next]_vars => EventInv'
<1> SUFFICES ASSUME EventInv, [Next]_vars PROVE EventInv'
  OBVIOUS
<1>1. /\ TypeOK /\ UnsentAreIdle /\ \A q \in Request : AnswerOk(q)
      /\ \A q \in Request : EventOk(q)
      /\ UNCHANGED sub
  BY AnswerInvParts, WebhooksStay DEF EventInv
<1>2. AnswerInv'
  BY NextAnswerInv DEF EventInv
<1>3. ASSUME NEW q \in Request PROVE EventOk(q)'
  <2>1. ASSUME NEW w \in Webhook, Send(w) PROVE EventOk(q)'
    <3> DEFINE r == <<w, sent[w] + 1>>
    <3>1. pc' = [pc EXCEPT ![r] = "received"]
          /\ UNCHANGED <<outcome, answer, txnVars>>
      BY <2>1 DEF Send
    <3> HIDE DEF r
    <3>2. pc'[q] \in {pc[q], "received"}
      BY <1>1, <3>1 DEF TypeOK
    <3> QED
      BY <1>1, <3>1, <3>2 DEF EventOk, FirstSeen, S, txnVars
  <2>2. ASSUME NEW w \in Webhook, GiveUp(w) PROVE EventOk(q)'
    BY <1>1, <2>2, UntouchedEvent DEF GiveUp, Untouched, txnVars
  <2>3. ASSUME NEW r \in Request, Handle(r) \/ LoseConnection(r) \/ Crash(r)
        PROVE  EventOk(q)'
    BY <1>1, <2>3, UntouchedEvent, OthersAreUntouched, OthersKeepClaims,
       HandlerKeepsEvent
  <2>4. CASE UNCHANGED vars
    BY <1>1, <2>4, UntouchedEvent DEF vars, Untouched, txnVars
  <2> QED
    BY <2>1, <2>2, <2>3, <2>4 DEF Next, Finished
<1>4. (\A q \in Request : EventOk(q))'
  BY <1>3
<1> QED
  BY <1>2, <1>4 DEF EventInv

(* No event is left in between, whatever fails around its handler: when it *)
(* ended, the lead was taken, or discarded, or somebody was told 503.      *)
THEOREM EndedEventIsSettledHolds == Spec => []EndedEventIsSettled
<1>1. EventInv /\ DuplicateIsBacked => EndedEventIsSettled
  <2> SUFFICES ASSUME EventInv, DuplicateIsBacked, NEW r \in Request,
                      pc[r] = "closed", Verdict(S(r)) = "event"
               PROVE  \E q \in Request :
                        /\ NaturalKey(q) = NaturalKey(r)
                        /\ \/ q \in queued /\ outcome[q] = "accepted"
                           \/ /\ outcome[q] = "discarded_non_approved"
                              /\ ~S(q).approved
                           \/ answer[q] = "unavailable"
    BY DEF EndedEventIsSettled
  <2>1. ASSUME NEW q \in Request, pc[q] = "closed", FirstSeen(outcome[q])
        PROVE  \/ q \in queued /\ outcome[q] = "accepted"
               \/ outcome[q] = "discarded_non_approved" /\ ~S(q).approved
               \/ answer[q] = "unavailable"
    <3>1. CASE outcome[q] = "accepted"
      BY <2>1, <3>1 DEF EventInv, AnswerInv, AnswersAreOutcomes, AnswersAreTrue,
         SaysIt, Outcome, Publishes
    <3>2. CASE outcome[q] = "discarded_non_approved"
      BY <3>2 DEF EventInv, EventOk
    <3> QED
      BY <2>1, <3>1, <3>2 DEF FirstSeen
  <2>2. CASE FirstSeen(outcome[r])
    BY <2>1, <2>2
  <2>3. CASE outcome[r] = "none"
    BY <2>3 DEF EventInv, EventOk
  <2>4. CASE outcome[r] = "duplicate"
    <3>1. PICK q \in Request : /\ pc[q] = "closed" /\ claim[q] = "inserted"
                               /\ NaturalKey(q) = NaturalKey(r)
      BY <2>4 DEF DuplicateIsBacked
    <3> QED
      BY <2>1, <3>1 DEF EventInv, EventOk
  <2> QED
    BY <2>2, <2>3, <2>4 DEF EventInv, EventOk, AnswerInv, TypeOK, Outcome,
       FirstSeen
<1> QED
  BY <1>1, DuplicateIsBackedHolds, InitEventInv, NextEventInv, PTL DEF Spec
=============================================================================

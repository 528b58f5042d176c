--------------------------- MODULE ReceiverProofs ---------------------------
(***************************************************************************)
(* What Receiver keeps for every set of webhooks, every number of sends    *)
(* and every mix of failures.                                              *)
(***************************************************************************)
EXTENDS Receiver, TLAPS

-----------------------------------------------------------------------------
(* The inductive invariant behind the three idempotency properties.        *)

(* The gateway of every request that got past step 1 is a valid one.       *)
ClaimsHaveKeys ==
    \A r \in Request :
        claim[r] # "none" \/ pc[r] = "claiming" => NaturalKey(r) \in Key

(* A claim belongs to a transaction that is alive or committed.            *)
ClaimsAreHeld ==
    \A r \in Request : claim[r] # "none" =>
        /\ ~lost[r]
        /\ pc[r] \in {"recording", "publishing", "replying", "failing",
                      "committing", "closed"}

(* The lock excludes: one live transaction per key.                        *)
LockIsExclusive ==
    \A q, r \in Request : q # r /\ claim[q] # "none" /\ claim[r] # "none"
        /\ NaturalKey(q) = NaturalKey(r) => "closed" \in {pc[q], pc[r]}

(* A committed row was inserted by a closed request and names the last     *)
(* closed request that wrote it.                                           *)
RowsHaveWriters ==
    \A k \in Key : processed[k] # NoId =>
        /\ \E q \in Request : pc[q] = "closed" /\ claim[q] = "inserted"
                              /\ NaturalKey(q) = k
        /\ \E q \in Request : pc[q] = "closed" /\ claim[q] # "none"
                              /\ processed[k] = Correlation(q)

(* An insert found no row and has one to show once it is committed; an     *)
(* update found one.                                                       *)
ClaimsMatchRows ==
    \A r \in Request :
        /\ claim[r] = "inserted" =>
             (pc[r] = "closed" <=> processed[NaturalKey(r)] # NoId)
        /\ claim[r] = "updated" => processed[NaturalKey(r)] # NoId

UnsentAreIdle == \A r \in Request : r[2] > sent[r[1]] => pc[r] = "idle"

(* The driver may take the row of a request with its own correlation id,   *)
(* found unchanged, for a new one.                                         *)
Mistakable(r) == FoundRows /\ S(r).header

UpdatesAreDuplicates ==
    \A r \in Request :
        claim[r] = "updated" /\ ~Mistakable(r) => outcome[r] = "duplicate"

(* A first-seen request has its claim, or has lost that and its row.       *)
FirstSeenHaveClaims ==
    \A r \in Request : FirstSeen(outcome[r]) =>
        \/ claim[r] # "none"
        \/ ~row[r] /\ (lost[r] \/ pc[r] = "dead")

ClaimInv ==
    /\ TypeOK /\ UnsentAreIdle
    /\ ClaimsHaveKeys /\ ClaimsAreHeld /\ LockIsExclusive
    /\ RowsHaveWriters /\ ClaimsMatchRows
    /\ OneClaimPerKey /\ DuplicateIsBacked

FirstSeenInv == ClaimInv /\ UpdatesAreDuplicates /\ FirstSeenHaveClaims

-----------------------------------------------------------------------------

(* Every initial state is well typed.                                      *)
LEMMA InitTypeOK == Init => TypeOK
BY ReceiverAssumption DEF Init, TypeOK, Stage, Outcome

(* The client's bookkeeping stays in its type when a response arrives.     *)
LEMMA RespondType ==
    ASSUME TypeOK, NEW r \in Request,
           NEW a \in Outcome \cup {"none", "rejected", "unavailable"},
           Respond(r, a)
    PROVE  /\ answer' \in [Request -> Outcome \cup {"none", "rejected", "unavailable"}]
           /\ client' \in [Webhook -> {"ready", "waiting", "done"}]
           /\ sent' = sent
BY DEF TypeOK, Respond, AfterFailure, Request

(* A request is a webhook and the number of one of its sends.              *)
LEMMA RequestParts ==
    ASSUME NEW r \in Request
    PROVE  r[1] \in Webhook /\ r[2] \in 1 .. MaxSends /\ r = <<r[1], r[2]>>
BY DEF Request

LEMMA CorrelationType ==
    ASSUME NEW r \in Request
    PROVE  Correlation(r) \in CorrelationId
BY RequestParts, ReceiverAssumption DEF Correlation, CorrelationId, Request

(* Every step keeps the types.                                             *)
LEMMA NextTypeOK == TypeOK /\ [Next]_vars => TypeOK'
<1> SUFFICES ASSUME TypeOK, [Next]_vars PROVE TypeOK'
  OBVIOUS
<1> USE ReceiverAssumption
<1>1. ASSUME NEW w \in Webhook, Send(w) PROVE TypeOK'
  <2>1. sent' \in [Webhook -> 0 .. MaxSends]
    BY <1>1 DEF Send, TypeOK
  <2> QED
    BY <1>1, <2>1 DEF Send, TypeOK, Stage, txnVars
<1>2. ASSUME NEW w \in Webhook, GiveUp(w) PROVE TypeOK'
  BY <1>2 DEF GiveUp, TypeOK, AfterFailure, txnVars
<1>3. ASSUME NEW r \in Request, Handle(r) PROVE TypeOK'
  <2>1. CASE Reject(r)
    BY <2>1, RespondType DEF Reject, TypeOK, Stage, txnVars
  <2>2. CASE Fail(r)
    BY <2>2 DEF Fail, TypeOK, Stage, Outcome, txnVars, clientVars
  <2>3. CASE Validate(r)
    BY <2>3 DEF Validate, TypeOK, Stage, txnVars, clientVars
  <2>4. CASE CheckIdempotency(r)
    BY <2>4 DEF CheckIdempotency, TypeOK, Stage, Outcome, clientVars
  <2>5. CASE InsertRawPayload(r)
    BY <2>5 DEF InsertRawPayload, TypeOK, Stage, clientVars
  <2>6. CASE StatementFails(r)
    BY <2>6 DEF StatementFails, TypeOK, Stage, txnVars, clientVars
  <2>7. CASE Publish(r)
    BY <2>7 DEF Publish, TypeOK, Stage, txnVars, clientVars
  <2>8. CASE PublishFails(r)
    BY <2>8 DEF PublishFails, TypeOK, Stage, txnVars, clientVars
  <2>9. CASE Reply(r)
    <3>1. outcome[r] \in Outcome \cup {"none", "rejected", "unavailable"}
      BY DEF TypeOK
    <3> QED
      BY <2>9, <3>1, RespondType DEF Reply, TypeOK, Stage, txnVars
  <2>10. CASE Refuse(r)
    BY <2>10, RespondType DEF Refuse, TypeOK, Stage, txnVars
  <2>11. CASE Commit(r)
    BY <2>11, CorrelationType DEF Commit, TypeOK, Stage, txnVars, clientVars
  <2>12. CASE CommitFails(r)
    BY <2>12 DEF CommitFails, TypeOK, Stage, txnVars, clientVars
  <2> QED
    BY <1>3, <2>1, <2>2, <2>3, <2>4, <2>5, <2>6, <2>7, <2>8, <2>9, <2>10,
       <2>11, <2>12 DEF Handle
<1>4. ASSUME NEW r \in Request, LoseConnection(r) PROVE TypeOK'
  BY <1>4 DEF LoseConnection, Forget, TypeOK, clientVars
<1>5. ASSUME NEW r \in Request, Crash(r) PROVE TypeOK'
  BY <1>5 DEF Crash, Forget, TypeOK, Stage, clientVars
<1>6. CASE UNCHANGED vars
  BY <1>6 DEF vars, TypeOK, txnVars, clientVars
<1> QED
  BY <1>1, <1>2, <1>3, <1>4, <1>5, <1>6 DEF Next, Finished

(* Every reachable state is well typed.                                    *)
THEOREM TypeCorrect == Spec => []TypeOK
BY InitTypeOK, NextTypeOK, PTL DEF Spec
-----------------------------------------------------------------------------
(* Claims.  A step either checks the idempotency of a request, commits it, *)
(* undoes its transaction, or is quiet: it leaves processed_events alone.  *)

Held == {"recording", "publishing", "replying", "failing", "committing"}

Others(r) ==
    \A q \in Request \ {r} :
        pc'[q] = pc[q] /\ claim'[q] = claim[q] /\ lost'[q] = lost[q]

Quiet(r) ==
    /\ UNCHANGED <<sub, claim, lost, processed>>
    /\ Others(r)
    /\ pc[r] # "closed"
    /\ pc'[r] = "claiming" => NaturalKey(r) \in Key
    /\ claim[r] # "none" => pc'[r] \in Held
    /\ \A q \in Request : outcome'[q] = "duplicate" => outcome[q] = "duplicate"

Aside == UNCHANGED <<sub, pc, outcome, claim, lost, processed>>

Undone(r) ==
    /\ UNCHANGED <<sub, processed, outcome>>
    /\ Others(r)
    /\ pc[r] # "closed" /\ pc'[r] # "closed"
    /\ pc'[r] = "claiming" => pc[r] = "claiming"
    /\ claim'[r] = "none"

(* A request that validates has a natural key.                             *)
LEMMA EventHasKey ==
    ASSUME TypeOK, NEW r \in Request, Verdict(S(r)) = "event"
    PROVE  NaturalKey(r) \in Key
<1>1. S(r) \in Submission
  BY RequestParts, ReceiverAssumption DEF TypeOK, S
<1> QED
  BY <1>1 DEF Verdict, NaturalKey, Key, Submission

(* Natural keys and correlation ids depend on nothing but the submission.  *)
LEMMA KeysStay ==
    ASSUME UNCHANGED sub, NEW r
    PROVE  NaturalKey(r)' = NaturalKey(r) /\ Correlation(r)' = Correlation(r)
BY DEF NaturalKey, Correlation, S

(* Every step is of one of the four kinds.                                 *)
LEMMA StepKinds ==
    ASSUME ClaimInv, [Next]_vars
    PROVE  \/ Aside
           \/ \E r \in Request : \/ CheckIdempotency(r) \/ Commit(r)
                                 \/ Quiet(r) \/ Undone(r)
<1> USE ReceiverAssumption
<1> USE DEF ClaimInv
<1>1. ASSUME NEW w \in Webhook, Send(w) PROVE \E r \in Request : Quiet(r)
  <2> DEFINE r == <<w, sent[w] + 1>>
  <2>1. r \in Request /\ r[1] = w /\ r[2] = sent[w] + 1
    BY <1>1 DEF Send, TypeOK, Request
  <2>2. pc[r] = "idle"
    BY <2>1 DEF UnsentAreIdle, TypeOK
  <2>3. claim[r] = "none"
    BY <2>1, <2>2 DEF ClaimsAreHeld
  <2>4. pc' = [pc EXCEPT ![r] = "received"]
    BY <1>1 DEF Send
  <2>5. UNCHANGED <<sub, claim, lost, processed, outcome>>
    BY <1>1 DEF Send, txnVars
  <2> HIDE DEF r
  <2>6. Quiet(r)
    BY <2>1, <2>2, <2>3, <2>4, <2>5 DEF Quiet, Others, TypeOK
  <2> QED
    BY <2>1, <2>6
<1>2. ASSUME NEW w \in Webhook, GiveUp(w) PROVE Aside
  BY <1>2 DEF GiveUp, Aside, txnVars
<1>3. ASSUME NEW r \in Request, Handle(r)
      PROVE  CheckIdempotency(r) \/ Commit(r) \/ Quiet(r)
  <2>1. CASE Reject(r)
    BY <2>1 DEF Reject, Quiet, Others, TypeOK, ClaimsAreHeld, txnVars
  <2>2. CASE Fail(r)
    BY <2>2 DEF Fail, Quiet, Others, TypeOK, ClaimsAreHeld, txnVars
  <2>3. CASE Validate(r)
    BY <2>3, EventHasKey DEF Validate, Quiet, Others, TypeOK, ClaimsAreHeld, txnVars
  <2>4. CASE InsertRawPayload(r)
    BY <2>4 DEF InsertRawPayload, Quiet, Others, TypeOK, Held
  <2>5. CASE StatementFails(r)
    BY <2>5 DEF StatementFails, Quiet, Others, TypeOK, Held, txnVars
  <2>6. CASE Publish(r)
    BY <2>6 DEF Publish, Quiet, Others, TypeOK, Held, txnVars
  <2>7. CASE PublishFails(r)
    BY <2>7 DEF PublishFails, Quiet, Others, TypeOK, Held, txnVars
  <2>8. CASE Reply(r)
    BY <2>8 DEF Reply, Quiet, Others, TypeOK, Held, txnVars
  <2>9. CASE Refuse(r)
    BY <2>9 DEF Refuse, Quiet, Others, TypeOK, Held, txnVars
  <2>10. CASE CommitFails(r)
    BY <2>10 DEF CommitFails, Quiet, Others, TypeOK, ClaimsAreHeld, txnVars
  <2> QED
    BY <1>3, <2>1, <2>2, <2>3, <2>4, <2>5, <2>6, <2>7, <2>8, <2>9, <2>10
    DEF Handle
<1>4. ASSUME NEW r \in Request, LoseConnection(r) PROVE Undone(r)
  BY <1>4 DEF LoseConnection, Forget, Undone, Others, TypeOK
<1>5. ASSUME NEW r \in Request, Crash(r) PROVE Undone(r)
  BY <1>5 DEF Crash, Forget, Undone, Others, TypeOK, Running, Stage
<1>6. CASE UNCHANGED vars
  BY <1>6 DEF vars, Aside, txnVars
<1> QED
  BY <1>1, <1>2, <1>3, <1>4, <1>5, <1>6 DEF Next, Finished

(* Only a send touches the counter, and it wakes the request it counts.    *)
LEMMA UnsentStayIdle ==
    ASSUME TypeOK, UnsentAreIdle, [Next]_vars
    PROVE  UnsentAreIdle'
<1> SUFFICES ASSUME NEW r \in Request, r[2] > sent'[r[1]]
             PROVE  pc'[r] = "idle"
  BY DEF UnsentAreIdle
<1> USE RequestParts, ReceiverAssumption
<1>1. ASSUME NEW w \in Webhook, Send(w) PROVE pc'[r] = "idle"
  <2>1. r # <<w, sent[w] + 1>> /\ r[2] > sent[r[1]]
    BY <1>1 DEF Send, TypeOK
  <2>2. pc[r] = "idle"
    BY <2>1 DEF UnsentAreIdle
  <2> QED
    BY <1>1, <2>1, <2>2 DEF Send, TypeOK
<1>2. ASSUME NEW w \in Webhook, GiveUp(w) PROVE pc'[r] = "idle"
  BY <1>2 DEF GiveUp, UnsentAreIdle
<1>3. ASSUME NEW q \in Request, Handle(q) \/ LoseConnection(q) \/ Crash(q)
      PROVE  pc'[r] = "idle"
  <2>1. sent' = sent /\ pc[q] # "idle" /\ \E x : pc' = [pc EXCEPT ![q] = x]
    <3>1. CASE LoseConnection(q)
      BY <3>1 DEF LoseConnection, clientVars, TypeOK
    <3>2. CASE Crash(q)
      BY <3>2 DEF Crash, Running, clientVars, TypeOK
    <3>3. CASE Reject(q) \/ Fail(q) \/ Validate(q)
      BY <3>3 DEF Reject, Fail, Validate, Respond, clientVars
    <3>4. CASE CheckIdempotency(q) \/ InsertRawPayload(q) \/ StatementFails(q)
      BY <3>4 DEF CheckIdempotency, InsertRawPayload, StatementFails, clientVars
    <3>5. CASE Publish(q) \/ PublishFails(q)
      BY <3>5 DEF Publish, PublishFails, clientVars
    <3>6. CASE Reply(q) \/ Refuse(q) \/ Commit(q) \/ CommitFails(q)
      BY <3>6 DEF Reply, Refuse, Commit, CommitFails, Respond, clientVars
    <3> QED
      BY <1>3, <3>1, <3>2, <3>3, <3>4, <3>5, <3>6 DEF Handle
  <2>2. pc[r] = "idle"
    BY <2>1 DEF UnsentAreIdle
  <2> QED
    BY <2>1, <2>2 DEF TypeOK
<1>4. CASE UNCHANGED vars
  BY <1>4 DEF vars, clientVars, UnsentAreIdle
<1> QED
  BY <1>1, <1>2, <1>3, <1>4 DEF Next, Finished

(* Nothing is claimed, recorded or answered at the start.                  *)
LEMMA InitClaimInv == Init => ClaimInv
<1> SUFFICES ASSUME Init PROVE ClaimInv
  OBVIOUS
<1>1. TypeOK
  BY InitTypeOK
<1> QED
  BY <1>1 DEF Init, ClaimInv, UnsentAreIdle, ClaimsHaveKeys, ClaimsAreHeld,
     LockIsExclusive, RowsHaveWriters, ClaimsMatchRows, OneClaimPerKey,
     DuplicateIsBacked

ClaimParts ==
    /\ ClaimsHaveKeys /\ ClaimsAreHeld /\ LockIsExclusive
    /\ RowsHaveWriters /\ ClaimsMatchRows
    /\ OneClaimPerKey /\ DuplicateIsBacked

(* A step that leaves processed_events and the claims alone.               *)
LEMMA QuietKeeps ==
    ASSUME ClaimInv, TypeOK', NEW r \in Request, Quiet(r)
    PROVE  ClaimParts'
<1> USE KeysStay
<1>0. TypeOK
  BY DEF ClaimInv
<1>1. UNCHANGED <<sub, claim, lost, processed>> /\ pc[r] # "closed"
  BY DEF Quiet
<1>2. \A q \in Request : q # r => pc'[q] = pc[q]
  BY DEF Quiet, Others
<1>3. claim[r] # "none" => pc'[r] # "closed"
  BY DEF Quiet, Held
<1>4. ClaimsHaveKeys'
  BY <1>0, <1>1, <1>2 DEF ClaimInv, ClaimsHaveKeys, Quiet, ClaimsAreHeld
<1>5. ClaimsAreHeld'
  BY <1>1, <1>2 DEF ClaimInv, ClaimsAreHeld, Quiet, Held
<1>6. LockIsExclusive'
  BY <1>1, <1>2 DEF ClaimInv, LockIsExclusive
<1>7. RowsHaveWriters'
  <2> SUFFICES ASSUME NEW k \in Key, processed[k] # NoId
               PROVE  /\ \E q \in Request : pc'[q] = "closed" /\ claim[q] = "inserted"
                                            /\ NaturalKey(q) = k
                      /\ \E q \in Request : pc'[q] = "closed" /\ claim[q] # "none"
                                            /\ processed[k] = Correlation(q)
    BY <1>1 DEF RowsHaveWriters
  <2> QED
    BY <1>1, <1>2 DEF ClaimInv, RowsHaveWriters
<1>8. ClaimsMatchRows'
  BY <1>1, <1>2, <1>3 DEF ClaimInv, ClaimsMatchRows
<1>9. OneClaimPerKey'
  BY <1>1 DEF ClaimInv, OneClaimPerKey
<1>10. DuplicateIsBacked'
  <2> SUFFICES ASSUME NEW q \in Request, outcome'[q] = "duplicate"
               PROVE  \E p \in Request \ {q} :
                        /\ pc'[p] = "closed" /\ claim[p] = "inserted"
                        /\ NaturalKey(p) = NaturalKey(q)
    BY <1>1 DEF DuplicateIsBacked
  <2>1. PICK p \in Request \ {q} : /\ pc[p] = "closed" /\ claim[p] = "inserted"
                                   /\ NaturalKey(p) = NaturalKey(q)
    BY DEF Quiet, ClaimInv, DuplicateIsBacked
  <2> QED
    BY <1>1, <1>2, <2>1
<1> QED
  BY <1>4, <1>5, <1>6, <1>7, <1>8, <1>9, <1>10 DEF ClaimParts

(* Undoing a transaction frees its lock and takes no committed claim away. *)
LEMMA UndoneKeeps ==
    ASSUME ClaimInv, TypeOK', NEW r \in Request, Undone(r)
    PROVE  ClaimParts'
<1> USE KeysStay
<1>0. TypeOK
  BY DEF ClaimInv
<1>1. /\ UNCHANGED <<sub, processed, outcome>>
      /\ pc[r] # "closed" /\ pc'[r] # "closed" /\ claim'[r] = "none"
  BY DEF Undone
<1>2. \A q \in Request : q # r =>
        pc'[q] = pc[q] /\ claim'[q] = claim[q] /\ lost'[q] = lost[q]
  BY DEF Undone, Others
<1>4. ClaimsHaveKeys'
  BY <1>1, <1>2 DEF ClaimInv, ClaimsHaveKeys, Undone
<1>5. ClaimsAreHeld'
  BY <1>1, <1>2 DEF ClaimInv, ClaimsAreHeld
<1>6. LockIsExclusive'
  BY <1>1, <1>2 DEF ClaimInv, LockIsExclusive
<1>7. RowsHaveWriters'
  <2> SUFFICES ASSUME NEW k \in Key, processed[k] # NoId
               PROVE  /\ \E q \in Request : pc'[q] = "closed" /\ claim'[q] = "inserted"
                                            /\ NaturalKey(q) = k
                      /\ \E q \in Request : pc'[q] = "closed" /\ claim'[q] # "none"
                                            /\ processed[k] = Correlation(q)
    BY <1>1 DEF RowsHaveWriters
  <2>1. PICK q \in Request : pc[q] = "closed" /\ claim[q] = "inserted"
                             /\ NaturalKey(q) = k
    BY DEF ClaimInv, RowsHaveWriters
  <2>2. PICK p \in Request : pc[p] = "closed" /\ claim[p] # "none"
                             /\ processed[k] = Correlation(p)
    BY DEF ClaimInv, RowsHaveWriters
  <2> QED
    BY <1>1, <1>2, <2>1, <2>2
<1>8. ClaimsMatchRows'
  BY <1>1, <1>2 DEF ClaimInv, ClaimsMatchRows
<1>9. OneClaimPerKey'
  BY <1>1, <1>2 DEF ClaimInv, OneClaimPerKey
<1>10. DuplicateIsBacked'
  <2> SUFFICES ASSUME NEW q \in Request, outcome[q] = "duplicate"
               PROVE  \E p \in Request \ {q} :
                        /\ pc'[p] = "closed" /\ claim'[p] = "inserted"
                        /\ NaturalKey(p) = NaturalKey(q)
    BY <1>1 DEF DuplicateIsBacked
  <2>1. PICK p \in Request \ {q} : /\ pc[p] = "closed" /\ claim[p] = "inserted"
                                   /\ NaturalKey(p) = NaturalKey(q)
    BY DEF ClaimInv, DuplicateIsBacked
  <2> QED
    BY <1>1, <1>2, <2>1
<1> QED
  BY <1>4, <1>5, <1>6, <1>7, <1>8, <1>9, <1>10 DEF ClaimParts

(* The claim: the lock rules out a live rival, the row a committed one.    *)
LEMMA CheckIdempotencyKeeps ==
    ASSUME ClaimInv, TypeOK', NEW r \in Request, CheckIdempotency(r)
    PROVE  ClaimParts'
<1> USE KeysStay
<1> DEFINE k == NaturalKey(r)
<1>0. TypeOK
  BY DEF ClaimInv
<1>1. /\ UNCHANGED <<sub, processed, lost>>
      /\ pc[r] = "claiming" /\ pc'[r] = "recording" /\ ~lost[r]
      /\ claim'[r] = IF processed[k] = NoId THEN "inserted" ELSE "updated"
  BY <1>0 DEF CheckIdempotency, TypeOK
<1>2. \A q \in Request : q # r =>
        pc'[q] = pc[q] /\ claim'[q] = claim[q] /\ outcome'[q] = outcome[q]
  BY <1>0 DEF CheckIdempotency, TypeOK
<1>3. \A q \in Request : q # r /\ claim[q] # "none" /\ NaturalKey(q) = k
        => pc[q] = "closed"
  BY DEF CheckIdempotency, Locks
<1>4. ClaimsHaveKeys'
  BY <1>1, <1>2 DEF ClaimInv, ClaimsHaveKeys
<1>5. ClaimsAreHeld'
  BY <1>1, <1>2 DEF ClaimInv, ClaimsAreHeld
<1>6. LockIsExclusive'
  BY <1>1, <1>2, <1>3 DEF ClaimInv, LockIsExclusive
<1>7. RowsHaveWriters'
  <2> SUFFICES ASSUME NEW j \in Key, processed[j] # NoId
               PROVE  /\ \E q \in Request : pc'[q] = "closed" /\ claim'[q] = "inserted"
                                            /\ NaturalKey(q) = j
                      /\ \E q \in Request : pc'[q] = "closed" /\ claim'[q] # "none"
                                            /\ processed[j] = Correlation(q)
    BY <1>1 DEF RowsHaveWriters
  <2>1. PICK q \in Request : pc[q] = "closed" /\ claim[q] = "inserted"
                             /\ NaturalKey(q) = j
    BY DEF ClaimInv, RowsHaveWriters
  <2>2. PICK p \in Request : pc[p] = "closed" /\ claim[p] # "none"
                             /\ processed[j] = Correlation(p)
    BY DEF ClaimInv, RowsHaveWriters
  <2> QED
    BY <1>1, <1>2, <2>1, <2>2
<1>8. ClaimsMatchRows'
  BY <1>1, <1>2 DEF ClaimInv, ClaimsMatchRows
<1>9. OneClaimPerKey'
  <2>1. ASSUME NEW q \in Request, q # r, claim[q] = "inserted", NaturalKey(q) = k
        PROVE  claim'[r] # "inserted"
    BY <1>1, <1>3, <2>1 DEF ClaimInv, ClaimsMatchRows
  <2> QED
    BY <1>1, <1>2, <2>1 DEF ClaimInv, OneClaimPerKey
<1>10. DuplicateIsBacked'
  <2> SUFFICES ASSUME NEW q \in Request, outcome'[q] = "duplicate"
               PROVE  \E p \in Request \ {q} :
                        /\ pc'[p] = "closed" /\ claim'[p] = "inserted"
                        /\ NaturalKey(p) = NaturalKey(q)
    BY <1>1 DEF DuplicateIsBacked
  <2>1. CASE q # r
    <3>1. PICK p \in Request \ {q} : /\ pc[p] = "closed" /\ claim[p] = "inserted"
                                     /\ NaturalKey(p) = NaturalKey(q)
      BY <1>2, <2>1 DEF ClaimInv, DuplicateIsBacked
    <3> QED
      BY <1>1, <1>2, <3>1
  <2>2. CASE q = r
    <3>1. RowCount(r) # 1
      BY <1>0, <2>2 DEF CheckIdempotency, TypeOK
    <3>2. k \in Key /\ processed[k] # NoId
      BY <1>1, <3>1 DEF RowCount, ClaimInv, ClaimsHaveKeys
    <3>3. PICK p \in Request : /\ pc[p] = "closed" /\ claim[p] = "inserted"
                               /\ NaturalKey(p) = k
      BY <3>2 DEF ClaimInv, RowsHaveWriters
    <3> QED
      BY <1>1, <1>2, <2>2, <3>3
  <2> QED
    BY <2>1, <2>2
<1> QED
  BY <1>4, <1>5, <1>6, <1>7, <1>8, <1>9, <1>10 DEF ClaimParts

(* The commit publishes the claim that the lock protected until now.       *)
LEMMA CommitKeeps ==
    ASSUME ClaimInv, TypeOK', NEW r \in Request, Commit(r)
    PROVE  ClaimParts'
<1> USE KeysStay
<1> DEFINE k == NaturalKey(r)
<1>0. TypeOK
  BY DEF ClaimInv
<1>1. /\ UNCHANGED <<sub, claim, outcome, lost>>
      /\ pc[r] = "committing" /\ pc'[r] = "closed" /\ ~lost[r]
  BY <1>0 DEF Commit, TypeOK, txnVars
<1>2. \A q \in Request : q # r => pc'[q] = pc[q]
  BY <1>0 DEF Commit, TypeOK
<1>3. Correlation(r) # NoId
  BY CorrelationType, ReceiverAssumption
<1>a. \/ claim[r] = "none" /\ processed' = processed
      \/ /\ claim[r] # "none" /\ k \in Key
         /\ processed'[k] = Correlation(r)
         /\ \A j \in Key : j # k => processed'[j] = processed[j]
  BY <1>0 DEF Commit, TypeOK, ClaimInv, ClaimsHaveKeys
<1>4. ClaimsHaveKeys'
  BY <1>1, <1>2 DEF ClaimInv, ClaimsHaveKeys
<1>5. ClaimsAreHeld'
  BY <1>1, <1>2 DEF ClaimInv, ClaimsAreHeld
<1>6. LockIsExclusive'
  BY <1>1, <1>2 DEF ClaimInv, LockIsExclusive
<1>7. RowsHaveWriters'
  <2> SUFFICES ASSUME NEW j \in Key, processed'[j] # NoId
               PROVE  /\ \E q \in Request : pc'[q] = "closed" /\ claim[q] = "inserted"
                                            /\ NaturalKey(q) = j
                      /\ \E q \in Request : pc'[q] = "closed" /\ claim[q] # "none"
                                            /\ processed'[j] = Correlation(q)
    BY <1>1 DEF RowsHaveWriters
  <2>1. CASE processed'[j] = processed[j]
    <3>1. PICK q \in Request : pc[q] = "closed" /\ claim[q] = "inserted"
                               /\ NaturalKey(q) = j
      BY <2>1 DEF ClaimInv, RowsHaveWriters
    <3>2. PICK p \in Request : pc[p] = "closed" /\ claim[p] # "none"
                               /\ processed[j] = Correlation(p)
      BY <2>1 DEF ClaimInv, RowsHaveWriters
    <3> QED
      BY <1>1, <1>2, <2>1, <3>1, <3>2
  <2>2. CASE claim[r] # "none" /\ j = k /\ processed'[k] = Correlation(r)
    <3>1. CASE claim[r] = "inserted"
      BY <1>1, <2>2, <3>1
    <3>2. CASE claim[r] = "updated"
      <4>1. PICK q \in Request : pc[q] = "closed" /\ claim[q] = "inserted"
                                 /\ NaturalKey(q) = k
        BY <2>2, <3>2 DEF ClaimInv, ClaimsMatchRows, RowsHaveWriters
      <4> QED
        BY <1>1, <1>2, <2>2, <4>1
    <3> QED
      BY <1>0, <2>2, <3>1, <3>2 DEF TypeOK
  <2> QED
    BY <1>a, <2>1, <2>2
<1>8. ClaimsMatchRows'
  <2> SUFFICES ASSUME NEW q \in Request
               PROVE  /\ claim[q] = "inserted" =>
                           (pc'[q] = "closed" <=> processed'[NaturalKey(q)] # NoId)
                      /\ claim[q] = "updated" => processed'[NaturalKey(q)] # NoId
    BY <1>1 DEF ClaimsMatchRows
  <2>1. CASE NaturalKey(q) = k /\ q # r /\ claim[q] # "none" /\ claim[r] # "none"
    <3>1. pc[q] = "closed"
      BY <1>1, <2>1 DEF ClaimInv, LockIsExclusive
    <3> QED
      BY <1>2, <1>3, <1>a, <2>1, <3>1
  <2>2. CASE q = r
    BY <1>1, <1>3, <1>a, <2>2
  <2>3. CASE q # r /\ (claim[r] = "none" \/ NaturalKey(q) # k)
    BY <1>0, <1>2, <1>a, <2>3 DEF ClaimInv, ClaimsMatchRows, ClaimsHaveKeys
  <2>4. CASE claim[q] = "none"
    BY <2>4
  <2> QED
    BY <2>1, <2>2, <2>3, <2>4
<1>9. OneClaimPerKey'
  BY <1>1 DEF ClaimInv, OneClaimPerKey
<1>10. DuplicateIsBacked'
  <2> SUFFICES ASSUME NEW q \in Request, outcome[q] = "duplicate"
               PROVE  \E p \in Request \ {q} :
                        /\ pc'[p] = "closed" /\ claim[p] = "inserted"
                        /\ NaturalKey(p) = NaturalKey(q)
    BY <1>1 DEF DuplicateIsBacked
  <2>1. PICK p \in Request \ {q} : /\ pc[p] = "closed" /\ claim[p] = "inserted"
                                   /\ NaturalKey(p) = NaturalKey(q)
    BY DEF ClaimInv, DuplicateIsBacked
  <2> QED
    BY <1>1, <1>2, <2>1
<1> QED
  BY <1>4, <1>5, <1>6, <1>7, <1>8, <1>9, <1>10 DEF ClaimParts

(* A step that touches neither the handlers nor the database.              *)
LEMMA AsideKeeps ==
    ASSUME ClaimInv, Aside
    PROVE  ClaimParts'
<1> USE KeysStay
<1> QED
  BY DEF ClaimInv, Aside, ClaimParts, ClaimsHaveKeys, ClaimsAreHeld,
     LockIsExclusive, RowsHaveWriters, ClaimsMatchRows, OneClaimPerKey,
     DuplicateIsBacked

LEMMA NextClaimInv == ClaimInv /\ [Next]_vars => ClaimInv'
<1> SUFFICES ASSUME ClaimInv, [Next]_vars PROVE ClaimInv'
  OBVIOUS
<1>1. TypeOK'
  BY NextTypeOK DEF ClaimInv
<1>2. UnsentAreIdle'
  BY UnsentStayIdle DEF ClaimInv
<1>3. ClaimParts'
  BY <1>1, StepKinds, AsideKeeps, QuietKeeps, UndoneKeeps, CommitKeeps,
     CheckIdempotencyKeeps
<1> QED
  BY <1>1, <1>2, <1>3 DEF ClaimInv, ClaimParts

(* At most one live or committed transaction holds an inserted natural key,*)
(* for every set of webhooks, order of handlers and mix of failures.       *)
THEOREM OneClaimPerKeyHolds == Spec => []OneClaimPerKey
<1>1. ClaimInv => OneClaimPerKey
  BY DEF ClaimInv
<1> QED
  BY <1>1, InitClaimInv, NextClaimInv, PTL DEF Spec

(* Whoever is told "duplicate" is preceded by a committed claim of another *)
(* request for the same natural key.                                       *)
THEOREM DuplicateIsBackedHolds == Spec => []DuplicateIsBacked
<1>1. ClaimInv => DuplicateIsBacked
  BY DEF ClaimInv
<1> QED
  BY <1>1, InitClaimInv, NextClaimInv, PTL DEF Spec

-----------------------------------------------------------------------------
(* First-seen rows, when no two requests share a correlation id or the     *)
(* driver reports changed rows.                                            *)

(* The outcome, claim and row of q stay, and so does what it lost.         *)
Same(q) ==
    /\ claim'[q] = claim[q] /\ outcome'[q] = outcome[q] /\ row'[q] = row[q]
    /\ lost'[q] = lost[q]
    /\ pc[q] = "dead" => pc'[q] = "dead"

Emptied(q) ==
    claim'[q] = "none" /\ row'[q] = FALSE /\ (lost'[q] \/ pc'[q] = "dead")

(* What a step does to the outcome, claim and row of each request.         *)
LEMMA OutcomeSteps ==
    ASSUME TypeOK, ClaimsAreHeld, UnsentAreIdle, [Next]_vars, NEW q \in Request
    PROVE  \/ CheckIdempotency(q) \/ InsertRawPayload(q)
           \/ Emptied(q) \/ Same(q)
           \/ /\ claim'[q] = "none" /\ claim[q] = "none"
              /\ ~FirstSeen(outcome'[q])
<1> USE ReceiverAssumption
<1>1. ASSUME NEW w \in Webhook, Send(w)
      PROVE  Same(q)
  <2> DEFINE r == <<w, sent[w] + 1>>
  <2>1. r \in Request /\ r[1] = w /\ r[2] = sent[w] + 1
    BY <1>1 DEF Send, TypeOK, Request
  <2>2. pc[r] = "idle"
    BY <2>1 DEF UnsentAreIdle, TypeOK
  <2>3. pc' = [pc EXCEPT ![r] = "received"]
    BY <1>1 DEF Send
  <2> HIDE DEF r
  <2> QED
    BY <1>1, <2>1, <2>2, <2>3 DEF Send, Same, TypeOK, txnVars
<1>2. ASSUME NEW w \in Webhook, GiveUp(w) PROVE Same(q)
  BY <1>2 DEF GiveUp, Same, txnVars
<1>3. ASSUME NEW r \in Request, LoseConnection(r) \/ Crash(r)
      PROVE  Emptied(q) \/ Same(q)
  BY <1>3 DEF LoseConnection, Crash, Forget, Emptied, Same, TypeOK
<1>4. ASSUME NEW r \in Request, CheckIdempotency(r) \/ InsertRawPayload(r), q # r
      PROVE  Same(q)
  BY <1>4 DEF CheckIdempotency, InsertRawPayload, Same, TypeOK
<1>5. ASSUME NEW r \in Request, Fail(r)
      PROVE  \/ /\ claim'[q] = "none" /\ claim[q] = "none"
                /\ ~FirstSeen(outcome'[q])
             \/ Same(q)
  <2>1. CASE q = r
    BY <1>5, <2>1 DEF Fail, TypeOK, ClaimsAreHeld, FirstSeen, txnVars
  <2>2. CASE q # r
    BY <1>5, <2>2 DEF Fail, Same, TypeOK, txnVars
  <2> QED
    BY <2>1, <2>2
<1>6. ASSUME NEW r \in Request, Reject(r) \/ Validate(r) \/ StatementFails(r)
      PROVE  Same(q)
  BY <1>6 DEF Reject, Validate, StatementFails, Same, TypeOK, txnVars
<1>7. ASSUME NEW r \in Request, Publish(r) \/ PublishFails(r) \/ Reply(r)
      PROVE  Same(q)
  BY <1>7 DEF Publish, PublishFails, Reply, Same, TypeOK, txnVars
<1>8. ASSUME NEW r \in Request, Refuse(r) \/ Commit(r) \/ CommitFails(r)
      PROVE  Same(q)
  BY <1>8 DEF Refuse, Commit, CommitFails, Same, TypeOK, txnVars
<1>9. CASE UNCHANGED vars
  BY <1>9 DEF vars, Same, txnVars
<1> QED
  BY <1>1, <1>2, <1>3, <1>4, <1>5, <1>6, <1>7, <1>8, <1>9
  DEF Next, Handle, Finished

(* A row that was found counts as a duplicate, whoever wrote it.           *)
LEMMA UpdateIsDuplicate ==
    ASSUME ClaimInv, NEW r \in Request, ~Mistakable(r),
           CheckIdempotency(r), claim'[r] = "updated"
    PROVE  outcome'[r] = "duplicate"
<1> DEFINE k == NaturalKey(r)
<1>1. TypeOK /\ pc[r] = "claiming" /\ k \in Key
  BY DEF ClaimInv, ClaimsHaveKeys, CheckIdempotency
<1>2. processed[k] # NoId
  BY <1>1 DEF CheckIdempotency, TypeOK
<1>3. SUFFICES RowCount(r) # 1
  BY <1>1 DEF CheckIdempotency, TypeOK
<1>4. CASE ~FoundRows
  BY <1>2, <1>4 DEF RowCount
<1>5. CASE ~S(r).header
  <2>1. Correlation(r) = r /\ r[2] # 0
    BY <1>5, RequestParts, ReceiverAssumption DEF Correlation
  <2>2. PICK q \in Request : pc[q] = "closed" /\ processed[k] = Correlation(q)
    BY <1>1, <1>2 DEF ClaimInv, RowsHaveWriters
  <2>3. q # r /\ <<q[1], 0>> # r
    BY <1>1, <2>1, <2>2
  <2>4. processed[k] # Correlation(r)
    BY <2>1, <2>2, <2>3 DEF Correlation
  <2> QED
    BY <1>2, <2>4 DEF RowCount
<1> QED
  BY <1>4, <1>5 DEF Mistakable

LEMMA NextFirstSeenInv == FirstSeenInv /\ [Next]_vars => FirstSeenInv'
<1> SUFFICES ASSUME FirstSeenInv, [Next]_vars PROVE FirstSeenInv'
  OBVIOUS
<1>1. ClaimInv /\ TypeOK /\ ClaimsAreHeld /\ UnsentAreIdle
  BY DEF FirstSeenInv, ClaimInv
<1>2. ClaimInv'
  BY <1>1, NextClaimInv
<1>3. UpdatesAreDuplicates'
  <2>0. UNCHANGED sub
    BY DEF Next, Send, GiveUp, Handle, Reject, Fail, Validate, CheckIdempotency,
       InsertRawPayload, StatementFails, Publish, PublishFails, Reply, Refuse,
       Commit, CommitFails, LoseConnection, Crash, Finished, vars
  <2> SUFFICES ASSUME NEW q \in Request, claim'[q] = "updated", ~Mistakable(q)
               PROVE  outcome'[q] = "duplicate"
    BY <2>0 DEF UpdatesAreDuplicates, Mistakable, S
  <2>1. CASE CheckIdempotency(q)
    BY <1>1, <2>1, UpdateIsDuplicate
  <2>2. CASE Same(q)
    BY <2>2 DEF Same, FirstSeenInv, UpdatesAreDuplicates
  <2>3. CASE InsertRawPayload(q)
    BY <2>3 DEF InsertRawPayload, FirstSeenInv, UpdatesAreDuplicates
  <2> QED
    BY <1>1, <2>1, <2>2, <2>3, OutcomeSteps DEF Emptied
<1>4. FirstSeenHaveClaims'
  <2> SUFFICES ASSUME NEW q \in Request, FirstSeen(outcome'[q])
               PROVE  \/ claim'[q] # "none"
                      \/ ~row'[q] /\ (lost'[q] \/ pc'[q] = "dead")
    BY DEF FirstSeenHaveClaims, FirstSeen
  <2>1. CASE CheckIdempotency(q)
    BY <1>1, <2>1 DEF CheckIdempotency, TypeOK
  <2>2. CASE Same(q)
    BY <2>2 DEF Same, FirstSeenInv, FirstSeenHaveClaims
  <2>3. CASE InsertRawPayload(q)
    BY <1>1, <2>3 DEF InsertRawPayload, FirstSeenInv, FirstSeenHaveClaims
  <2> QED
    BY <1>1, <2>1, <2>2, <2>3, OutcomeSteps DEF Emptied
<1> QED
  BY <1>2, <1>3, <1>4 DEF FirstSeenInv

LEMMA InitFirstSeenInv == Init => FirstSeenInv
BY InitClaimInv DEF Init, FirstSeenInv, UpdatesAreDuplicates,
   FirstSeenHaveClaims, FirstSeen

(* With distinct correlation ids no row is taken for new by mistake.       *)
LEMMA NoneIsMistakable ==
    ASSUME DistinctCorrelation, TypeOK, NEW r \in Request
    PROVE  ~Mistakable(r)
BY RequestParts DEF DistinctCorrelation, Mistakable, TypeOK, S

(* With distinct correlation ids, or a driver that reports changed rows,   *)
(* the audit trail shows a natural key accepted or discarded at most once. *)
THEOREM OneFirstSeenPerKeyHolds ==
    ASSUME DistinctCorrelation
    PROVE  Spec => []OneFirstSeenPerKey
<1>1. FirstSeenInv => OneFirstSeenPerKey
  <2> SUFFICES ASSUME FirstSeenInv, NEW q \in Request, NEW r \in Request,
                      Raw(q), FirstSeen(outcome[q]), Raw(r), FirstSeen(outcome[r]),
                      NaturalKey(q) = NaturalKey(r)
               PROVE  q = r
    BY DEF OneFirstSeenPerKey
  <2>1. ASSUME NEW p \in Request, Raw(p), FirstSeen(outcome[p])
        PROVE  claim[p] = "inserted"
    <3>1. claim[p] # "none"
      BY <2>1 DEF FirstSeenInv, FirstSeenHaveClaims, Raw
    <3>2. claim[p] # "updated"
      BY <2>1, NoneIsMistakable
      DEF FirstSeenInv, ClaimInv, UpdatesAreDuplicates, FirstSeen
    <3> QED
      BY <3>1, <3>2 DEF FirstSeenInv, ClaimInv, TypeOK
  <2> QED
    BY <2>1 DEF FirstSeenInv, ClaimInv, OneClaimPerKey
<1> QED
  BY <1>1, InitFirstSeenInv, NextFirstSeenInv, PTL DEF Spec

=============================================================================

------------------------------ MODULE Receiver ------------------------------
(***************************************************************************)
(* The webhook receiver: POST /webhooks/{gateway}, its database session    *)
(* and its RabbitMQ publisher, driven by a client that resends what was    *)
(* not answered (scripts/load_payloads.py).                                *)
(*                                                                         *)
(* A request is the n-th send of a webhook.  Its handler awaits at every   *)
(* statement and every publish, so the handlers of concurrent requests, in *)
(* one or in both uvicorn processes, interleave at those points.  All the  *)
(* statements of a request run in one InnoDB transaction, which            *)
(* get_db_session commits only after the response has been sent.           *)
(***************************************************************************)
EXTENDS Naturals

CONSTANTS
    Webhook,      \* the notifications the gateways have to deliver
    Order,        \* (transaction_id, event) pairs
    Submissions,  \* the forms a webhook may take, a subset of Submission
    MaxSends,     \* sends of one webhook (MAX_RETRIES + 1 of the client)
    FoundRows,    \* TRUE when the driver counts matched rows (CLIENT_FOUND_ROWS)
    Faults,       \* the failures that may occur, a subset of FaultKinds
    NoId          \* the correlation id of a row that does not exist

FaultKinds == {"timeout", "statement", "connection", "publish", "crash"}
ValidGateways == {"grummer", "lous"}

(* A body: not JSON text ("unreadable"), JSON that is not an object, an    *)
(* object that fails the schema, an object that satisfies it.  What an     *)
(* encrypted body decrypts to is such a class, the JSON null apart, or     *)
(* "garbled" when decryption fails or yields no JSON.                      *)
Submission ==
    [gateway   : ValidGateways \cup {"unknown"},
     raw       : {"unreadable", "scalar", "bad", "good"},
     encrypted : BOOLEAN,                      \* x-gr-encrypted: true
     plain     : {"garbled", "null", "scalar", "bad", "good"},
     order     : Order,
     approved  : BOOLEAN,                      \* order.approved and approved
     header    : BOOLEAN]                      \* carries x-correlation-id

Request == Webhook \X (1 .. MaxSends)
CorrelationId == Webhook \X (0 .. MaxSends)
Key == ValidGateways \X Order

ASSUME ReceiverAssumption ==
    /\ MaxSends \in Nat \ {0}
    /\ Submissions \subseteq Submission
    /\ FoundRows \in BOOLEAN
    /\ Faults \subseteq FaultKinds
    /\ NoId \notin CorrelationId

Outcome == {"decrypt_failed", "schema_failed", "accepted", "duplicate",
            "discarded_non_approved"}
Stage == {"idle", "received", "claiming", "recording", "publishing",
          "replying", "failing", "committing", "closed", "dead"}
Running == Stage \ {"idle", "closed", "dead"}

VARIABLES
    sub,        \* what each webhook is
    client,     \* what the sender of each webhook is doing
    sent,       \* how many times each webhook was sent
    pc,         \* where each request's handler is
    outcome,    \* the processing status the handler decided on
    answer,     \* the response sent to the client
    claim,      \* what its transaction did to processed_events
    row,        \* TRUE when its transaction holds its raw_payloads row
    lost,       \* TRUE when its database connection broke
    processed,  \* committed processed_events: correlation id per natural key
    queued      \* requests whose message is in lead.received or lead.dead.*

clientVars == <<client, sent>>
txnVars == <<claim, row, lost>>
vars == <<sub, clientVars, pc, outcome, answer, txnVars, processed, queued>>

-----------------------------------------------------------------------------
(* Classification of a submission.                                         *)

IsObject(body) == body \in {"bad", "good"}

IsEncrypted(s) == s.gateway = "grummer" /\ s.encrypted

(* GrummerEncryptedBody, decrypt_grummer and json.loads all succeed        *)
Decrypts(s) == IsObject(s.raw) /\ s.plain # "garbled"

(* body_decrypted: the JSON null falls back to the body as received        *)
Body(s) == IF IsEncrypted(s) /\ s.plain # "null" THEN s.plain ELSE s.raw

Verdict(s) ==
    IF s.gateway \notin ValidGateways \/ s.raw = "unreadable" THEN "rejected"
    ELSE IF IsEncrypted(s) /\ ~Decrypts(s) THEN "decrypt_failed"
    ELSE IF Body(s) # "good" THEN "schema_failed"
    ELSE "event"

(* original_payload of a DLQMessage must be a dict                         *)
DeadLetterBody(s) == IF Verdict(s) = "decrypt_failed" THEN s.raw ELSE Body(s)

S(r) == sub[r[1]]

(* the unique index of processed_events                                    *)
NaturalKey(r) == <<S(r).gateway, S(r).order>>

(* Faulty variant: the order is stored in the column of the correlation id. *)
CorrelationMisplaced(r) == S(r).order

(* taken from the header, else a fresh uuid4 for this request              *)
Correlation(r) == IF S(r).header THEN <<r[1], 0>> ELSE r

-----------------------------------------------------------------------------
Init ==
    /\ sub \in [Webhook -> Submissions]
    /\ client = [w \in Webhook |-> "ready"]
    /\ sent = [w \in Webhook |-> 0]
    /\ pc = [r \in Request |-> "idle"]
    /\ outcome = [r \in Request |-> "none"]
    /\ answer = [r \in Request |-> "none"]
    /\ claim = [r \in Request |-> "none"]
    /\ row = [r \in Request |-> FALSE]
    /\ lost = [r \in Request |-> FALSE]
    /\ processed = [k \in Key |-> NoId]
    /\ queued = {}

(* The client sends a webhook again after a 503, an error or a timeout.    *)
Send(w) ==
    /\ client[w] = "ready"
    /\ sent[w] < MaxSends
    /\ sent' = [sent EXCEPT ![w] = @ + 1]
    /\ client' = [client EXCEPT ![w] = "waiting"]
    /\ pc' = [pc EXCEPT ![<<w, sent[w] + 1>>] = "received"]
    /\ UNCHANGED <<sub, outcome, answer, txnVars, processed, queued>>

(* Faulty variant: the loop does not end with the last attempt.            *)
AfterFailureAgain(w) == "ready"

AfterFailure(w) == IF sent[w] < MaxSends THEN "ready" ELSE "done"

(* The 10 s timeout, or the connection error a dead receiver causes: the   *)
(* handler, if it lives, runs on.                                          *)
GiveUp(w) ==
    /\ client[w] = "waiting"
    /\ "timeout" \in Faults \/ pc[<<w, sent[w]>>] = "dead"
    /\ client' = [client EXCEPT ![w] = AfterFailure(w)]
    /\ UNCHANGED <<sub, sent, pc, outcome, answer, txnVars, processed, queued>>

(* The response of r; a client that no longer waits for it ignores it.     *)
Respond(r, a) ==
    /\ answer' = [answer EXCEPT ![r] = a]
    /\ client' =
         IF client[r[1]] = "waiting" /\ sent[r[1]] = r[2]
         THEN [client EXCEPT ![r[1]] =
                 IF a = "unavailable" THEN AfterFailure(r[1]) ELSE "done"]
         ELSE client
    /\ UNCHANGED sent

-----------------------------------------------------------------------------
(* The handler.                                                            *)

(* 422, 400 or 500: nothing was written and the session rolls back.        *)
Reject(r) ==
    /\ pc[r] = "received"
    /\ Verdict(S(r)) = "rejected"
    /\ pc' = [pc EXCEPT ![r] = "closed"]
    /\ Respond(r, "rejected")
    /\ UNCHANGED <<sub, outcome, txnVars, processed, queued>>

(* Decryption or the schema fails: on to _fail_and_return.                 *)
Fail(r) ==
    /\ pc[r] = "received"
    /\ Verdict(S(r)) \in {"decrypt_failed", "schema_failed"}
    /\ outcome' = [outcome EXCEPT ![r] = Verdict(S(r))]
    /\ pc' = [pc EXCEPT ![r] = "recording"]
    /\ UNCHANGED <<sub, clientVars, answer, txnVars, processed, queued>>

Validate(r) ==
    /\ pc[r] = "received"
    /\ Verdict(S(r)) = "event"
    /\ pc' = [pc EXCEPT ![r] = "claiming"]
    /\ UNCHANGED <<sub, clientVars, outcome, answer, txnVars, processed, queued>>

(* Faulty variant: the lock is given back when the statement is done.      *)
LocksOnlyAtStart(r, k) ==
    claim[r] # "none" /\ pc[r] = "recording" /\ NaturalKey(r) = k

(* The X lock on the natural key's index record, kept to the end of the    *)
(* transaction that inserted or updated it.                                *)
Locks(r, k) == claim[r] # "none" /\ pc[r] # "closed" /\ NaturalKey(r) = k

(* Faulty variant: any affected row counts as a new event.                 *)
RowCountAnyChange(r) ==
    IF processed[NaturalKey(r)] = Correlation(r) THEN 0 ELSE 1

(* Affected rows of INSERT ... ON DUPLICATE KEY UPDATE correlation_id.     *)
RowCount(r) ==
    LET old == processed[NaturalKey(r)] IN
    IF old = NoId THEN 1
    ELSE IF old # Correlation(r) THEN 2
    ELSE IF FoundRows THEN 1 ELSE 0

(* Faulty variant: the claim is committed at once, on its own.             *)
CheckIdempotencyAutocommit(r) ==
    /\ pc[r] = "claiming"
    /\ \A q \in Request \ {r} : ~Locks(q, NaturalKey(r))
    /\ claim' = [claim EXCEPT ![r] =
                   IF processed[NaturalKey(r)] = NoId THEN "inserted" ELSE "updated"]
    /\ processed' = [processed EXCEPT ![NaturalKey(r)] = Correlation(r)]
    /\ outcome' = [outcome EXCEPT ![r] =
                     IF RowCount(r) = 1 THEN "accepted" ELSE "duplicate"]
    /\ pc' = [pc EXCEPT ![r] = "recording"]
    /\ UNCHANGED <<sub, clientVars, answer, row, lost, queued>>

(* check_idempotency, and the branch taken on its result.                  *)
CheckIdempotency(r) ==
    /\ pc[r] = "claiming"
    /\ ~lost[r]
    /\ \A q \in Request \ {r} : ~Locks(q, NaturalKey(r))
    /\ claim' = [claim EXCEPT ![r] =
                   IF processed[NaturalKey(r)] = NoId THEN "inserted" ELSE "updated"]
    /\ outcome' = [outcome EXCEPT ![r] =
                   IF RowCount(r) # 1 THEN "duplicate"
                   ELSE IF S(r).approved THEN "accepted"
                   ELSE "discarded_non_approved"]
    /\ pc' = [pc EXCEPT ![r] = "recording"]
    /\ UNCHANGED <<sub, clientVars, answer, row, lost, processed, queued>>

(* Faulty variant: accepted leads are not published.                       *)
PublishesFailuresOnly(o) == o \in {"decrypt_failed", "schema_failed"}

Publishes(o) == o \in {"accepted", "decrypt_failed", "schema_failed"}

(* Faulty variant: a duplicate is not recorded.                            *)
InsertRawPayloadOfNew(r) ==
    /\ pc[r] = "recording"
    /\ ~lost[r]
    /\ row' = [row EXCEPT ![r] = outcome[r] # "duplicate"]
    /\ pc' = [pc EXCEPT ![r] =
                IF Publishes(outcome[r]) THEN "publishing" ELSE "replying"]
    /\ UNCHANGED <<sub, clientVars, outcome, answer, claim, lost, processed, queued>>

InsertRawPayload(r) ==
    /\ pc[r] = "recording"
    /\ ~lost[r]
    /\ row' = [row EXCEPT ![r] = TRUE]
    /\ pc' = [pc EXCEPT ![r] =
                IF Publishes(outcome[r]) THEN "publishing" ELSE "replying"]
    /\ UNCHANGED <<sub, clientVars, outcome, answer, claim, lost, processed, queued>>

(* A statement raises: MySQL undoes that statement only, and the earlier   *)
(* ones stay in the transaction.                                           *)
StatementFails(r) ==
    /\ pc[r] \in {"claiming", "recording"}
    /\ lost[r] \/ "statement" \in Faults
    /\ pc' = [pc EXCEPT ![r] = "failing"]
    /\ UNCHANGED <<sub, clientVars, outcome, answer, txnVars, processed, queued>>

Publishable(r) == outcome[r] = "accepted" \/ IsObject(DeadLetterBody(S(r)))

(* publish_lead_received or publish_dlq, confirmed by the broker.          *)
Publish(r) ==
    /\ pc[r] = "publishing"
    /\ Publishable(r)
    /\ queued' = queued \cup {r}
    /\ pc' = [pc EXCEPT ![r] = "replying"]
    /\ UNCHANGED <<sub, clientVars, outcome, answer, txnVars, processed>>

(* Faulty variants: a failed publish is swallowed, or tried again for ever. *)
PublishFailsSilently(r) ==
    /\ pc[r] = "publishing"
    /\ "publish" \in Faults \/ ~Publishable(r)
    /\ pc' = [pc EXCEPT ![r] = "replying"]
    /\ UNCHANGED <<sub, clientVars, outcome, answer, txnVars, processed, queued>>

PublishFailsForEver(r) ==
    /\ pc[r] = "publishing"
    /\ "publish" \in Faults \/ ~Publishable(r)
    /\ pc' = [pc EXCEPT ![r] = "recording"]
    /\ UNCHANGED <<sub, clientVars, outcome, answer, txnVars, processed, queued>>

(* The DLQMessage cannot be built, the broker is away, or only its confirm *)
(* is missing.                                                             *)
PublishFails(r) ==
    /\ pc[r] = "publishing"
    /\ \/ ~Publishable(r) /\ UNCHANGED queued
       \/ /\ "publish" \in Faults
          /\ Publishable(r)
          /\ queued' \in {queued, queued \cup {r}}
    /\ pc' = [pc EXCEPT ![r] = "failing"]
    /\ UNCHANGED <<sub, clientVars, outcome, answer, txnVars, processed>>

Reply(r) ==
    /\ pc[r] = "replying"
    /\ pc' = [pc EXCEPT ![r] = "committing"]
    /\ Respond(r, outcome[r])
    /\ UNCHANGED <<sub, outcome, txnVars, processed, queued>>

(* except Exception: the 503 is returned, not raised, so the session will  *)
(* commit what the transaction holds.                                      *)
Refuse(r) ==
    /\ pc[r] = "failing"
    /\ pc' = [pc EXCEPT ![r] = "committing"]
    /\ Respond(r, "unavailable")
    /\ UNCHANGED <<sub, outcome, txnVars, processed, queued>>

(* Faulty variant: the raw_payloads row survives, in a transaction of its  *)
(* own.                                                                    *)
ForgetClaimOnly(r) ==
    /\ claim' = [claim EXCEPT ![r] = "none"]
    /\ UNCHANGED row

Forget(r) ==
    /\ claim' = [claim EXCEPT ![r] = "none"]
    /\ row' = [row EXCEPT ![r] = FALSE]

(* get_db_session commits once the response is out ...                     *)
Commit(r) ==
    /\ pc[r] = "committing"
    /\ ~lost[r]
    /\ processed' = IF claim[r] = "none" THEN processed
                    ELSE [processed EXCEPT ![NaturalKey(r)] = Correlation(r)]
    /\ pc' = [pc EXCEPT ![r] = "closed"]
    /\ UNCHANGED <<sub, clientVars, outcome, answer, txnVars, queued>>

(* ... or finds its connection gone, and rolls back an answered request.   *)
CommitFails(r) ==
    /\ pc[r] = "committing"
    /\ lost[r]
    /\ pc' = [pc EXCEPT ![r] = "closed"]
    /\ UNCHANGED <<sub, clientVars, outcome, answer, txnVars, processed, queued>>

-----------------------------------------------------------------------------
(* Failures around the handler.                                            *)

(* The connection breaks or the server picks the transaction as a deadlock *)
(* victim: all it did is undone and its locks are free.                    *)
LoseConnection(r) ==
    /\ "connection" \in Faults
    /\ pc[r] \in {"claiming", "recording", "publishing", "replying",
                  "failing", "committing"}
    /\ ~lost[r]
    /\ lost' = [lost EXCEPT ![r] = TRUE]
    /\ Forget(r)
    /\ UNCHANGED <<sub, clientVars, pc, outcome, answer, processed, queued>>

(* The receiver process dies under the request.                            *)
Crash(r) ==
    /\ "crash" \in Faults
    /\ pc[r] \in Running
    /\ pc' = [pc EXCEPT ![r] = "dead"]
    /\ Forget(r)
    /\ UNCHANGED <<sub, clientVars, outcome, answer, lost, processed, queued>>

Handle(r) ==
    \/ Reject(r) \/ Fail(r) \/ Validate(r)
    \/ CheckIdempotency(r) \/ InsertRawPayload(r) \/ StatementFails(r)
    \/ Publish(r) \/ PublishFails(r)
    \/ Reply(r) \/ Refuse(r)
    \/ Commit(r) \/ CommitFails(r)

(* Every webhook is settled and every handler has ended.                   *)
Finished ==
    /\ \A w \in Webhook : client[w] = "done"
    /\ \A r \in Request : pc[r] \notin Running
    /\ UNCHANGED vars

Next ==
    \/ \E w \in Webhook : Send(w) \/ GiveUp(w)
    \/ \E r \in Request : Handle(r) \/ LoseConnection(r) \/ Crash(r)
    \/ Finished

Spec == Init /\ [][Next]_vars

(* Every await of a handler returns or raises (pool, lock and socket       *)
(* timeouts), and the client's loop resends and times out by itself.       *)
FairSpec ==
    /\ Spec
    /\ \A r \in Request : WF_vars(Handle(r))
    /\ \A w \in Webhook : WF_vars(Send(w)) /\ WF_vars(GiveUp(w))

-----------------------------------------------------------------------------
(* Type invariant: every variable keeps to the values its code can give.   *)
TypeOK ==
    /\ sub \in [Webhook -> Submissions]
    /\ client \in [Webhook -> {"ready", "waiting", "done"}]
    /\ sent \in [Webhook -> 0 .. MaxSends]
    /\ pc \in [Request -> Stage]
    /\ outcome \in [Request -> Outcome \cup {"none"}]
    /\ answer \in [Request -> Outcome \cup {"none", "rejected", "unavailable"}]
    /\ claim \in [Request -> {"none", "inserted", "updated"}]
    /\ row \in [Request -> BOOLEAN]
    /\ lost \in [Request -> BOOLEAN]
    /\ processed \in [Key -> CorrelationId \cup {NoId}]
    /\ queued \subseteq Request
-----------------------------------------------------------------------------
(* Safety.                                                                 *)

Raw(r) == pc[r] = "closed" /\ row[r]            \* a committed raw_payloads row
FirstSeen(o) == o \in {"accepted", "discarded_non_approved"}

(* No two requests share a correlation id, or the driver reports zero      *)
(* affected rows for an unchanged duplicate.                               *)
DistinctCorrelation == ~FoundRows \/ \A s \in Submissions : ~s.header

(* The unique index and its lock let at most one live or committed         *)
(* transaction insert a natural key (check_idempotency), whatever crashes, *)
(* lost connections and resends come in between.                           *)
OneClaimPerKey ==
    \A q, r \in Request :
        /\ claim[q] = "inserted" /\ claim[r] = "inserted"
        /\ NaturalKey(q) = NaturalKey(r)
        => q = r

(* The audit trail never shows one natural key taken for new twice: of the *)
(* requests for it at most one commits a raw_payloads row that says        *)
(* accepted or discarded.                                                  *)
OneFirstSeenPerKey ==
    \A q, r \in Request :
        /\ Raw(q) /\ FirstSeen(outcome[q])
        /\ Raw(r) /\ FirstSeen(outcome[r])
        /\ NaturalKey(q) = NaturalKey(r)
        => q = r

(* A request is called a duplicate only after another request for the same *)
(* key committed its claim: an uncommitted, crashed or rolled-back claim   *)
(* never turns a webhook away.                                             *)
DuplicateIsBacked ==
    \A r \in Request : outcome[r] = "duplicate" =>
        \E q \in Request \ {r} :
            /\ pc[q] = "closed" /\ claim[q] = "inserted"
            /\ NaturalKey(q) = NaturalKey(r)

(* What the response says is what RabbitMQ got: an accepted, decrypt_failed*)
(* or schema_failed webhook was queued, a duplicate or discarded one not.  *)
AnswerMatchesQueue ==
    \A r \in Request : answer[r] \in Outcome =>
        (r \in queued <=> Publishes(answer[r]))

(* The audit trail misses no webhook that was answered with a status, a    *)
(* duplicate or a dead letter included, unless its connection was lost     *)
(* between the answer, or a statement before it, and the commit.           *)
AnsweredIsAudited ==
    \A r \in Request : answer[r] \in Outcome /\ pc[r] = "closed" =>
        row[r] \/ lost[r]

(* The claim of an accepted lead that never reached lead.received commits  *)
(* only behind a 503: no 200 hides a lead the receiver swallowed.          *)
SwallowedLeadWasRefused ==
    \A r \in Request :
        /\ pc[r] = "closed" /\ claim[r] # "none"
        /\ outcome[r] = "accepted" /\ r \notin queued
        => answer[r] = "unavailable"

(* lead.received gets a second message for one natural key only when the   *)
(* database transaction of one of the two requests was lost, or one of     *)
(* them brought its own correlation id to a driver that counts matched     *)
(* rows, which takes the unchanged row for a new one.  Under that driver   *)
(* too, the resends, refusals and concurrent duplicates of webhooks with   *)
(* fresh correlation ids never publish a lead twice on their own.          *)
SecondLeadNeedsLostTransaction ==
    \A q, r \in queued :
        /\ outcome[q] = "accepted" /\ outcome[r] = "accepted"
        /\ NaturalKey(q) = NaturalKey(r) /\ q # r
        => \/ claim[q] = "none" \/ claim[r] = "none"
           \/ FoundRows /\ (S(q).header \/ S(r).header)

(* A handler that ran to its end leaves no event in between: of the        *)
(* requests with its natural key one was accepted and queued, or was not   *)
(* approved and discarded, or was told 503.  Whoever is called a duplicate *)
(* of an attempt that failed, failed where its sender could see it.        *)
EndedEventIsSettled ==
    \A r \in Request : pc[r] = "closed" /\ Verdict(S(r)) = "event" =>
        \E q \in Request :
            /\ NaturalKey(q) = NaturalKey(r)
            /\ \/ q \in queued /\ outcome[q] = "accepted"
               \/ outcome[q] = "discarded_non_approved" /\ ~S(q).approved
               \/ answer[q] = "unavailable"

-----------------------------------------------------------------------------
(* Liveness, under FairSpec.                                               *)

(* No handler waits for ever, for instance for the lock of another one.    *)
EveryRequestEnds == <>[](\A r \in Request : pc[r] \notin Running)

(* The client's loop ends for every webhook: it is answered or given up.   *)
EveryWebhookSettles == <>(\A w \in Webhook : client[w] = "done")

(* An approved webhook that validates reaches lead.received, by itself or  *)
(* through another with its key, unless a webhook with its key is not      *)
(* approved, or a request was refused or died: slow answers and resends    *)
(* lose nothing, and a lead that is lost was lost with an error.           *)
EveryLeadArrives ==
    \A w \in Webhook :
        LET Like(v) == /\ Verdict(sub[v]) = "event"
                       /\ sub[v].gateway = sub[w].gateway
                       /\ sub[v].order = sub[w].order IN
        (Like(w) /\ \A v \in Webhook : Like(v) => sub[v].approved)
            ~> \E r \in Request :
                 /\ Like(r[1])
                 /\ \/ r \in queued /\ outcome[r] = "accepted"
                    \/ answer[r] = "unavailable"
                    \/ pc[r] = "dead"

-----------------------------------------------------------------------------
(* What a document says and the code does not do.                          *)

(* README: a duplicate was "already processed", so an approved lead with   *)
(* its natural key was queued (or a non-approved one logged).              *)
DuplicateWasProcessed ==
    \A r \in Request : answer[r] = "duplicate" =>
        \E q \in Request :
            /\ NaturalKey(q) = NaturalKey(r)
            /\ \/ outcome[q] = "accepted" /\ q \in queued
               \/ outcome[q] = "discarded_non_approved" /\ Raw(q)
=============================================================================

# GEX webhook pipeline: a TLA+ verification project

This directory models the pipeline of this repository in TLA+: a FastAPI
receiver that takes webhooks of two sales gateways, MySQL tables and a stored
procedure that make the reception and the distribution idempotent, RabbitMQ
queues between the processes, and a FastStream worker that distributes each
approved lead to four channels and sends the SMS. TLC checks the models on small
instances; TLAPS proves every safety property they keep, and both refinements, for
every value of the constants. Paths below are relative to `src/`; `receiver/`,
`worker/` and `common/` stand for `apps/receiver/src/gex_receiver/`,
`apps/worker/src/gex_worker/` and `libs/common/src/gex_common/`.

Run `tlc -config <cfg> <MC module>` for a run, `tlapm <Proofs module>` for the
proofs. `PROJECT.json` lists runs, hazards, theorems, and which source lines each
definition translates.

## 1. Inventory

### Components

| Component | Source | State it keeps | Operations |
|---|---|---|---|
| Webhook receiver | `receiver/routes.py`, `dependencies.py`, `db.py` | one database session per request: an InnoDB transaction with a `processed_events` claim and a `raw_payloads` row | `POST /webhooks/{gateway}`: reject, decrypt, validate, claim, record, publish, answer, commit |
| Receiver publisher | `receiver/publishers.py` | one AMQP connection and channel | declare the topology, `publish_lead_received`, `publish_dlq` |
| Load driver (the client) | `scripts/load_payloads.py` | attempts per payload | send, time out, resend after 503 or error |
| Validation | `common/validation.py`, `common/models.py` | none | schema, normalisation of names, e-mail, phone |
| Decryption | `common/crypto.py` | none | AES-256-CBC of the grummer bodies |
| Lead consumer | `worker/main.py`, `consumers.py`, `middleware.py`, `exception_handlers.py` | attempt per delivery | `handle_lead`: stored procedure, four publishes, retry, burial, ack / reject |
| `sp_insert_lead` | `sql/003_stored_procs.sql` | `leads`, `orders`, `lead_events`, `distribution_status` | find or create a lead, decide `is_new`, four pending rows |
| SMS distributor | `worker/main.py`, `distributors.py` | `distribution_status` row | `handle_sms`: POST, mark delivered / failed, count attempts, republish, dead-letter |
| Schema | `sql/001_create_tables.sql` | the tables and their unique keys | |
| Broker topology | `receiver/publishers.py`, `worker/main.py` | queues `lead.received`, `dist.*`, `lead.dead.*`, `dist.dead.sms`; fanout exchange `dlq` bound to **no** queue by the worker | deliver, redeliver, drop, expire |
| Health, start/stop, configuration, logging, indexes, audit queries | `receiver/health.py`, `*/main.py`, `common/config.py`, `common/logging.py`, `sql/002*`, `sql/audit_queries.sql` | none the pipeline reads | |

### How they interact

    client --HTTP--> receiver --INSERT--> processed_events, raw_payloads
                        |                    (one transaction, committed after
                        |                     the response has been sent)
                        +--publish--> lead.received --> handle_lead
                        +--publish--> lead.dead.{decrypt,schema}_failed
    handle_lead --CALL--> sp_insert_lead (commits by itself)
         +--publish--> dist.sms, dist.email, dist.callcenter, dist.whatsapp
         +--on the last failure--> lead.dead.consumer_failed
    dist.sms --> handle_sms --POST--> provider
         +--UPDATE--> distribution_status (each statement its own transaction)
         +--publish--> dist.sms again (expiration = delay) | dist.dead.sms

The receiver runs as two uvicorn processes; the worker is one process without a
prefetch limit. All handlers are coroutines: they interleave at every `await`.

### What is hard

* the claim on the natural key is taken by concurrent handlers and held across a
  publish and the response; it is committed last, so the client and the worker
  act on a claim that may be rolled back;
* a 503 is *returned*, so the transaction behind it commits;
* the stored procedure commits before the four publishes, and RetryMiddleware
  repeats the whole handler;
* the broker redelivers what a broken connection or crash left unacknowledged
  while the old handlers run on;
* confirms, answers of the provider and commits get lost after their effect;
* no message is persistent, while the claims that keep resends out are;
* the stored procedure reads a snapshot taken before the rows it waits for, and its
  callers share a pool of connections they keep across four publishes;
* two retry mechanisms nest in the SMS distributor: four runs of the handler per
  delivery, and copies of the message counted in the row;
* rejected and expired messages go to an exchange without a queue.

`PROJECT.json` lists these hazards with their lines and with the properties aimed
at each.

### What makes each component correct

* Receiver: one natural key is taken for new at most once; a duplicate is a
  duplicate of something committed; the response says what was queued; no lead is
  swallowed behind a 200; an event whose handler ended was queued, discarded, or refused
  where its sender could see it; every request ends.
* `sp_insert_lead`: calls that interleave act as if one after the other; one of them at
  most is told the lead is new; a failed one leaves nothing; all return.
* Lead consumer: no channel gets a lead twice; a channel message finds its row;
  acked means stored, and distributed when publishing works; a dropped message is
  buried; no message waits for an answer nobody will give; every message is settled.
* Both together: whoever is told `accepted` has a lead in the pipeline; and an event whose
  handler ended is in all channels once, or has left a trace.
* SMS distributor: no pending order is forgotten; each further SMS has a failure or a
  redelivery of its own; row, provider and dead letters agree while nothing but the
  provider fails; retries are bounded and end.

## 2. Modules

| Module | What it is |
|---|---|
| `Receiver` | receiver, its session, its publisher, and the resending client |
| `LeadStore` | what the consumer relies on: each call finds or stores its lead in one step |
| `InsertLead` | `sp_insert_lead`, statement by statement; implements `LeadStore` |
| `LeadWorker` | consumer of `lead.received` with its middlewares, the procedure in one step |
| `LeadDelivery` | what the pipeline promises: taken before told, handed once |
| `Pipeline` | `Receiver` and `LeadWorker` composed; implements `LeadDelivery` |
| `SmsWorker` | consumer of `dist.sms` with its middlewares and one row |
| `MCReceiver`, `MCInsertLead`, `MCLeadWorker`, `MCPipeline`, `MCSmsWorker` | instances for TLC |
| `ReceiverProofs`, `AnswerProofs`, `InsertLeadProofs`, `LeadWorkerProofs`, `PipelineProofs`, `SmsWorkerProofs`, `SmsCountProofs` | inductive invariants, theorems and proofs |

Definitions commented *Faulty variant* are plausible mistakes in the code (a lock
released early, a swallowed publish error, an uncounted retry). They are part of no
specification; put in the place of the definition that follows them, they break the
property that is meant to catch them.

### Receiver

A request is `<<w, n>>`, the n-th send of webhook `w`. `sub[w]` says what the webhook
is, in the classes the handler tells apart: readable or not, a JSON object or not,
schema satisfied or not, encrypted, approved, with a correlation id or not. The
decrypted plaintext `null` is a class of its own: `body_decrypted` is then `None`, and the
fallback meant for plaintext webhooks (`routes.py:151`) takes the raw body.

| Action | Code |
|---|---|
| `Send`, `GiveUp`, `Respond` | `_send_one`: 10 s timeout, resend on 503 and errors |
| `Reject` | `routes.py:100-117`: 422, 400, and the 500 of unreadable bodies; nothing written |
| `Fail` | decryption or schema failure, on to `_fail_and_return` |
| `Validate` | the schema is satisfied |
| `CheckIdempotency` | `INSERT ... ON DUPLICATE KEY UPDATE`, `rowcount == 1`; waits for the row lock of another transaction with the key |
| `InsertRawPayload`, `Publish`, `Reply` | the three branches and `_fail_and_return`, in the order of the code |
| `StatementFails`, `PublishFails`, `Refuse` | `except Exception` and its 503 |
| `Commit`, `CommitFails` | `get_db_session`, after the response |
| `LoseConnection`, `Crash` | the transaction is undone, its locks are free |

`processed` is the committed table; `claim[r]` what `r`'s transaction did to it and
still holds. A transaction that is undone gives `claim` and `row` back. `FoundRows`
is the `CLIENT_FOUND_ROWS` flag, which decides whether an update that changes nothing
reports 1 row or 0.

A deadlock victim loses its whole transaction and is an instance of
`LoseConnection`; other failing statements undo only themselves.

### InsertLead

A call is one `CALL sp_insert_lead`; its UUIDs are fresh, so the id of a row is the call
that made it. `p[c]` are the parameters the tables distinguish: e-mail, order, event, and
`details`, the columns of `orders` an upsert overwrites. The statements are the actions, in
their order: `UpsertLead`, `SelectLead`, `UpsertOrder`, `SelectOrder`, `CountEvents`,
`InsertEvent`, `InsertStatuses`, `Commit`; `Return` is the result set. What a transaction
has written stays in `version` until `Persist`.

Three rules of InnoDB at REPEATABLE READ (external to the repository) decide what happens:
an upsert reads the current row, waits for its lock, and keeps it; the first plain `SELECT`
takes the snapshot (`view`) all later ones read; a transaction sees its own rows. So a call
with another e-mail passes the `leads` row, waits at `orders`, and goes on with a snapshot
in which the order it waited for is not there (`SelectOrder` then leaves `p_order_id` as
it was given, `CountEvents` counts nothing), and the unique or the foreign key refuses its
event: `refused` is the exit handler with its rollback. `Break` is a lost connection, a
deadlock victim or a lock wait that times out, before, during or after the commit.

### LeadWorker

A delivery is `<<m, d>>`, the d-th delivery of message `m`; `OrderOf[m]` is the lead it
is about, for the receiver may publish a lead twice. `InsertLead` is the procedure as
one atomic step, which `ImplementsLeadStore` justifies: its `is_new` decides between
publishing and merely committing. `InsertLeadFails` covers the rollback of its exit
handler, a result set that is lost after its commit, and the pool: a handler takes a
connection with the call and keeps it across the publishes (`HoldsConnection`), and one that
finds none within the pool's timeout has failed an attempt. `Raise` is `RetryMiddleware`
(sleep or give up), `Bury` `DlqMiddleware`, `Settle` the ack or the reject. `Disconnect`
and `Crash` put the unacknowledged messages back; `Restart` of the broker loses them, and
the dead letters, for nothing is published with `delivery_mode=2`.

The count of attempts is `MaxAttempts = 4` in the code: `RetryMiddleware` runs the
handler once and then `len(backoffs) = 3` times more.

### Pipeline

A request of the receiver *is* a message of the consumer, from the step in which RabbitMQ
has it (`Receive` conjoins `LeadWorker!Arrive`), confirmed or not. The two parts share
nothing else: neither reads a table the other writes. `Form` fixes what each webhook is.
The refinement mapping to `LeadDelivery` reads `taken` from the queue's history, `told`
from the answers, `handed` from the channels' queues.

### SmsWorker

One order: its row, message 1, and the copies 2, 3, ... published as retries. `Accept`,
`Decline`, `Defer`, `Break` are the ways the POST ends (2xx; 4xx; 5xx, 408, 429,
timeouts; other `httpx` errors, which nobody catches); `Store` and `StoreFails` are the
`UPDATE` statements, each with its own commit; `ReadAttempts` is the second transaction
of `_increment_attempts` with the decision of `_schedule_retry_or_dlq`. A copy is
deliverable from the moment it is published, and `DelayPasses` lets it expire:
`expiration` is a time to live. Everything that fails apart from the provider's answer
is a *mishap*, and `mishaps` bounds them; `Restart` of the broker is one, which loses the
queued messages and the dead letters.

## 3. Runs

| Run | Instance | Shows |
|---|---|---|
| `receiver_resends` | 1 webhook of every form, 3 sends, `CLIENT_FOUND_ROWS`, every fault | `OneClaimPerKey`, `DuplicateIsBacked`, `SwallowedLeadWasRefused`, `AnswerMatchesQueue`, `AnsweredIsAudited`, `SecondLeadNeedsLostTransaction`, `EndedEventIsSettled`, `TypeOK` |
| `receiver_ends` | 2 webhooks of one key, approved or not, 2 sends, `CLIENT_FOUND_ROWS`; publish failures, crashes, timeouts; fair | `OneFirstSeenPerKey`, `EveryRequestEnds`, `EveryWebhookSettles`, `EveryLeadArrives` |
| `receiver_swallowed` | publish failures | **violated**: `DuplicateWasProcessed` |
| `receiver_found_rows` | timeouts, `CLIENT_FOUND_ROWS`, the sender's correlation id | **violated**: `OneFirstSeenPerKey` |
| `insert_store` | 3 calls for one order, 2 e-mails, 2 events, 2 sets of columns, broken connections; fair | `RowsBelongTogether`, `RefusedRacedAnotherEmail`, `ReturnsAreTrue`, `ImplementsLeadStore`, `EveryCallReturns`, `TypeOK` |
| `lead_once` | 2 messages of one lead, 2 deliveries each, 2 attempts, every fault but the pool's and the empty commit's | `AtMostOncePerChannel`, `DistributionHasRow`, `AckedIsStored`, `UnackedIsHandled`, `CutIsForever`, `TypeOK` |
| `lead_settles` | the same with a pool of one connection, rollbacks, failed commits and broken connections; fair | `AckedIsDistributed`, `DroppedIsBuried`, `EveryMessageSettles` |
| `lead_cut` | 1 message, publish failures | **violated**: `AckedIsDistributed` |
| `pipeline_delivery` | 1 webhook, 2 sends with timeouts and lost transactions, `CLIENT_FOUND_ROWS`; a worker with rollbacks and broken connections, 2 deliveries of each message; fair | `ToldIsAccountedFor`, `EndedIsAccountedFor`, `ImplementsLeadDelivery`, `EveryLeadReachesChannels` |
| `sms_mishaps` | 1 retry, 2 attempts, 5 copies, 2 deliveries, 1 mishap, acceptance and deferral; fair | `PendingIsLive`, `DelayExists`, `RetriesAreBounded`, `SmsAreAccountedFor`, `RetriesEnd` |
| `sms_answers` | the configured 3 retries, 3 delays, 4 attempts; every answer, no mishap | `OutcomesAgree`, `RetriesAreBounded`, `SettledRowIsFinal`, `TypeOK` |
| `sms_expired` | as `sms_answers` without refusals | **violated**: `GivenUpIsDeadLettered` |

### Bounds

* Receiver: three sends of one webhook are three concurrent handlers of one key (a send
  that timed out runs on): a claimant, one that waits for its lock, and one that comes when
  the first has lost its transaction. A resend and another webhook with the key differ
  only in approval and correlation id, which `receiver_ends` varies. Keys do not interact (no
  action of one reads a table row of another), so one key is enough.
* InsertLead: a call that has committed, one that waited for it and one that goes its own
  way are three; orders do not interact, e-mails do, through the order two of them share,
  and events of one order do, through its row.
* LeadWorker: two messages of one lead and two deliveries each give four handlers, of
  which two run at once per message at most (the one left behind and its
  redelivery). Two attempts give a first run, a repeated one and giving up. Leads do
  not interact but for the pool. A broken connection or crash is only allowed while every
  affected message has a delivery left, which bounds the number of these failures. With one
  connection in the pool every concurrent handler meets its limit.
* Pipeline: two sends of which one may lose its transaction are two messages of one lead,
  the case in which the parts have to make up for each other, and each of them can be
  delivered again after the connection broke, while the first handler runs on. One
  attempt per delivery is enough for that; repeated attempts are left to `lead_settles`,
  restarts of the broker to `lead_once`, and both, by the theorems, to the proofs. Nothing
  is published in vain, no result is lost and no process dies in this run: `lead_cut`
  shows that a lead may then end with neither its channels nor a trace, by the retry or
  the redelivery that finds it known, and `ToldIsAccountedFor`, `EndedIsAccountedFor` and
  `EveryLeadReachesChannels` state this condition.
* SmsWorker: `MaxCopies` blocks `Republish` when it is reached. In `sms_answers` it is
  above the bound `RetriesAreBounded` shows, and in `sms_mishaps` five copies exceed the
  two chains of copies one mishap can start; a handler blocked there would violate
  `RetriesEnd` itself.

### Symmetry

`lead_once` permutes the messages and `receiver_swallowed` the webhooks: nothing orders
them, no liveness is checked there, and `CutIsForever` does not name a message.
`insert_store` is liveness too, so it uses no `SYMMETRY`: `SortedSpec` picks initial states
instead, in which the first call has the first of everything and the other two are in
order, one of each class of permuted ones.

### Fairness

`FairSpec` is weak fairness of each request's or delivery's handler, of `Deliver`, of the
client's `Send` and `GiveUp`, and of each call's next statement. The event loop runs every
ready coroutine; every await of a handler has a bound: the HTTP client's timeout, the
connection pool's, the driver's, InnoDB's lock wait timeout, the publisher confirm or the
closing of the channel. Waiting for the lock of the natural key is the guard of
`CheckIdempotency`; that the wait ends is what `EveryRequestEnds` shows, from the other
handlers' fairness alone; `EveryCallReturns` shows the same of the procedure's row locks.
A handler that waits for a connection of the pool gets one or fails in the end. The broker
hands ready messages to a connected consumer, and `connect_robust` reconnects. No fairness
is assumed of failures, of `DelayPasses`, of the provider's answers one by one, or of
`Crash` or `Restart`: the provider may defer for ever and the retries end all the same.
In `Pipeline` the fairness is that of `Progress`, all these steps together: failures, sends,
attempts and deliveries being bounded, this is no more than the fairness of each handler.

## 4. Proofs

`ReceiverProofs`, for any webhooks, orders, sends and failures:

* `OneClaimPerKeyHolds`, `DuplicateIsBackedHolds`. Neither is inductive. `ClaimInv`
  adds that a claim belongs to a live or committed transaction (`ClaimsAreHeld`), that
  live ones exclude each other (`LockIsExclusive`), that a committed row has writers
  that are closed (`RowsHaveWriters`), and that an insert and an update know whether the
  committed row exists (`ClaimsMatchRows`). Every step is one of four kinds
  (`StepKinds`): it checks a request's idempotency, commits it, undoes it, or leaves all
  claims alone; one lemma for each kind.
* `OneFirstSeenPerKeyHolds`, from `FirstSeenInv`: an updating claim is a duplicate and a
  first-seen request has its claim or has lost it with its row. It is proved under
  `DistinctCorrelation` (the driver reports 0 rows for an update without change, or no
  webhook brings its own correlation id). `receiver_found_rows` shows that the
  hypothesis is needed.

`AnswerProofs`: `AnswerMatchesQueueHolds`, `AnsweredIsAuditedHolds`,
`SwallowedLeadWasRefusedHolds` from `AnswerInv`: the outcome is decided before anything is
recorded, published or said (`OutcomesAreDecided`, `PublishersAreRecorded`), and whoever
says it has done what it says (`AnswersAreTrue`, `AnswersAreOutcomes`). A request's part of
it depends on that request alone, so a step disturbs one request at most
(`UntouchedKeeps`, `HandlerKeeps`). `SecondLeadNeedsLostTransactionHolds` adds a weaker
form of `FirstSeenInv`, in which an update may be taken for new if its webhook brings its
correlation id and the driver reports found rows (`Mistakable`), and needs no hypothesis.
`EndedEventIsSettledHolds` needs no hypothesis: `EventInv` says how a request's outcome
and claim follow from its webhook, and that one which ends undecided says 503; and
`DuplicateIsBacked` leads from a duplicate to a request whose insert is committed, which
therefore was accepted or discarded itself.

`InsertLeadProofs`: `RowsBelongTogetherHolds`, `RefusedRacedAnotherEmailHolds`, and
`Refinement`, that the statements implement `LeadStore`. All come from `StoreInv`. Its
heart is that what a call resolved and wrote under its locks stays what it would resolve
and write now (`LeadIsResolved`, `VersionIsCurrent`), that its snapshot is part of the
tables (`ViewIsPast`), and that what the tables have beyond the snapshot was committed by a
call with another e-mail (`LaterIsRival`). `Commit`, and a `Break` in the middle of it, are
the steps that map to `Store` or `Find`; the others map to `Tell`, `Fail` or a stutter.
`ReturnsAreTrueHolds` is proved of the abstract steps (`PromiseKeepsDecisions`) and comes
down to the procedure through `Refinement`.

`LeadWorkerProofs`:

* `AtMostOncePerChannelHolds`, `DistributionHasRowHolds`, `CutIsForeverHolds` from
  `DistributionInv`: one handler at most publishes a lead (`OnePublisher`), it has stored
  it (`PublisherStored`), and the channels ahead of it are empty (`PublisherIsAhead`). A
  step adds a copy, stores a lead, or does neither (`StepKinds`).
* `AckedIsStoredHolds`, from `AckersStored`: whoever goes on to ack has stored its lead.
* `UnackedIsHandledHolds`, for every fault: an unacknowledged message was delivered
  (`UnackedAreDelivered`) and its last delivery has a handler. It is the safety half of
  `EveryMessageSettles`: what is left to fairness is that the handler goes on.
* `DroppedIsBuriedHolds`, when no publish fails and the broker does not restart.
* `AckedIsDistributedHolds`, when no publish fails, no result set is lost and the process
  lives, from `StoredIsPublished`: a stored lead is in all channels or has its publisher.
  The hypotheses are the faults under which `lead_cut` and its like violate it.

`PipelineProofs`, for any webhooks and failures of both parts: `ReceiverRuns` and
`WorkerRuns` (what is proved of a part holds in the composition), `Refinement` to
`LeadDelivery`, and `ToldIsAccountedForHolds`. `EndedIsStoredHolds` follows an event
through both parts whatever fails: once all is quiet, an event whose handler ended is in
`lead_events`, or a request with its key was told 503 or was not approved, or a message of
it was rejected or was lost in a restart. `EndedIsAccountedForHolds` says the same of the
four channels, when no publish of the consumer fails, no result set is lost and the worker
lives; `lead_cut` shows why. Both join `EndedEventIsSettled` of the receiver to
`AckedIsStored` and `AckedIsDistributed` of the consumer, over the seam. `PipelineInv` is
`AnswerInv`, `DistributionInv` and the seam: what has arrived was taken and the reverse,
and what is stored was taken. The lemmas named `Same...` say that the operators of an
instance of a proof module are those of the instance of the module it extends.

`SmsWorkerProofs`:

* `PendingIsLiveHolds` from `PendingInv`: a message that is acknowledged or about to be
  has settled the row or has a successor (`AckedHasSuccessor`), and the latest message
  exists (`PublishedAreQueued`). `DelayExistsHolds` assumes `MaxRetries <= Backoffs`,
  which the configured values satisfy.
* `SettledRowIsFinalHolds` from `WithoutMishaps`: as long as nothing but the provider
  fails, the order is one queued message or one handler at work (`OneAtWork`), and the
  attempts count the copies (`CopiesAreCounted`).
* `OutcomesAgreeHolds` from `OneStory`, under the same assumption as `DelayExistsHolds`:
  as long as a message is queued or at work there is no dead letter; at most one handler
  is about to write one, with nothing else left and no SMS sent; and when neither is the
  case the story is told. A dead letter beside a pending row has its handler (`Spent`), for
  the message of a running handler is out to nobody else (`HeldMessages`). With `MaxRetries > Backoffs` a handler may read attempts past
  the last delay and raise until its runs are used up, and the message is buried with its
  row pending though every failure was one the provider may repeat.

`SmsCountProofs`, with every mishap and for any number of concurrent handlers; both
invariants are sums over them:

* `RetriesAreBoundedHolds` from `CopiesInv`: while the row is open, the copies and the
  handlers between their increment and their copy (`Retrying`) are no more than the
  attempts, and those that read fewer than the limit (`Renewing`) have a place left.
* `SmsAreAccountedForHolds` from `SmsInv`: the SMS sent, the handlers and messages that
  may send one without a further failure (`Live`), and one for messages the broker took
  back (`TakenBack`) are no more than one, the mishaps and the redeliveries together.

Each component has its `TypeCorrect`; the proofs use the constants' assumptions
only, and the hypotheses named above.

Model-checked only: all liveness (`EveryRequestEnds`, `EveryWebhookSettles`,
`EveryLeadArrives`, `EveryCallReturns`, `EveryMessageSettles`,
`EveryLeadReachesChannels`, `RetriesEnd`), which is beyond the prover.

## 5. Where code and documents disagree

Shown by runs (each is a finding in `PROJECT.json`):

1. A failed publish is answered 503 but its claim is committed; the resend is called a
   duplicate and the lead is never queued (`receiver_swallowed`).
2. Under `CLIENT_FOUND_ROWS`, which SQLAlchemy's MySQL dialects set, a resend with its
   own correlation id counts as new (`receiver_found_rows`).
3. A failed publish of one channel leaves the lead cut for ever, acked and not
   dead-lettered (`lead_cut`, `CutIsForever`).
4. A retry that waits in the queue longer than its delay expires into nothing
   (`sms_expired`).

Seen in the code while translating it:

5. `README.md:342` and the docstring at `receiver/db.py:97` say the gateway is not part of
   the unique key; it is (`sql/001_create_tables.sql:51`).
6. `expiration` makes the delay of a retry a time to live: an idle worker handles the
   copy at once (`worker/main.py:168`).
7. A JSON body that is not an object cannot be dead-lettered and is answered 503, as if
   the database or broker were away (`routes.py:60`).
8. When the dead-letter publish fails the message is rejected all the same, and lost
   (`exception_handlers.py:96`).
9. A failing commit after the response leaves no `raw_payloads` row of an answered
   webhook (`dependencies.py:20`).
10. `apps/worker/README.md:28` speaks of 3 attempts; the middleware makes 4.
11. `docs/conceitual_parte_a.md:121` expects a race past the receiver to end as a silent
    no-op in `sp_insert_lead`. With two e-mails for one order the loser fails by a key
    (`RefusedRacedAnotherEmail`), and only its retry finds the lead known.
12. `docs/explicativo.md:104` calls the dead-letter queues persistent; the queues are
    durable, the messages are not (`receiver/publishers.py:83`).
13. An `order.approved` whose payment is pending claims the key and is discarded; the same
    event once paid is a duplicate (`receiver/routes.py:211`). `EveryLeadArrives` names the
    case.
14. The statements of the SMS handler do not look at the row they change: after a
    redelivery, or an update whose commit was not answered, a later run turns a delivered
    row into a failed one or adds attempts to it (`worker/distributors.py:71`). The counts
    hold all the same (`SmsAreAccountedFor`); `SettledRowIsFinal` needs its hypothesis.

## 6. Not modelled

* The bytes: decryption and parsing are classes of inputs. The normalisation of names,
  e-mails and phones is a chain of library calls on strings, without state; what matters
  to the pipeline, a phone too long for its column, is a rollback that no retry helps.
* Columns nothing reads back: times, lag, error texts.
* The composition of `SmsWorker` with `LeadWorker`. It starts from one message and one
  pending row per order, which `AtMostOncePerChannel` and `DistributionHasRow` provide, and
  shares nothing else.
* The pool of the SMS handlers: they hold a connection for one statement at a time.
* Health checks, start and stop, logging, indexes, audit queries: no state the pipeline
  reads.
* The collation of the key columns, which decides which strings are one key: the models
  start from keys.

## 7. What is left

1. One `Pipeline` from webhook to SMS.
2. More than one lead in one `Pipeline` instance: leads meet only in the pool, and the
   state space multiplies.

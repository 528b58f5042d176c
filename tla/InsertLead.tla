---------------------------- MODULE InsertLead ----------------------------
(***************************************************************************)
(* sp_insert_lead, statement by statement, on InnoDB at REPEATABLE READ.   *)
(*                                                                         *)
(* An upsert reads the current row, waits for the transaction that holds   *)
(* its lock, and keeps the lock until the end of its own.  A plain SELECT  *)
(* reads the snapshot the first one took, and the transaction's own rows   *)
(* in front of it.  So a call that waited for another one at the orders    *)
(* table goes on with a snapshot older than what it waited for.            *)
(*                                                                         *)
(* Every call brings fresh UUIDs: the id of a row is the call that made    *)
(* it.  A repetition by RetryMiddleware is another call.                   *)
(***************************************************************************)
EXTENDS Naturals, FiniteSets

CONSTANTS
    Call,       \* calls of the procedure, each with its UUIDs
    Email,      \* normalised addresses: the key of leads
    Order,      \* (gateway, transaction_id): the key of orders
    Event,      \* event names: with the order's id, the key of lead_events
    Details,    \* the columns of orders an upsert overwrites
    Nobody,     \* the id of no row
    Breakable   \* whether connections break and deadlocks find a victim

ASSUME InsertLeadAssumption ==
    /\ Nobody \notin Call
    /\ Breakable \in BOOLEAN

Parameters == [email : Email, order : Order, event : Event, details : Details]
Row == [id : Call, lead : Call, details : Details]
NoRow == [id |-> Nobody]

(* The statement a call runs next, or how it ended.                        *)
Statement == {"lead", "lead_id", "order", "order_id", "count", "event",
              "status", "commit"}
Place == Statement \cup {"result", "new", "known", "refused", "lost"}

VARIABLES
    p,          \* the parameters of each call
    leads,      \* the lead id of each e-mail
    orders,     \* the row of each order
    events,     \* lead_events: (order id, event)
    statuses,   \* order ids with their four distribution_status rows
    pc,         \* where each call is
    view,       \* its snapshot of orders and lead_events
    version,    \* the row its transaction has written to orders
    lead_id,    \* p_lead_id, as given and then as resolved
    order_id,   \* p_order_id, likewise
    is_new      \* v_is_new

tables == <<leads, orders, events, statuses>>
locals == <<view, version, lead_id, order_id, is_new>>
vars == <<p, tables, pc, locals>>

Init ==
    /\ p \in [Call -> Parameters]
    /\ leads = [a \in Email |-> Nobody]
    /\ orders = [o \in Order |-> NoRow]
    /\ events = {}
    /\ statuses = {}
    /\ pc = [c \in Call |-> "lead"]
    /\ view = [c \in Call |-> [orders |-> orders, events |-> events]]
    /\ version = [c \in Call |-> NoRow]
    /\ lead_id = [c \in Call |-> c]
    /\ order_id = [c \in Call |-> c]
    /\ is_new = [c \in Call |-> FALSE]

-----------------------------------------------------------------------------
(* Row locks, held from the upsert to the end of the transaction.          *)

(* Faulty variants: the row found by a plain SELECT is not locked; the exit *)
(* handler does not roll back.                                             *)
LeadIsFreeUnlocked(c) == TRUE

LocksOrderUnrolled(c) ==
    pc[c] \in {"order_id", "count", "event", "status", "commit", "refused"}

LocksLead(c) == pc[c] \in Statement \ {"lead"}

LocksOrder(c) == pc[c] \in {"order_id", "count", "event", "status", "commit"}

LeadIsFree(c) ==
    \A d \in Call \ {c} : LocksLead(d) => p[d].email # p[c].email

OrderIsFree(c) ==
    \A d \in Call \ {c} : LocksOrder(d) => p[d].order # p[c].order

GoTo(c, place) == pc' = [pc EXCEPT ![c] = place]

(* INSERT INTO leads ... ON DUPLICATE KEY UPDATE.                          *)
UpsertLead(c) ==
    /\ pc[c] = "lead"
    /\ LeadIsFree(c)
    /\ GoTo(c, "lead_id")
    /\ UNCHANGED <<p, tables, locals>>

(* SELECT id FROM leads: finds the call's own row, inserted or refreshed,  *)
(* and takes the snapshot.                                                 *)
SelectLead(c) ==
    /\ pc[c] = "lead_id"
    /\ view' = [view EXCEPT ![c] = [orders |-> orders, events |-> events]]
    /\ lead_id' = [lead_id EXCEPT ![c] =
                     IF leads[p[c].email] = Nobody THEN c ELSE leads[p[c].email]]
    /\ GoTo(c, "order")
    /\ UNCHANGED <<p, tables, version, order_id, is_new>>

(* INSERT INTO orders ... ON DUPLICATE KEY UPDATE: an update that changes  *)
(* nothing writes no row.                                                  *)
Upserted(c, row) ==
    IF row = NoRow
    THEN [id |-> c, lead |-> lead_id[c], details |-> p[c].details]
    ELSE IF row.details = p[c].details THEN NoRow
    ELSE [row EXCEPT !.details = p[c].details]

UpsertOrder(c) ==
    /\ pc[c] = "order"
    /\ OrderIsFree(c)
    /\ version' = [version EXCEPT ![c] = Upserted(c, orders[p[c].order])]
    /\ GoTo(c, "order_id")
    /\ UNCHANGED <<p, tables, view, lead_id, order_id, is_new>>

(* SELECT id FROM orders: no row is a warning, p_order_id stays.           *)
Visible(c) ==
    IF version[c] # NoRow THEN version[c] ELSE view[c].orders[p[c].order]

(* Faulty variant: no row sets p_order_id to NULL.                         *)
SelectOrderOrNull(c) ==
    /\ pc[c] = "order_id"
    /\ order_id' = [order_id EXCEPT ![c] = Visible(c).id]
    /\ GoTo(c, "count")
    /\ UNCHANGED <<p, tables, view, version, lead_id, is_new>>

SelectOrder(c) ==
    /\ pc[c] = "order_id"
    /\ order_id' = [order_id EXCEPT ![c] =
                      IF Visible(c) = NoRow THEN @ ELSE Visible(c).id]
    /\ GoTo(c, "count")
    /\ UNCHANGED <<p, tables, view, version, lead_id, is_new>>

EventRow(c) == <<order_id[c], p[c].event>>

(* SELECT COUNT( * ) FROM lead_events.                                     *)
CountEvents(c) ==
    /\ pc[c] = "count"
    /\ GoTo(c, IF EventRow(c) \in view[c].events THEN "commit" ELSE "event")
    /\ UNCHANGED <<p, tables, locals>>

(* INSERT INTO lead_events: the unique key and the foreign key are checked *)
(* against the current rows.  An error runs the exit handler.              *)
Current(c) ==
    IF version[c] # NoRow THEN version[c] ELSE orders[p[c].order]

(* Faulty variant: lead_events has no foreign key.                         *)
OrderExistsUnchecked(c) == TRUE

OrderExists(c) == Current(c).id = order_id[c]

(* Faulty variant: INSERT IGNORE, as for the status rows.                  *)
InsertEventIgnored(c) ==
    /\ pc[c] = "event"
    /\ GoTo(c, IF OrderExists(c) THEN "status" ELSE "refused")
    /\ UNCHANGED <<p, tables, locals>>

InsertEvent(c) ==
    /\ pc[c] = "event"
    /\ GoTo(c, IF EventRow(c) \notin events /\ OrderExists(c)
               THEN "status" ELSE "refused")
    /\ UNCHANGED <<p, tables, locals>>

(* INSERT IGNORE INTO distribution_status: rows that exist are kept.       *)
InsertStatuses(c) ==
    /\ pc[c] = "status"
    /\ is_new' = [is_new EXCEPT ![c] = TRUE]
    /\ GoTo(c, "commit")
    /\ UNCHANGED <<p, tables, view, version, lead_id, order_id>>

Persist(c) ==
    /\ leads' = [leads EXCEPT ![p[c].email] = lead_id[c]]
    /\ orders' = [orders EXCEPT ![p[c].order] = Current(c)]
    /\ events' = IF is_new[c] THEN events \cup {EventRow(c)} ELSE events
    /\ statuses' = IF is_new[c] THEN statuses \cup {order_id[c]} ELSE statuses

Commit(c) ==
    /\ pc[c] = "commit"
    /\ Persist(c)
    /\ GoTo(c, "result")
    /\ UNCHANGED <<p, locals>>

(* The result set reaches the worker.                                      *)
Return(c) ==
    /\ pc[c] = "result"
    /\ GoTo(c, IF is_new[c] THEN "new" ELSE "known")
    /\ UNCHANGED <<p, tables, locals>>

(* A deadlock victim, a lock wait that times out or a broken connection:   *)
(* the transaction is rolled back, unless its commit was under way or done.*)
Break(c) ==
    /\ Breakable
    /\ pc[c] \in Statement \cup {"result"}
    /\ \/ UNCHANGED tables
       \/ pc[c] = "commit" /\ Persist(c)
    /\ GoTo(c, "lost")
    /\ UNCHANGED <<p, locals>>

Run(c) ==
    \/ UpsertLead(c) \/ SelectLead(c) \/ UpsertOrder(c) \/ SelectOrder(c)
    \/ CountEvents(c) \/ InsertEvent(c) \/ InsertStatuses(c)
    \/ Commit(c) \/ Return(c)

Done ==
    /\ \A c \in Call : pc[c] \in Place \ (Statement \cup {"result"})
    /\ UNCHANGED vars

Next ==
    \/ \E c \in Call : Run(c) \/ Break(c)
    \/ Done

Spec == Init /\ [][Next]_vars

(* MySQL runs every statement that has its locks.                          *)
FairSpec == Spec /\ \A c \in Call : WF_vars(Run(c))

-----------------------------------------------------------------------------
(* Type invariant.                                                         *)
TypeOK ==
    /\ p \in [Call -> Parameters]
    /\ leads \in [Email -> Call \cup {Nobody}]
    /\ orders \in [Order -> Row \cup {NoRow}]
    /\ events \subseteq Call \X Event
    /\ statuses \subseteq Call
    /\ pc \in [Call -> Place]
    /\ view \in [Call -> [orders : [Order -> Row \cup {NoRow}],
                          events : SUBSET (Call \X Event)]]
    /\ version \in [Call -> Row \cup {NoRow}]
    /\ lead_id \in [Call -> Call]
    /\ order_id \in [Call -> Call]
    /\ is_new \in [Call -> BOOLEAN]

(* Whatever the calls interleave, an event in lead_events has its order,   *)
(* the order has its four status rows and its lead: no row is left by a    *)
(* call that failed half-way, or written under an id nobody committed.     *)
RowsBelongTogether ==
    \A e \in events :
        /\ \E o \in Order : orders[o].id = e[1]
                            /\ \E a \in Email : leads[a] = orders[o].lead
        /\ e[1] \in statuses

(* A call with another e-mail has committed c's order.                     *)
Rival(c) ==
    \E d \in Call :
        /\ pc[d] \in {"result", "new", "known", "lost"}
        /\ p[d].order = p[c].order
        /\ p[d].email # p[c].email

(* Without a failure of the connection, a call is refused by a key only    *)
(* when a call with another e-mail address has committed the same order:   *)
(* redeliveries and resends of one webhook wait at the leads row and find  *)
(* the lead.                                                               *)
RefusedRacedAnotherEmail ==
    \A c \in Call : pc[c] = "refused" => Rival(c)

(* Every call ends: the locks are always taken in the same order.          *)
EveryCallReturns ==
    \A c \in Call : <>(pc[c] \in {"new", "known", "refused", "lost"})

-----------------------------------------------------------------------------
(* The procedure implements the one step the lead consumer relies on.      *)

OrderEvent == Order \X Event
About(c) == <<p[c].order, p[c].event>>

StoredLeads == {k \in OrderEvent : <<orders[k[1]].id, k[2]>> \in events}

AnswerOf(c) ==
    IF pc[c] = "result" THEN IF is_new[c] THEN "stored" ELSE "found"
    ELSE IF pc[c] \in {"new", "known"} THEN pc[c]
    ELSE IF pc[c] \in {"refused", "lost"} THEN "failed"
    ELSE "none"

Abstract == INSTANCE LeadStore WITH
    Lead <- OrderEvent,
    about <- [c \in Call |-> About(c)],
    stored <- StoredLeads,
    answer <- [c \in Call |-> AnswerOf(c)]

(* A call of the procedure finds or stores its lead in one step.           *)
ImplementsLeadStore == Abstract!Spec

(* What the lead consumer decides by: whoever is answered finds its lead   *)
(* stored, so a lead that is known is nowhere missing, and of all the      *)
(* calls for a lead, repeated, redelivered or lost after their commit, at  *)
(* most one is told that it is new.                                        *)
ReturnsAreTrue ==
    /\ \A c \in Call : pc[c] \in {"new", "known"} => About(c) \in StoredLeads
    /\ \A c, d \in Call :
         pc[c] = "new" /\ pc[d] = "new" /\ About(c) = About(d) => c = d
=============================================================================

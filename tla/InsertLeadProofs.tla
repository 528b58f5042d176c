-------------------------- MODULE InsertLeadProofs --------------------------
(***************************************************************************)
(* sp_insert_lead implements the one step the lead consumer relies on, for *)
(* every set of calls, e-mails, orders, events and details.                *)
(***************************************************************************)
EXTENDS InsertLead, TLAPS

-----------------------------------------------------------------------------
(* The inductive invariant behind the refinement.                          *)

OrderLockIsExclusive ==
    \A c, d \in Call :
        LocksOrder(c) /\ LocksOrder(d) /\ p[c].order = p[d].order => c = d

LeadLockIsExclusive ==
    \A c, d \in Call :
        LocksLead(c) /\ LocksLead(d) /\ p[c].email = p[d].email => c = d

HasView(c) == pc[c] \in Statement \ {"lead", "lead_id"}
HasOrder(c) == pc[c] \in {"count", "event", "status", "commit"}

(* Under its locks, what a call resolved and wrote stays what it would     *)
(* resolve and write now.                                                  *)
LeadIsResolved ==
    \A c \in Call : HasView(c) =>
        lead_id[c] = IF leads[p[c].email] = Nobody THEN c ELSE leads[p[c].email]

VersionIsCurrent ==
    \A c \in Call : LocksOrder(c) => version[c] = Upserted(c, orders[p[c].order])

ViewIsPast ==
    \A c \in Call :
        /\ view[c].events \subseteq events
        /\ \A o \in Order : view[c].orders[o] # NoRow =>
                view[c].orders[o].id = orders[o].id

(* The order id is the right one, or still the call's own when the order   *)
(* was committed after its snapshot and the upsert wrote nothing.          *)
OrderIsResolved ==
    \A c \in Call :
        /\ pc[c] \in Statement /\ ~HasOrder(c) => order_id[c] = c
        /\ HasOrder(c) => \/ OrderExists(c)
                          \/ /\ order_id[c] = c
                             /\ orders[p[c].order] # NoRow
                             /\ view[c].orders[p[c].order] = NoRow

NewIsDecidedLate ==
    \A c \in Call : is_new[c] => pc[c] \in {"commit", "result", "new", "lost"}

NewIsChecked ==
    \A c \in Call : pc[c] = "status" \/ (pc[c] = "commit" /\ is_new[c]) =>
        OrderExists(c) /\ EventRow(c) \notin events

KnownIsStored ==
    \A c \in Call : pc[c] = "commit" /\ ~is_new[c] => EventRow(c) \in events

CountedIsAbsent ==
    \A c \in Call : pc[c] = "event" => EventRow(c) \notin view[c].events

OrderIdsBelong ==
    \A o \in Order : orders[o] # NoRow => p[orders[o].id].order = o

EventsHaveOrders ==
    \A e \in events : orders[p[e[1]].order].id = e[1] /\ e[1] \in statuses

OrdersHaveLeads ==
    \A o \in Order : orders[o] # NoRow => \E a \in Email : leads[a] = orders[o].lead

(* What is in the tables and not in the snapshot, a rival committed.       *)
LaterIsRival ==
    \A c \in Call : HasView(c) =>
        /\ orders[p[c].order] # NoRow /\ view[c].orders[p[c].order] = NoRow
                => Rival(c)
        /\ \A e \in events : p[e[1]].order = p[c].order /\ e \notin view[c].events
                => Rival(c)

StoreInv ==
    /\ TypeOK /\ OrderLockIsExclusive /\ LeadLockIsExclusive
    /\ LeadIsResolved /\ VersionIsCurrent /\ ViewIsPast /\ OrderIsResolved
    /\ NewIsDecidedLate /\ NewIsChecked /\ KnownIsStored /\ CountedIsAbsent
    /\ OrderIdsBelong /\ EventsHaveOrders /\ OrdersHaveLeads
    /\ LaterIsRival /\ RefusedRacedAnotherEmail

-----------------------------------------------------------------------------

LEMMA InitInv == Init => StoreInv
<1> SUFFICES ASSUME Init PROVE StoreInv
  OBVIOUS
<1> USE InsertLeadAssumption
<1>1. TypeOK
  BY DEF Init, TypeOK, Place, Statement
<1>2. /\ OrderLockIsExclusive /\ LeadLockIsExclusive /\ LeadIsResolved
      /\ VersionIsCurrent /\ NewIsDecidedLate /\ NewIsChecked /\ KnownIsStored
      /\ CountedIsAbsent /\ LaterIsRival /\ RefusedRacedAnotherEmail
  BY DEF Init, OrderLockIsExclusive, LeadLockIsExclusive, LeadIsResolved,
     VersionIsCurrent, NewIsDecidedLate, NewIsChecked, KnownIsStored,
     CountedIsAbsent, LaterIsRival, RefusedRacedAnotherEmail,
     LocksOrder, LocksLead, HasView, Statement
<1>3. ViewIsPast /\ OrderIsResolved
  BY DEF Init, ViewIsPast, OrderIsResolved, HasOrder, NoRow
<1>4. OrderIdsBelong /\ EventsHaveOrders /\ OrdersHaveLeads
  BY DEF Init, OrderIdsBelong, EventsHaveOrders, OrdersHaveLeads, NoRow
<1> QED
  BY <1>1, <1>2, <1>3, <1>4 DEF StoreInv

-----------------------------------------------------------------------------
(* Types.                                                                  *)

LEMMA NoRowIsNoRow ==
    ASSUME NEW r \in Row \cup {NoRow}
    PROVE  /\ r = NoRow <=> r.id = Nobody
           /\ r # NoRow => r \in Row /\ r.id \in Call
BY InsertLeadAssumption DEF Row, NoRow

LEMMA UpsertedType ==
    ASSUME TypeOK, NEW c \in Call, NEW r \in Row \cup {NoRow}
    PROVE  /\ Upserted(c, r) \in Row \cup {NoRow}
           /\ Upserted(c, r) # NoRow =>
                Upserted(c, r).id = IF r = NoRow THEN c ELSE r.id
           /\ r = NoRow => Upserted(c, r) # NoRow
<1>1. lead_id[c] \in Call /\ p[c].details \in Details
  BY DEF TypeOK, Parameters
<1>2. CASE r = NoRow
  <2>1. Upserted(c, r) = [id |-> c, lead |-> lead_id[c], details |-> p[c].details]
    BY <1>2 DEF Upserted
  <2>2. Upserted(c, r) \in Row /\ Upserted(c, r).id = c
    BY <1>1, <2>1 DEF Row
  <2> QED
    BY <1>2, <2>2, InsertLeadAssumption DEF NoRow
<1>3. CASE r # NoRow /\ r.details = p[c].details
  BY <1>3 DEF Upserted
<1>4. CASE r # NoRow /\ r.details # p[c].details
  <2>1. Upserted(c, r) = [r EXCEPT !.details = p[c].details]
    BY <1>4 DEF Upserted
  <2>2. r \in Row
    BY <1>4
  <2>3. Upserted(c, r) \in Row /\ Upserted(c, r).id = r.id
    BY <1>1, <2>1, <2>2 DEF Row
  <2> QED
    BY <1>4, <2>3
<1> QED
  BY <1>2, <1>3, <1>4

LEMMA NextTypeOK ==
    ASSUME TypeOK, [Next]_vars
    PROVE  TypeOK'
<1> USE InsertLeadAssumption
<1>0. CASE UNCHANGED vars
  BY <1>0 DEF vars, tables, locals, TypeOK
<1>1. ASSUME NEW c \in Call, Persist(c), UNCHANGED <<p, locals>>,
             pc' \in [Call -> Place]
      PROVE  TypeOK'
  <2>1. Current(c) \in Row \cup {NoRow}
    BY DEF Current, TypeOK, Parameters
  <2>2. leads' \in [Email -> Call \cup {Nobody}]
    BY <1>1 DEF Persist, TypeOK, Parameters
  <2>3. orders' \in [Order -> Row \cup {NoRow}]
    BY <1>1, <2>1 DEF Persist, TypeOK, Parameters
  <2>4. events' \subseteq Call \X Event
    BY <1>1 DEF Persist, TypeOK, Parameters, EventRow
  <2>5. statuses' \subseteq Call
    BY <1>1 DEF Persist, TypeOK
  <2> QED
    BY <1>1, <2>2, <2>3, <2>4, <2>5 DEF TypeOK, locals
<1>2. ASSUME NEW c \in Call, Run(c) \/ Break(c) PROVE TypeOK'
  <2>1. pc' \in [Call -> Place]
    BY <1>2 DEF Run, Break, UpsertLead, SelectLead, UpsertOrder, SelectOrder,
       CountEvents, InsertEvent, InsertStatuses, Commit, Return, GoTo,
       TypeOK, Place, Statement
  <2>2. CASE UpsertLead(c) \/ CountEvents(c) \/ InsertEvent(c) \/ Return(c)
    BY <2>1, <2>2 DEF UpsertLead, CountEvents, InsertEvent, Return, tables,
       locals, TypeOK
  <2>3. CASE SelectLead(c)
    <3>1. lead_id' \in [Call -> Call]
      BY <2>3 DEF SelectLead, TypeOK, Parameters
    <3>2. view' \in [Call -> [orders : [Order -> Row \cup {NoRow}],
                              events : SUBSET (Call \X Event)]]
      BY <2>3 DEF SelectLead, TypeOK
    <3> QED
      BY <2>1, <2>3, <3>1, <3>2 DEF SelectLead, tables, TypeOK
  <2>4. CASE UpsertOrder(c)
    <3>1. version' \in [Call -> Row \cup {NoRow}]
      <4>1. orders[p[c].order] \in Row \cup {NoRow}
        BY DEF TypeOK, Parameters
      <4> QED
        BY <2>4, <4>1, UpsertedType DEF UpsertOrder, TypeOK
    <3> QED
      BY <2>1, <2>4, <3>1 DEF UpsertOrder, tables, TypeOK
  <2>5. CASE SelectOrder(c)
    <3>1. Visible(c) \in Row \cup {NoRow}
      BY DEF Visible, TypeOK, Parameters
    <3>2. order_id' \in [Call -> Call]
      BY <2>5, <3>1, NoRowIsNoRow DEF SelectOrder, TypeOK
    <3> QED
      BY <2>1, <2>5, <3>2 DEF SelectOrder, tables, TypeOK
  <2>6. CASE InsertStatuses(c)
    BY <2>1, <2>6 DEF InsertStatuses, tables, TypeOK
  <2>7. CASE Commit(c)
    BY <1>1, <2>1, <2>7 DEF Commit
  <2>8. CASE Break(c)
    <3>1. CASE UNCHANGED tables
      BY <2>1, <2>8, <3>1 DEF Break, tables, locals, TypeOK
    <3> QED
      BY <1>1, <2>1, <2>8, <3>1 DEF Break
  <2> QED
    BY <1>2, <2>2, <2>3, <2>4, <2>5, <2>6, <2>7, <2>8 DEF Run
<1> QED
  BY <1>0, <1>2 DEF Next, Done

-----------------------------------------------------------------------------
(* Every step is one of a call, which commits or leaves the tables alone,  *)
(* and leaves the other calls where they are.                              *)

Step(c) == Run(c) \/ Break(c)

Commits(c) ==
    /\ pc[c] = "commit"
    /\ pc' = [pc EXCEPT ![c] = IF pc'[c] = "result" THEN "result" ELSE "lost"]
    /\ Persist(c)
    /\ UNCHANGED <<p, locals>>

LEMMA StepKinds ==
    ASSUME TypeOK, NEW c \in Call, Step(c)
    PROVE  /\ p' = p
           /\ UNCHANGED tables \/ Commits(c)
           /\ \A d \in Call \ {c} :
                /\ pc'[d] = pc[d] /\ view'[d] = view[d]
                /\ version'[d] = version[d] /\ lead_id'[d] = lead_id[d]
                /\ order_id'[d] = order_id[d] /\ is_new'[d] = is_new[d]
<1>1. p' = p
  BY DEF Step, Run, Break, UpsertLead, SelectLead, UpsertOrder, SelectOrder,
     CountEvents, InsertEvent, InsertStatuses, Commit, Return
<1>2. UNCHANGED tables \/ Commits(c)
  BY DEF Step, Run, Break, UpsertLead, SelectLead, UpsertOrder, SelectOrder,
     CountEvents, InsertEvent, InsertStatuses, Commit, Return, Commits, GoTo,
     TypeOK
<1>3. ASSUME NEW d \in Call \ {c}
      PROVE  /\ pc'[d] = pc[d] /\ view'[d] = view[d]
             /\ version'[d] = version[d] /\ lead_id'[d] = lead_id[d]
             /\ order_id'[d] = order_id[d] /\ is_new'[d] = is_new[d]
  BY DEF Step, Run, Break, UpsertLead, SelectLead, UpsertOrder, SelectOrder,
     CountEvents, InsertEvent, InsertStatuses, Commit, Return, GoTo, locals,
     TypeOK
<1> QED
  BY <1>1, <1>2, <1>3

(* What a commit writes.                                                   *)
LEMMA CommitWrites ==
    ASSUME StoreInv, NEW c \in Call, Commits(c)
    PROVE  LET o == p[c].order
               a == p[c].email IN
           /\ leads' = [leads EXCEPT ![a] = lead_id[c]]
           /\ lead_id[c] \in Call
           /\ leads[a] # Nobody => lead_id[c] = leads[a]
           /\ orders' = [orders EXCEPT ![o] = Current(c)]
           /\ Current(c) \in Row
           /\ Current(c).id \in Call /\ p[Current(c).id].order = o
           /\ orders[o] # NoRow => /\ Current(c).id = orders[o].id
                                   /\ Current(c).lead = orders[o].lead
           /\ orders[o] = NoRow => Current(c).lead = lead_id[c]
           /\ ~is_new[c] => UNCHANGED <<events, statuses>>
           /\ is_new[c] => /\ events' = events \cup {EventRow(c)}
                           /\ EventRow(c) \notin events
                           /\ statuses' = statuses \cup {order_id[c]}
                           /\ Current(c).id = order_id[c]
<1> DEFINE o == p[c].order
           a == p[c].email
<1>1. /\ p[c] \in Parameters /\ o \in Order /\ a \in Email
      /\ orders[o] \in Row \cup {NoRow} /\ lead_id[c] \in Call
  BY DEF StoreInv, TypeOK, Parameters
<1>2. pc[c] = "commit" /\ Persist(c)
  BY DEF Commits
<1>3. leads[a] # Nobody => lead_id[c] = leads[a]
  BY <1>2 DEF StoreInv, LeadIsResolved, HasView, Statement
<1>4. version[c] = Upserted(c, orders[o])
  BY <1>2 DEF StoreInv, VersionIsCurrent, LocksOrder
<1>5. CASE orders[o] = NoRow
  <2>1. Upserted(c, NoRow) = [id |-> c, lead |-> lead_id[c], details |-> p[c].details]
    BY DEF Upserted
  <2>2. version[c] \in Row /\ version[c].id = c /\ version[c].lead = lead_id[c]
    BY <1>1, <1>4, <1>5, <2>1 DEF Row, Parameters
  <2>3. Current(c) = version[c]
    BY <2>2, NoRowIsNoRow, InsertLeadAssumption DEF Current
  <2> QED
    BY <1>1, <1>2, <1>3, <1>5, <2>2, <2>3
    DEF Persist, StoreInv, NewIsChecked, OrderExists
<1>6. CASE orders[o] # NoRow
  <2>1. orders[o] \in Row
    BY <1>1, <1>6
  <2>2. Upserted(c, orders[o]) \in {NoRow, [orders[o] EXCEPT !.details = p[c].details]}
    BY <1>6 DEF Upserted
  <2>3. Current(c) \in {orders[o], [orders[o] EXCEPT !.details = p[c].details]}
    BY <1>4, <2>2 DEF Current
  <2>4. /\ Current(c) \in Row /\ Current(c).id = orders[o].id
        /\ Current(c).lead = orders[o].lead
    BY <1>1, <2>1, <2>3 DEF Row, Parameters
  <2>5. p[orders[o].id].order = o /\ orders[o].id \in Call
    BY <1>1, <1>6, <2>1 DEF StoreInv, OrderIdsBelong, Row
  <2> QED
    BY <1>1, <1>2, <1>3, <1>6, <2>4, <2>5
    DEF Persist, StoreInv, NewIsChecked, OrderExists
<1> QED
  BY <1>5, <1>6

(* Rows are never taken away, and an order keeps its id and its lead.      *)
LEMMA TablesGrow ==
    ASSUME StoreInv, NEW c \in Call, Step(c)
    PROVE  /\ events \subseteq events' /\ statuses \subseteq statuses'
           /\ \A a \in Email : leads[a] # Nobody => leads'[a] = leads[a]
           /\ \A o \in Order : orders[o] # NoRow =>
                /\ orders'[o] # NoRow
                /\ orders'[o].id = orders[o].id
                /\ orders'[o].lead = orders[o].lead
<1>1. TypeOK
  BY DEF StoreInv
<1>2. CASE UNCHANGED tables
  BY <1>2 DEF tables
<1>3. CASE Commits(c)
  <2>1. Current(c) # NoRow
    BY <1>3, CommitWrites, NoRowIsNoRow, InsertLeadAssumption DEF NoRow
  <2> QED
    BY <1>1, <1>3, <2>1, CommitWrites DEF TypeOK
<1> QED
  BY <1>1, <1>2, <1>3, StepKinds

(* The rows another call has locked stay as they are.                      *)
LEMMA LockedRowsStay ==
    ASSUME StoreInv, NEW c \in Call, Step(c), NEW d \in Call \ {c}
    PROVE  /\ LocksLead(d) => leads'[p[d].email] = leads[p[d].email]
           /\ LocksOrder(d) => orders'[p[d].order] = orders[p[d].order]
<1>1. TypeOK
  BY DEF StoreInv
<1>2. CASE UNCHANGED tables
  BY <1>2 DEF tables
<1>3. CASE Commits(c)
  <2>1. LocksLead(c) /\ LocksOrder(c)
    BY <1>3 DEF Commits, LocksLead, LocksOrder, Statement
  <2>2. LocksLead(d) => p[d].email # p[c].email
    BY <2>1 DEF StoreInv, LeadLockIsExclusive
  <2>3. LocksOrder(d) => p[d].order # p[c].order
    BY <2>1 DEF StoreInv, OrderLockIsExclusive
  <2> QED
    BY <1>1, <1>3, <2>2, <2>3, CommitWrites DEF TypeOK, Parameters
<1> QED
  BY <1>1, <1>2, <1>3, StepKinds

-----------------------------------------------------------------------------
(* The locks.                                                              *)

LEMMA LocksStayExclusive ==
    ASSUME StoreInv, NEW c \in Call, Step(c)
    PROVE  OrderLockIsExclusive' /\ LeadLockIsExclusive'
<1>1. TypeOK /\ p' = p
  BY StepKinds DEF StoreInv
<1>2. ASSUME NEW d \in Call, LocksLead(d)', ~LocksLead(d)
      PROVE  d = c /\ LeadIsFree(c)
  <2>1. d = c
    BY <1>1, <1>2, StepKinds DEF LocksLead
  <2>2. UpsertLead(c)
    BY <1>1, <1>2, <2>1 DEF Step, Run, Break, UpsertLead, SelectLead,
       UpsertOrder, SelectOrder, CountEvents, InsertEvent, InsertStatuses,
       Commit, Return, GoTo, TypeOK, LocksLead, Statement
  <2> QED
    BY <2>1, <2>2 DEF UpsertLead
<1>3. ASSUME NEW d \in Call, LocksOrder(d)', ~LocksOrder(d)
      PROVE  d = c /\ OrderIsFree(c)
  <2>1. d = c
    BY <1>1, <1>3, StepKinds DEF LocksOrder
  <2>2. UpsertOrder(c)
    BY <1>1, <1>3, <2>1 DEF Step, Run, Break, UpsertLead, SelectLead,
       UpsertOrder, SelectOrder, CountEvents, InsertEvent, InsertStatuses,
       Commit, Return, GoTo, TypeOK, LocksOrder, Statement
  <2> QED
    BY <2>1, <2>2 DEF UpsertOrder
<1>4. LeadLockIsExclusive'
  <2> SUFFICES ASSUME NEW d \in Call, NEW e \in Call, LocksLead(d)', LocksLead(e)',
                      p[d].email = p[e].email
               PROVE  d = e
    BY <1>1 DEF LeadLockIsExclusive
  <2>1. CASE LocksLead(d) /\ LocksLead(e)
    BY <2>1 DEF StoreInv, LeadLockIsExclusive
  <2>2. CASE ~LocksLead(d)
    BY <1>2, <2>2 DEF LeadIsFree
  <2>3. CASE ~LocksLead(e)
    BY <1>2, <2>3 DEF LeadIsFree
  <2> QED
    BY <2>1, <2>2, <2>3
<1>5. OrderLockIsExclusive'
  <2> SUFFICES ASSUME NEW d \in Call, NEW e \in Call, LocksOrder(d)', LocksOrder(e)',
                      p[d].order = p[e].order
               PROVE  d = e
    BY <1>1 DEF OrderLockIsExclusive
  <2>1. CASE LocksOrder(d) /\ LocksOrder(e)
    BY <2>1 DEF StoreInv, OrderLockIsExclusive
  <2>2. CASE ~LocksOrder(d)
    BY <1>3, <2>2 DEF OrderIsFree
  <2>3. CASE ~LocksOrder(e)
    BY <1>3, <2>3 DEF OrderIsFree
  <2> QED
    BY <2>1, <2>2, <2>3
<1> QED
  BY <1>4, <1>5

-----------------------------------------------------------------------------
(* The tables.                                                             *)

LEMMA TablesStayLinked ==
    ASSUME StoreInv, NEW c \in Call, Step(c)
    PROVE  OrderIdsBelong' /\ EventsHaveOrders' /\ OrdersHaveLeads'
<1>1. /\ TypeOK /\ p' = p
      /\ OrderIdsBelong /\ EventsHaveOrders /\ OrdersHaveLeads
  BY StepKinds DEF StoreInv
<1>2. CASE UNCHANGED tables
  BY <1>1, <1>2 DEF tables, OrderIdsBelong, EventsHaveOrders, OrdersHaveLeads
<1>3. CASE Commits(c)
  <2> DEFINE o == p[c].order
             a == p[c].email
  <2>1. o \in Order /\ a \in Email
    BY <1>1 DEF TypeOK, Parameters
  <2>2. orders'[o] = Current(c) /\ leads'[a] = lead_id[c]
    BY <1>1, <1>3, <2>1, CommitWrites DEF TypeOK
  <2>3. \A q \in Order \ {o} : orders'[q] = orders[q]
    BY <1>1, <1>3, <2>1, CommitWrites DEF TypeOK
  <2>4. OrderIdsBelong'
    BY <1>1, <1>3, <2>2, <2>3, CommitWrites DEF OrderIdsBelong
  <2>5. EventsHaveOrders'
    <3> SUFFICES ASSUME NEW e \in events'
                 PROVE  orders'[p[e[1]].order].id = e[1] /\ e[1] \in statuses'
      BY <1>1 DEF EventsHaveOrders
    <3>1. CASE e \in events
      <4>1. e[1] \in Call /\ p[e[1]].order \in Order
        BY <1>1, <3>1 DEF TypeOK, Parameters
      <4>2. orders[p[e[1]].order].id = e[1] /\ e[1] \in statuses
        BY <1>1, <3>1 DEF EventsHaveOrders
      <4>3. orders[p[e[1]].order] # NoRow
        BY <4>1, <4>2, InsertLeadAssumption DEF NoRow
      <4> QED
        BY <4>1, <4>2, <4>3, TablesGrow
    <3>2. CASE e \notin events
      <4>1. /\ is_new[c] /\ e = EventRow(c) /\ Current(c).id = order_id[c]
            /\ statuses' = statuses \cup {order_id[c]}
        BY <1>3, <3>2, CommitWrites
      <4>2. e[1] = order_id[c] /\ p[e[1]].order = o
        BY <1>3, <4>1, CommitWrites DEF EventRow
      <4> QED
        BY <2>2, <4>1, <4>2
    <3> QED
      BY <3>1, <3>2
  <2>6. OrdersHaveLeads'
    <3> SUFFICES ASSUME NEW q \in Order, orders'[q] # NoRow
                 PROVE  \E b \in Email : leads'[b] = orders'[q].lead
      BY DEF OrdersHaveLeads
    <3>1. CASE orders[q] # NoRow
      <4>1. PICK b \in Email : leads[b] = orders[q].lead
        BY <1>1, <3>1 DEF OrdersHaveLeads
      <4>2. orders[q].lead # Nobody
        BY <1>1, <3>1, InsertLeadAssumption DEF TypeOK, Row
      <4>3. leads'[b] = leads[b] /\ orders'[q].lead = orders[q].lead
        BY <3>1, <4>1, <4>2, TablesGrow
      <4> QED
        BY <4>1, <4>3
    <3>2. CASE orders[q] = NoRow
      <4>1. q = o
        BY <2>3, <3>2
      <4>2. orders'[q].lead = lead_id[c]
        BY <1>3, <2>2, <3>2, <4>1, CommitWrites
      <4> QED
        BY <2>1, <2>2, <4>2
    <3> QED
      BY <3>1, <3>2
  <2> QED
    BY <2>4, <2>5, <2>6
<1> QED
  BY <1>1, <1>2, <1>3, StepKinds

-----------------------------------------------------------------------------
(* What a call has resolved and written.                                   *)

LEMMA ResolutionStays ==
    ASSUME StoreInv, NEW c \in Call, Step(c)
    PROVE  LeadIsResolved' /\ VersionIsCurrent' /\ ViewIsPast'
<1>1. /\ TypeOK /\ p' = p
      /\ LeadIsResolved /\ VersionIsCurrent /\ ViewIsPast
  BY StepKinds DEF StoreInv
<1>2. LeadIsResolved'
  <2> SUFFICES ASSUME NEW d \in Call, HasView(d)'
               PROVE  lead_id'[d] = IF leads'[p[d].email] = Nobody THEN d
                                    ELSE leads'[p[d].email]
    BY <1>1 DEF LeadIsResolved
  <2>1. CASE d # c
    <3>1. HasView(d) /\ LocksLead(d) /\ lead_id'[d] = lead_id[d]
      BY <2>1, StepKinds, <1>1 DEF HasView, LocksLead
    <3> QED
      BY <1>1, <2>1, <3>1, LockedRowsStay DEF LeadIsResolved
  <2>2. CASE d = c /\ HasView(c)
    <3>1. UNCHANGED tables /\ lead_id' = lead_id
      BY <1>1, <2>2 DEF Step, Run, Break, UpsertLead, SelectLead, UpsertOrder,
         SelectOrder, CountEvents, InsertEvent, InsertStatuses, Commit, Return,
         GoTo, TypeOK, HasView, Statement, locals
    <3> QED
      BY <1>1, <2>2, <3>1 DEF LeadIsResolved, tables
  <2>3. CASE d = c /\ ~HasView(c)
    <3>1. SelectLead(c)
      BY <1>1, <2>3 DEF Step, Run, Break, UpsertLead, SelectLead, UpsertOrder,
         SelectOrder, CountEvents, InsertEvent, InsertStatuses, Commit, Return,
         GoTo, TypeOK, HasView, Statement
    <3> QED
      BY <1>1, <2>3, <3>1 DEF SelectLead, tables, TypeOK
  <2> QED
    BY <2>1, <2>2, <2>3
<1>3. VersionIsCurrent'
  <2> SUFFICES ASSUME NEW d \in Call, LocksOrder(d)'
               PROVE  version'[d] = Upserted(d, orders[p[d].order])'
    BY <1>1 DEF VersionIsCurrent
  <2>1. CASE d # c
    <3>1. /\ LocksOrder(d) /\ version'[d] = version[d]
          /\ lead_id'[d] = lead_id[d]
      BY <2>1, StepKinds, <1>1 DEF LocksOrder
    <3>2. orders'[p[d].order] = orders[p[d].order]
      BY <2>1, <3>1, LockedRowsStay
    <3>3. version[d] = Upserted(d, orders[p[d].order])
      BY <1>1, <3>1 DEF VersionIsCurrent
    <3> QED
      BY <1>1, <3>1, <3>2, <3>3 DEF Upserted
  <2>2. CASE d = c /\ LocksOrder(c)
    <3>1. UNCHANGED tables /\ lead_id' = lead_id /\ version' = version
      BY <1>1, <2>2 DEF Step, Run, Break, UpsertLead, SelectLead, UpsertOrder,
         SelectOrder, CountEvents, InsertEvent, InsertStatuses, Commit, Return,
         GoTo, TypeOK, LocksOrder, Statement, locals
    <3> QED
      BY <1>1, <2>2, <3>1 DEF VersionIsCurrent, tables, Upserted
  <2>3. CASE d = c /\ ~LocksOrder(c)
    <3>1. UpsertOrder(c)
      BY <1>1, <2>3 DEF Step, Run, Break, UpsertLead, SelectLead, UpsertOrder,
         SelectOrder, CountEvents, InsertEvent, InsertStatuses, Commit, Return,
         GoTo, TypeOK, LocksOrder, Statement
    <3> QED
      BY <1>1, <2>3, <3>1 DEF UpsertOrder, tables, TypeOK, Upserted
  <2> QED
    BY <2>1, <2>2, <2>3
<1>4. ViewIsPast'
  <2> SUFFICES ASSUME NEW d \in Call
               PROVE  /\ view'[d].events \subseteq events'
                      /\ \A o \in Order : view'[d].orders[o] # NoRow =>
                            view'[d].orders[o].id = orders'[o].id
    BY DEF ViewIsPast
  <2>1. CASE view'[d] = view[d]
    <3>1. /\ view[d].events \subseteq events
          /\ view[d] \in [orders : [Order -> Row \cup {NoRow}],
                          events : SUBSET (Call \X Event)]
      BY <1>1 DEF ViewIsPast, TypeOK
    <3>2. ASSUME NEW o \in Order, view[d].orders[o] # NoRow
          PROVE  view[d].orders[o].id = orders'[o].id
      <4>1. view[d].orders[o].id = orders[o].id /\ view[d].orders[o].id \in Call
        BY <1>1, <3>1, <3>2, NoRowIsNoRow DEF ViewIsPast
      <4>2. orders[o] # NoRow
        BY <4>1, InsertLeadAssumption DEF NoRow
      <4> QED
        BY <4>1, <4>2, TablesGrow
    <3> QED
      BY <2>1, <3>1, <3>2, TablesGrow
  <2>2. CASE view'[d] # view[d]
    <3>1. d = c /\ SelectLead(c)
      BY <2>2, StepKinds, <1>1 DEF Step, Run, Break, UpsertLead, SelectLead,
         UpsertOrder, SelectOrder, CountEvents, InsertEvent, InsertStatuses,
         Commit, Return, locals
    <3> QED
      BY <1>1, <3>1 DEF SelectLead, tables, TypeOK
  <2> QED
    BY <2>1, <2>2
<1> QED
  BY <1>2, <1>3, <1>4

LEMMA OrderStaysResolved ==
    ASSUME StoreInv, NEW c \in Call, Step(c)
    PROVE  OrderIsResolved'
<1>1. TypeOK /\ p' = p /\ OrderIsResolved
  BY StepKinds DEF StoreInv
<1> SUFFICES ASSUME NEW d \in Call
             PROVE  /\ pc'[d] \in Statement /\ ~HasOrder(d)' => order_id'[d] = d
                    /\ HasOrder(d)' => \/ OrderExists(d)'
                                       \/ /\ order_id'[d] = d
                                          /\ orders'[p[d].order] # NoRow
                                          /\ view'[d].orders[p[d].order] = NoRow
  BY <1>1 DEF OrderIsResolved
<1>2. CASE d # c
  <2>1. /\ pc'[d] = pc[d] /\ order_id'[d] = order_id[d]
        /\ version'[d] = version[d] /\ view'[d] = view[d]
    BY <1>1, <1>2, StepKinds
  <2>2. HasOrder(d) => orders'[p[d].order] = orders[p[d].order]
    BY <1>2, LockedRowsStay DEF HasOrder, LocksOrder
  <2> QED
    BY <1>1, <2>1, <2>2 DEF OrderIsResolved, HasOrder, OrderExists, Current
<1>3. CASE d = c /\ HasOrder(c)
  <2>1. /\ pc'[c] \in Statement => UNCHANGED tables
        /\ UNCHANGED <<order_id, version, view>>
        /\ pc'[c] \in Statement <=> HasOrder(c)'
    BY <1>1, <1>3 DEF Step, Run, Break, UpsertLead, SelectLead, UpsertOrder,
       SelectOrder, CountEvents, InsertEvent, InsertStatuses, Commit, Return,
       GoTo, TypeOK, HasOrder, Statement, locals
  <2> QED
    BY <1>1, <1>3, <2>1 DEF OrderIsResolved, OrderExists, Current, tables
<1>4. CASE d = c /\ ~HasOrder(c) /\ SelectOrder(c)
  <2> DEFINE row == orders[p[c].order]
             seen == view[c].orders[p[c].order]
  <2>1. /\ pc[c] = "order_id" /\ pc'[c] = "count" /\ order_id[c] = c
        /\ order_id'[c] = IF Visible(c) = NoRow THEN c ELSE Visible(c).id
        /\ UNCHANGED <<orders, version, view>>
    BY <1>1, <1>4 DEF SelectOrder, GoTo, TypeOK, OrderIsResolved, HasOrder,
       Statement, tables
  <2>2. /\ p[c].order \in Order /\ row \in Row \cup {NoRow}
        /\ seen \in Row \cup {NoRow} /\ version[c] \in Row \cup {NoRow}
    BY <1>1 DEF TypeOK, Parameters
  <2>3. CASE version[c] # NoRow
    BY <1>1, <1>4, <2>1, <2>3 DEF Visible, HasOrder, OrderExists, Current
  <2>4. CASE version[c] = NoRow /\ seen # NoRow
    <3>1. seen.id = row.id
      BY <2>2, <2>4 DEF StoreInv, ViewIsPast
    <3> QED
      BY <1>1, <1>4, <2>1, <2>4, <3>1 DEF Visible, HasOrder, OrderExists, Current
  <2>5. CASE version[c] = NoRow /\ seen = NoRow
    <3>1. version[c] = Upserted(c, row)
      BY <2>1 DEF StoreInv, VersionIsCurrent, LocksOrder
    <3>2. row # NoRow
      BY <1>1, <2>2, <2>5, <3>1, UpsertedType
    <3> QED
      BY <1>1, <1>4, <2>1, <2>5, <3>2 DEF Visible, HasOrder
  <2> QED
    BY <2>3, <2>4, <2>5
<1>5. CASE d = c /\ ~HasOrder(c) /\ ~SelectOrder(c)
  <2>1. /\ ~HasOrder(c)' /\ order_id' = order_id
        /\ pc'[c] \in Statement => pc[c] \in Statement
    BY <1>1, <1>5 DEF Step, Run, Break, UpsertLead, SelectLead, UpsertOrder,
       CountEvents, InsertEvent, InsertStatuses, Commit, Return,
       GoTo, TypeOK, HasOrder, Statement, locals
  <2> QED
    BY <1>1, <1>5, <2>1 DEF OrderIsResolved
<1> QED
  BY <1>2, <1>3, <1>4, <1>5

-----------------------------------------------------------------------------
(* What a call decides.                                                    *)

LEMMA DecisionStays ==
    ASSUME StoreInv, NEW c \in Call, Step(c)
    PROVE  NewIsDecidedLate' /\ KnownIsStored' /\ CountedIsAbsent'
<1>1. /\ TypeOK /\ p' = p
      /\ NewIsDecidedLate /\ KnownIsStored /\ CountedIsAbsent
  BY StepKinds DEF StoreInv
<1>2. NewIsDecidedLate'
  <2> SUFFICES ASSUME NEW d \in Call, is_new'[d]
               PROVE  pc'[d] \in {"commit", "result", "new", "lost"}
    BY DEF NewIsDecidedLate
  <2>1. CASE d # c
    BY <1>1, <2>1, StepKinds DEF NewIsDecidedLate
  <2>2. CASE d = c
    BY <1>1, <2>2 DEF NewIsDecidedLate, Step, Run, Break, UpsertLead,
       SelectLead, UpsertOrder, SelectOrder, CountEvents, InsertEvent,
       InsertStatuses, Commit, Return, GoTo, TypeOK, Statement, locals
  <2> QED
    BY <2>1, <2>2
<1>3. KnownIsStored'
  <2> SUFFICES ASSUME NEW d \in Call, pc'[d] = "commit", ~is_new'[d]
               PROVE  <<order_id'[d], p[d].event>> \in events'
    BY <1>1 DEF KnownIsStored, EventRow
  <2>1. CASE d # c
    BY <1>1, <2>1, StepKinds, TablesGrow DEF KnownIsStored, EventRow
  <2>2. CASE d = c
    <3>1. CountEvents(c)
      BY <1>1, <2>2 DEF Step, Run, Break, UpsertLead,
         SelectLead, UpsertOrder, SelectOrder, CountEvents, InsertEvent,
         InsertStatuses, Commit, Return, GoTo, TypeOK, Statement, locals
    <3>2. EventRow(c) \in view[c].events /\ UNCHANGED <<order_id, events>>
      BY <1>1, <2>2, <3>1 DEF CountEvents, GoTo, TypeOK, locals, tables
    <3> QED
      BY <2>2, <3>2 DEF EventRow, StoreInv, ViewIsPast
  <2> QED
    BY <2>1, <2>2
<1>4. CountedIsAbsent'
  <2> SUFFICES ASSUME NEW d \in Call, pc'[d] = "event"
               PROVE  <<order_id'[d], p[d].event>> \notin view'[d].events
    BY <1>1 DEF CountedIsAbsent, EventRow
  <2>1. CASE d # c
    BY <1>1, <2>1, StepKinds DEF CountedIsAbsent, EventRow
  <2>2. CASE d = c
    <3>1. CountEvents(c)
      BY <1>1, <2>2 DEF Step, Run, Break, UpsertLead,
         SelectLead, UpsertOrder, SelectOrder, CountEvents, InsertEvent,
         InsertStatuses, Commit, Return, GoTo, TypeOK, Statement, locals
    <3> QED
      BY <1>1, <2>2, <3>1 DEF CountEvents, GoTo, TypeOK, locals, EventRow
  <2> QED
    BY <2>1, <2>2
<1> QED
  BY <1>2, <1>3, <1>4

(* Under the order's lock nobody else stores the event.                    *)
LEMMA NewStaysChecked ==
    ASSUME StoreInv, NEW c \in Call, Step(c)
    PROVE  NewIsChecked'
<1>1. TypeOK /\ p' = p /\ NewIsChecked
  BY StepKinds DEF StoreInv
<1> SUFFICES ASSUME NEW d \in Call,
                    pc'[d] = "status" \/ (pc'[d] = "commit" /\ is_new'[d])
             PROVE  OrderExists(d)' /\ EventRow(d)' \notin events'
  BY <1>1 DEF NewIsChecked
<1>2. CASE d # c
  <2>1. /\ pc'[d] = pc[d] /\ order_id'[d] = order_id[d]
        /\ version'[d] = version[d] /\ is_new'[d] = is_new[d]
        /\ orders'[p[d].order] = orders[p[d].order]
    BY <1>1, <1>2, StepKinds, LockedRowsStay DEF LocksOrder
  <2>2. OrderExists(d) /\ EventRow(d) \notin events
    BY <1>1, <2>1 DEF NewIsChecked
  <2>3. OrderExists(d)' /\ EventRow(d)' = EventRow(d)
    BY <1>1, <2>1, <2>2 DEF OrderExists, Current, EventRow
  <2>4. EventRow(d) \notin events'
    <3>1. CASE UNCHANGED tables
      BY <2>2, <3>1 DEF tables
    <3>2. CASE Commits(c)
      <4>1. p[c].order # p[d].order
        BY <1>2, <2>1, <3>2
        DEF Commits, LocksOrder, StoreInv, OrderLockIsExclusive
      <4>2. p[order_id[d]].order = p[d].order
        <5>1. version[d] = Upserted(d, orders[p[d].order])
          BY <2>1 DEF StoreInv, VersionIsCurrent, LocksOrder
        <5>2. orders[p[d].order] \in Row \cup {NoRow} /\ p[d].order \in Order
          BY <1>1 DEF TypeOK, Parameters
        <5>3. CASE orders[p[d].order] = NoRow
          BY <1>1, <2>2, <5>1, <5>2, <5>3, UpsertedType DEF OrderExists, Current
        <5>4. CASE orders[p[d].order] # NoRow
          <6>1. order_id[d] = orders[p[d].order].id
            BY <1>1, <2>2, <5>1, <5>2, <5>4, UpsertedType DEF OrderExists, Current
          <6> QED
            BY <5>2, <5>4, <6>1 DEF StoreInv, OrderIdsBelong
        <5> QED
          BY <5>3, <5>4
      <4>3. is_new[c] => p[order_id[c]].order = p[c].order
        BY <3>2, CommitWrites
      <4>4. is_new[c] => order_id[c] # order_id[d]
        BY <4>1, <4>2, <4>3
      <4>5. CASE is_new[c]
        <5>1. EventRow(c) # EventRow(d)
          BY <4>4, <4>5 DEF EventRow
        <5> QED
          BY <2>2, <3>2, <4>5, <5>1, CommitWrites
      <4>6. CASE ~is_new[c]
        BY <2>2, <3>2, <4>6, CommitWrites
      <4> QED
        BY <4>5, <4>6
    <3> QED
      BY <1>1, <3>1, <3>2, StepKinds
  <2> QED
    BY <2>3, <2>4
<1>3. CASE d = c /\ pc'[c] = "status"
  <2>1. InsertEvent(c)
    BY <1>1, <1>3 DEF Step, Run, Break, UpsertLead,
       SelectLead, UpsertOrder, SelectOrder, CountEvents, InsertEvent,
       InsertStatuses, Commit, Return, GoTo, TypeOK, Statement, locals
  <2>2. OrderExists(c) /\ EventRow(c) \notin events /\ UNCHANGED <<tables, locals>>
    BY <1>1, <1>3, <2>1 DEF InsertEvent, GoTo, TypeOK
  <2> QED
    BY <1>1, <1>3, <2>2 DEF OrderExists, Current, EventRow, tables, locals
<1>4. CASE d = c /\ pc'[c] = "commit" /\ is_new'[c]
  <2>1. pc[c] = "status" /\ UNCHANGED <<tables, version, order_id>>
    BY <1>1, <1>4 DEF Step, Run, Break, UpsertLead,
       SelectLead, UpsertOrder, SelectOrder, CountEvents, InsertEvent,
       InsertStatuses, Commit, Return, GoTo, TypeOK, Statement, locals,
       StoreInv, NewIsDecidedLate
  <2>2. OrderExists(c) /\ EventRow(c) \notin events
    BY <1>1, <2>1 DEF NewIsChecked
  <2> QED
    BY <1>1, <1>4, <2>1, <2>2 DEF OrderExists, Current, EventRow, tables
<1> QED
  BY <1>2, <1>3, <1>4

-----------------------------------------------------------------------------
(* Rivals.                                                                 *)

Ended == {"result", "new", "known", "lost"}

LEMMA RivalsStay ==
    ASSUME StoreInv, NEW c \in Call, Step(c), NEW d \in Call, Rival(d)
    PROVE  Rival(d)'
<1>1. TypeOK /\ p' = p
  BY StepKinds DEF StoreInv
<1>2. PICK e \in Call : /\ pc[e] \in Ended
                        /\ p[e].order = p[d].order /\ p[e].email # p[d].email
  BY DEF Rival, Ended
<1>3. pc'[e] \in Ended
  <2>1. CASE e # c
    BY <1>1, <1>2, <2>1, StepKinds
  <2>2. CASE e = c
    BY <1>1, <1>2, <2>2 DEF Step, Run, Break, UpsertLead, SelectLead,
       UpsertOrder, SelectOrder, CountEvents, InsertEvent, InsertStatuses,
       Commit, Return, GoTo, TypeOK, Statement, Ended
  <2> QED
    BY <2>1, <2>2
<1> QED
  BY <1>1, <1>2, <1>3 DEF Rival, Ended

LEMMA LaterStaysRival ==
    ASSUME StoreInv, NEW c \in Call, Step(c)
    PROVE  LaterIsRival'
<1>1. TypeOK /\ p' = p /\ LaterIsRival
  BY StepKinds DEF StoreInv
<1> SUFFICES ASSUME NEW d \in Call, HasView(d)',
                    \/ /\ orders'[p[d].order] # NoRow
                       /\ view'[d].orders[p[d].order] = NoRow
                    \/ \E e \in events' : /\ p[e[1]].order = p[d].order
                                          /\ e \notin view'[d].events
             PROVE  Rival(d)'
  BY <1>1 DEF LaterIsRival
<1>2. CASE ~HasView(d) \/ view'[d] # view[d]
  <2>1. d = c /\ SelectLead(c)
    BY <1>1, <1>2, StepKinds DEF Step, Run, Break, UpsertLead, SelectLead,
       UpsertOrder, SelectOrder, CountEvents, InsertEvent, InsertStatuses,
       Commit, Return, GoTo, TypeOK, HasView, Statement, locals
  <2>2. view'[d] = [orders |-> orders', events |-> events']
    BY <1>1, <2>1 DEF SelectLead, TypeOK, tables
  <2> QED
    BY <2>2
<1>3. CASE HasView(d) /\ view'[d] = view[d] /\ UNCHANGED tables
  BY <1>1, <1>3, RivalsStay DEF LaterIsRival, tables
<1>4. CASE HasView(d) /\ view'[d] = view[d] /\ Commits(c)
  <2>1. CASE d = c
    BY <1>1, <1>4, <2>1 DEF Commits, HasView, Statement, TypeOK
  <2>2. CASE d # c /\ p[c].order # p[d].order
    <3>1. orders'[p[d].order] = orders[p[d].order]
      BY <1>1, <1>4, <2>2, CommitWrites DEF TypeOK, Parameters
    <3>2. ASSUME NEW e \in events', p[e[1]].order = p[d].order PROVE e \in events
      <4>1. CASE is_new[c] /\ e = EventRow(c)
        <5>1. p[e[1]].order = p[c].order
          BY <1>4, <4>1, CommitWrites DEF EventRow
        <5> QED
          BY <2>2, <3>2, <5>1
      <4>2. CASE ~(is_new[c] /\ e = EventRow(c))
        BY <1>4, <4>2, CommitWrites
      <4> QED
        BY <4>1, <4>2
    <3> QED
      BY <1>1, <1>4, <3>1, <3>2, RivalsStay DEF LaterIsRival
  <2>3. CASE d # c /\ p[c].order = p[d].order
    <3>1. LocksLead(c) /\ LocksLead(d)
      BY <1>4 DEF Commits, HasView, LocksLead, Statement
    <3>2. p[c].email # p[d].email
      BY <2>3, <3>1 DEF StoreInv, LeadLockIsExclusive
    <3>3. pc'[c] \in Ended
      BY <1>1, <1>4 DEF Commits, Ended, TypeOK
    <3> QED
      BY <1>1, <2>3, <3>2, <3>3 DEF Rival, Ended
  <2> QED
    BY <2>1, <2>2, <2>3
<1> QED
  BY <1>1, <1>2, <1>3, <1>4, StepKinds

LEMMA RefusedStaysRaced ==
    ASSUME StoreInv, NEW c \in Call, Step(c)
    PROVE  RefusedRacedAnotherEmail'
<1>1. TypeOK /\ p' = p /\ RefusedRacedAnotherEmail
  BY StepKinds DEF StoreInv
<1> SUFFICES ASSUME NEW d \in Call, pc'[d] = "refused"
             PROVE  Rival(d)'
  BY DEF RefusedRacedAnotherEmail
<1>2. CASE pc[d] = "refused"
  BY <1>1, <1>2, RivalsStay DEF RefusedRacedAnotherEmail
<1>3. CASE pc[d] # "refused"
  <2>1. d = c
    BY <1>1, <1>3, StepKinds
  <2>2. InsertEvent(c)
    BY <1>1, <1>3, <2>1 DEF Step, Run, Break, UpsertLead, SelectLead,
       UpsertOrder, SelectOrder, CountEvents, InsertEvent, InsertStatuses,
       Commit, Return, GoTo, TypeOK, Statement
  <2>3. pc[c] = "event" /\ (EventRow(c) \in events \/ ~OrderExists(c))
    BY <1>1, <1>3, <2>1, <2>2 DEF InsertEvent, GoTo, TypeOK
  <2>4. HasView(c) /\ HasOrder(c) /\ EventRow(c) \notin view[c].events
    BY <2>3 DEF HasView, HasOrder, Statement, StoreInv, CountedIsAbsent
  <2>5. CASE ~OrderExists(c)
    <3>1. orders[p[c].order] # NoRow /\ view[c].orders[p[c].order] = NoRow
      BY <2>4, <2>5 DEF StoreInv, OrderIsResolved
    <3> QED
      BY <2>1, <2>4, <3>1, RivalsStay DEF StoreInv, LaterIsRival
  <2>6. CASE OrderExists(c) /\ EventRow(c) \in events
    <3>1. orders[p[c].order] \in Row \cup {NoRow} /\ p[c].order \in Order
      BY <1>1 DEF TypeOK, Parameters
    <3>2. version[c] = Upserted(c, orders[p[c].order])
      BY <2>3 DEF StoreInv, VersionIsCurrent, LocksOrder
    <3>3. p[order_id[c]].order = p[c].order
      <4>1. CASE orders[p[c].order] = NoRow
        BY <1>1, <2>6, <3>1, <3>2, <4>1, UpsertedType DEF OrderExists, Current
      <4>2. CASE orders[p[c].order] # NoRow
        <5>1. order_id[c] = orders[p[c].order].id
          BY <1>1, <2>6, <3>1, <3>2, <4>2, UpsertedType DEF OrderExists, Current
        <5> QED
          BY <3>1, <4>2, <5>1 DEF StoreInv, OrderIdsBelong
      <4> QED
        BY <4>1, <4>2
    <3>4. EventRow(c)[1] = order_id[c]
      BY DEF EventRow
    <3> QED
      BY <2>1, <2>4, <2>6, <3>3, <3>4, RivalsStay DEF StoreInv, LaterIsRival
  <2> QED
    BY <2>3, <2>5, <2>6
<1> QED
  BY <1>2, <1>3

-----------------------------------------------------------------------------

LEMMA NextInv == StoreInv /\ [Next]_vars => StoreInv'
<1> SUFFICES ASSUME StoreInv, [Next]_vars PROVE StoreInv'
  OBVIOUS
<1>1. CASE UNCHANGED vars
  BY <1>1 DEF StoreInv, vars, tables, locals, TypeOK, OrderLockIsExclusive,
     LeadLockIsExclusive, LeadIsResolved, VersionIsCurrent, ViewIsPast,
     OrderIsResolved, NewIsDecidedLate, NewIsChecked, KnownIsStored,
     CountedIsAbsent, OrderIdsBelong, EventsHaveOrders, OrdersHaveLeads,
     LaterIsRival, RefusedRacedAnotherEmail, Rival, LocksLead, LocksOrder,
     HasView, HasOrder, OrderExists, Current, EventRow, Upserted
<1>2. ASSUME NEW c \in Call, Step(c) PROVE StoreInv'
  <2>1. TypeOK'
    BY <1>2, NextTypeOK DEF StoreInv
  <2> QED
    BY <1>2, <2>1, LocksStayExclusive, TablesStayLinked, ResolutionStays,
       OrderStaysResolved, DecisionStays, NewStaysChecked, LaterStaysRival,
       RefusedStaysRaced DEF StoreInv
<1> QED
  BY <1>1, <1>2 DEF Next, Done, Step

THEOREM StoreInvHolds == Spec => []StoreInv
<1> QED
  BY InitInv, NextInv, PTL DEF Spec

(* The columns and variables of the procedure keep their types.            *)
THEOREM TypeCorrect == Spec => []TypeOK
<1>1. StoreInv => TypeOK
  BY DEF StoreInv
<1> QED
  BY <1>1, StoreInvHolds, PTL

(* No event without its order, its lead and its four status rows.          *)
THEOREM RowsBelongTogetherHolds == Spec => []RowsBelongTogether
<1>1. StoreInv => RowsBelongTogether
  <2> SUFFICES ASSUME StoreInv, NEW e \in events
               PROVE  /\ \E o \in Order :
                            /\ orders[o].id = e[1]
                            /\ \E a \in Email : leads[a] = orders[o].lead
                      /\ e[1] \in statuses
    BY DEF RowsBelongTogether
  <2> DEFINE o == p[e[1]].order
  <2>1. e[1] \in Call /\ o \in Order
    BY DEF StoreInv, TypeOK, Parameters
  <2>2. orders[o].id = e[1] /\ e[1] \in statuses
    BY DEF StoreInv, EventsHaveOrders
  <2>3. orders[o] # NoRow
    BY <2>1, <2>2, InsertLeadAssumption DEF NoRow
  <2>4. \E a \in Email : leads[a] = orders[o].lead
    BY <2>1, <2>3 DEF StoreInv, OrdersHaveLeads
  <2> QED
    BY <2>1, <2>2, <2>4
<1> QED
  BY <1>1, StoreInvHolds, PTL

(* A call is refused only when another e-mail's call took its order.       *)
THEOREM RefusedRacedAnotherEmailHolds == Spec => []RefusedRacedAnotherEmail
<1>1. StoreInv => RefusedRacedAnotherEmail
  BY DEF StoreInv
<1> QED
  BY <1>1, StoreInvHolds, PTL

-----------------------------------------------------------------------------
(* The refinement.                                                         *)

LEMMA InitImplements == Init => Abstract!Init
<1> SUFFICES ASSUME Init PROVE Abstract!Init
  OBVIOUS
<1>1. [c \in Call |-> About(c)] \in [Call -> OrderEvent]
  BY DEF Init, About, OrderEvent, Parameters
<1>2. StoredLeads = {}
  BY DEF Init, StoredLeads
<1>3. [c \in Call |-> AnswerOf(c)] = [c \in Call |-> "none"]
  BY DEF Init, AnswerOf
<1> QED
  BY <1>1, <1>2, <1>3 DEF Abstract!Init

(* A commit stores the call's lead, or finds it stored.                    *)
LEMMA CommitStores ==
    ASSUME StoreInv, NEW c \in Call, Commits(c)
    PROVE  /\ is_new[c] => /\ About(c) \notin StoredLeads
                           /\ StoredLeads' = StoredLeads \cup {About(c)}
           /\ ~is_new[c] => /\ About(c) \in StoredLeads
                            /\ StoredLeads' = StoredLeads
<1> DEFINE o == p[c].order
<1>1. /\ TypeOK /\ p' = p /\ o \in Order /\ About(c) \in OrderEvent
      /\ About(c) = <<o, p[c].event>>
  BY DEF StoreInv, TypeOK, Parameters, Commits, About, OrderEvent
<1>2. orders' = [orders EXCEPT ![o] = Current(c)]
  BY CommitWrites
<1>3. ASSUME NEW k \in OrderEvent, <<orders[k[1]].id, k[2]>> \in events
      PROVE  orders[k[1]] # NoRow /\ orders'[k[1]].id = orders[k[1]].id
  <2>1. k[1] \in Order /\ orders[k[1]].id \in Call
    BY <1>1, <1>3 DEF OrderEvent, TypeOK
  <2>2. orders[k[1]] # NoRow
    BY <2>1, InsertLeadAssumption DEF NoRow
  <2> QED
    BY <1>1, <1>2, <2>1, <2>2, CommitWrites DEF TypeOK
<1>4. ASSUME NEW k \in OrderEvent, <<orders'[k[1]].id, k[2]>> \in events
      PROVE  <<orders[k[1]].id, k[2]>> \in events
  <2>1. k[1] \in Order
    BY DEF OrderEvent
  <2>2. CASE k[1] # o
    BY <1>1, <1>2, <1>4, <2>1, <2>2 DEF TypeOK
  <2>3. CASE k[1] = o
    <3> DEFINE i == Current(c).id
    <3>1. orders'[k[1]].id = i /\ i \in Call /\ p[i].order = o
      BY <1>1, <1>2, <2>3, CommitWrites DEF TypeOK
    <3>2. <<i, k[2]>> \in events
      BY <1>4, <3>1
    <3>3. orders[o].id = i
      BY <3>1, <3>2 DEF StoreInv, EventsHaveOrders
    <3> QED
      BY <2>3, <3>2, <3>3
  <2> QED
    BY <2>2, <2>3
<1>5. CASE is_new[c]
  <2> DEFINE i == Current(c).id
  <2>1. /\ orders'[o].id = i /\ EventRow(c) = <<i, p[c].event>>
        /\ EventRow(c) \notin events /\ events' = events \cup {EventRow(c)}
        /\ p[i].order = o
    BY <1>1, <1>2, <1>5, CommitWrites DEF TypeOK, EventRow
  <2>2. About(c) \notin StoredLeads
    <3> SUFFICES ASSUME About(c) \in StoredLeads PROVE FALSE
      OBVIOUS
    <3>1. <<orders[o].id, p[c].event>> \in events
      BY <1>1 DEF StoredLeads
    <3>2. orders'[o].id = orders[o].id
      BY <1>1, <1>3, <3>1
    <3> QED
      BY <2>1, <3>1, <3>2
  <2>3. ASSUME NEW k \in OrderEvent
        PROVE  k \in StoredLeads' <=> k \in StoredLeads \/ k = About(c)
    <3>1. /\ k[1] \in Order /\ k[2] \in Event /\ k = <<k[1], k[2]>>
      BY DEF OrderEvent
    <3>2. k \in StoredLeads' <=> <<orders'[k[1]].id, k[2]>> \in events'
      BY DEF StoredLeads
    <3>3. k \in StoredLeads <=> <<orders[k[1]].id, k[2]>> \in events
      BY DEF StoredLeads
    <3>4. CASE <<orders'[k[1]].id, k[2]>> \in events
      BY <1>4, <2>1, <3>2, <3>3, <3>4
    <3>5. CASE <<orders'[k[1]].id, k[2]>> = EventRow(c)
      <4>1. orders'[k[1]].id = i /\ k[2] = p[c].event
        BY <2>1, <3>5
      <4>2. k[1] = o
        <5>1. CASE k[1] # o
          <6>1. orders[k[1]].id = i /\ i \in Call
            BY <1>1, <1>2, <3>1, <4>1, <5>1, CommitWrites DEF TypeOK
          <6>2. orders[k[1]] # NoRow
            BY <6>1, InsertLeadAssumption DEF NoRow
          <6> QED
            BY <2>1, <3>1, <6>1, <6>2 DEF StoreInv, OrderIdsBelong
        <5> QED
          BY <5>1
      <4>3. k = About(c)
        BY <1>1, <3>1, <4>1, <4>2
      <4> QED
        BY <2>1, <3>2, <3>5, <4>3
    <3>6. CASE <<orders'[k[1]].id, k[2]>> \notin events'
      <4>1. k # About(c)
        <5> SUFFICES ASSUME k = About(c) PROVE FALSE
          OBVIOUS
        <5>1. k[1] = o /\ k[2] = p[c].event
          BY <1>1
        <5>2. <<orders'[k[1]].id, k[2]>> = EventRow(c)
          BY <2>1, <5>1
        <5> QED
          BY <2>1, <3>6, <5>2
      <4>2. k \notin StoredLeads
        BY <1>3, <2>1, <3>3, <3>6
      <4> QED
        BY <3>2, <3>6, <4>1, <4>2
    <3> QED
      BY <2>1, <3>4, <3>5, <3>6
  <2>4. StoredLeads' \subseteq OrderEvent /\ StoredLeads \subseteq OrderEvent
    BY DEF StoredLeads, OrderEvent
  <2> QED
    BY <1>1, <1>5, <2>2, <2>3, <2>4
<1>6. CASE ~is_new[c]
  <2>1. events' = events /\ pc[c] = "commit"
    BY <1>6, CommitWrites DEF Commits
  <2>2. EventRow(c) \in events
    BY <1>6, <2>1 DEF StoreInv, KnownIsStored
  <2>3. orders[o].id = order_id[c]
    <3>1. order_id[c] \in Call /\ p[order_id[c]].order \in Order
      BY <1>1 DEF TypeOK, Parameters
    <3>2. orders[p[order_id[c]].order].id = order_id[c]
      BY <2>2 DEF StoreInv, EventsHaveOrders, EventRow
    <3>3. CASE order_id[c] = c
      BY <3>2, <3>3
    <3>4. CASE order_id[c] # c
      <4>1. OrderExists(c)
        BY <2>1, <3>4 DEF StoreInv, OrderIsResolved, HasOrder
      <4> QED
        BY <3>2, <4>1, CommitWrites DEF OrderExists
    <3> QED
      BY <3>3, <3>4
  <2>4. About(c) \in StoredLeads
    BY <1>1, <2>2, <2>3 DEF StoredLeads, EventRow
  <2>5. StoredLeads' = StoredLeads
    BY <1>3, <1>4, <2>1 DEF StoredLeads, OrderEvent
  <2> QED
    BY <1>6, <2>4, <2>5
<1> QED
  BY <1>5, <1>6

LEMMA StepImplements ==
    ASSUME StoreInv, [Next]_vars
    PROVE  [Abstract!Next]_(Abstract!vars)
<1> DEFINE about == [c \in Call |-> About(c)]
           answer == [c \in Call |-> AnswerOf(c)]
<1>1. CASE UNCHANGED vars
  <2>1. about' = about /\ StoredLeads' = StoredLeads /\ answer' = answer
    BY <1>1 DEF vars, tables, locals, About, StoredLeads, OrderEvent, AnswerOf
  <2> QED
    BY <2>1 DEF Abstract!vars
<1>2. ASSUME NEW c \in Call, Step(c) PROVE [Abstract!Next]_(Abstract!vars)
  <2>1. TypeOK /\ p' = p
    BY <1>2, StepKinds DEF StoreInv
  <2>2. about' = about
    BY <2>1 DEF About
  <2>3. \A d \in Call \ {c} : AnswerOf(d)' = AnswerOf(d)
    BY <1>2, <2>1, StepKinds DEF AnswerOf
  <2>4. answer' = [answer EXCEPT ![c] = AnswerOf(c)']
    BY <2>3
  <2>5. CASE Commits(c)
    <3>1. AnswerOf(c) = "none"
      BY <2>5 DEF Commits, AnswerOf
    <3>2. AnswerOf(c)' \in {IF is_new[c] THEN "stored" ELSE "found", "failed"}
      BY <2>1, <2>5 DEF Commits, AnswerOf, TypeOK, locals
    <3>3. CASE AnswerOf(c)' # "failed" /\ is_new[c]
      <4>1. Abstract!Store(c)
        BY <2>2, <2>4, <2>5, <3>1, <3>2, <3>3, CommitStores
        DEF Abstract!Store, Abstract!Decide
      <4> QED
        BY <4>1 DEF Abstract!Next
    <3>4. CASE AnswerOf(c)' # "failed" /\ ~is_new[c]
      <4>1. Abstract!Find(c)
        BY <2>2, <2>4, <2>5, <3>1, <3>2, <3>4, CommitStores
        DEF Abstract!Find, Abstract!Decide
      <4> QED
        BY <4>1 DEF Abstract!Next
    <3>5. CASE AnswerOf(c)' = "failed"
      <4>1. StoredLeads' = StoredLeads \cup {About(c)}
        BY <2>5, CommitStores
      <4>2. Abstract!StoreUntold(c)
        BY <2>2, <2>4, <3>1, <3>5, <4>1
        DEF Abstract!StoreUntold, Abstract!Decide
      <4> QED
        BY <4>2 DEF Abstract!Next
    <3> QED
      BY <3>3, <3>4, <3>5
  <2>6. CASE UNCHANGED tables
    <3>1. StoredLeads' = StoredLeads
      BY <2>6 DEF tables, StoredLeads, OrderEvent
    <3>2. CASE AnswerOf(c)' = AnswerOf(c)
      <4>1. answer' = answer
        BY <2>4, <3>2
      <4> QED
        BY <2>2, <3>1, <4>1 DEF Abstract!vars
    <3>3. CASE Return(c)
      <4>1. /\ AnswerOf(c) = IF is_new[c] THEN "stored" ELSE "found"
            /\ AnswerOf(c)' = IF is_new[c] THEN "new" ELSE "known"
        BY <2>1, <3>3 DEF Return, GoTo, AnswerOf, TypeOK, locals
      <4>2. Abstract!Tell(c)
        BY <2>2, <2>4, <3>1, <4>1 DEF Abstract!Tell
      <4> QED
        BY <4>2 DEF Abstract!Next
    <3>4. CASE AnswerOf(c)' = "failed"
      <4>1. AnswerOf(c) \in {"none", "stored", "found"} \/ AnswerOf(c) = AnswerOf(c)'
        BY <1>2, <2>1, <3>4 DEF Step, Run, Break, UpsertLead, SelectLead,
           UpsertOrder, SelectOrder, CountEvents, InsertEvent, InsertStatuses,
           Commit, Return, GoTo, TypeOK, AnswerOf, Statement
      <4>2. CASE AnswerOf(c) \in {"none", "stored", "found"}
        <5>1. Abstract!Fail(c)
          BY <2>2, <2>4, <3>1, <3>4, <4>2 DEF Abstract!Fail
        <5> QED
          BY <5>1 DEF Abstract!Next
      <4> QED
        BY <3>2, <4>1, <4>2
    <3>5. AnswerOf(c)' = AnswerOf(c) \/ Return(c) \/ AnswerOf(c)' = "failed"
          \/ Commits(c)
      BY <1>2, <2>1, StepKinds DEF Step, Run, Break, UpsertLead, SelectLead,
         UpsertOrder, SelectOrder, CountEvents, InsertEvent, InsertStatuses,
         Commit, GoTo, TypeOK, AnswerOf, Statement, Commits
    <3> QED
      BY <2>5, <3>2, <3>3, <3>4, <3>5
  <2> QED
    BY <1>2, <2>1, <2>5, <2>6, StepKinds
<1> QED
  BY <1>1, <1>2 DEF Next, Done, Step

(* Whatever its statements interleave with, a call finds or stores its     *)
(* lead in one step.                                                       *)
THEOREM Refinement == Spec => ImplementsLeadStore
<1> QED
  BY InitImplements, StepImplements, StoreInvHolds, PTL
  DEF Spec, ImplementsLeadStore, Abstract!Spec

-----------------------------------------------------------------------------
(* What the abstract specification promises the lead consumer.             *)

(* Decided leads are stored, and one call at most has stored each.         *)
DecisionsAgree ==
    /\ \A c \in Call : AnswerOf(c) \in {"stored", "found", "new", "known"} =>
         About(c) \in StoredLeads
    /\ \A c, d \in Call :
         /\ AnswerOf(c) \in {"stored", "new"} /\ AnswerOf(d) \in {"stored", "new"}
         /\ About(c) = About(d)
         => c = d

LEMMA PromiseKeepsDecisions ==
    ASSUME DecisionsAgree, [Abstract!Next]_(Abstract!vars)
    PROVE  DecisionsAgree'
<1> DEFINE about == [c \in Call |-> About(c)]
           answer == [c \in Call |-> AnswerOf(c)]
<1>1. ASSUME NEW c \in Call,
             \/ Abstract!Store(c) \/ Abstract!Find(c) \/ Abstract!Tell(c)
             \/ Abstract!Fail(c) \/ Abstract!StoreUntold(c)
      PROVE  DecisionsAgree'
  <2>1. about' = about /\ StoredLeads \subseteq StoredLeads'
    BY <1>1 DEF Abstract!Store, Abstract!Find, Abstract!Tell, Abstract!Fail,
       Abstract!StoreUntold, Abstract!Decide
  <2>2. \A d \in Call : About(d)' = About(d)
    BY <2>1
  <2>3. \A d \in Call \ {c} : AnswerOf(d)' = AnswerOf(d)
    BY <1>1 DEF Abstract!Store, Abstract!Find, Abstract!Tell, Abstract!Fail,
       Abstract!StoreUntold, Abstract!Decide
  <2> QED
    BY <1>1, <2>1, <2>2, <2>3 DEF DecisionsAgree, Abstract!Store,
       Abstract!Find, Abstract!Tell, Abstract!Fail, Abstract!StoreUntold,
       Abstract!Decide
<1>2. CASE UNCHANGED Abstract!vars
  BY <1>2 DEF Abstract!vars, DecisionsAgree
<1> QED
  BY <1>1, <1>2 DEF Abstract!Next

(* Whoever is answered finds its lead stored, and at most one call is told *)
(* that it is new: what every behaviour of the abstract specification does *)
(* and hence every behaviour of the procedure.                             *)
THEOREM ReturnsAreTrueHolds == Spec => []ReturnsAreTrue
<1>1. Init => DecisionsAgree
  BY DEF Init, DecisionsAgree, AnswerOf
<1>2. DecisionsAgree => ReturnsAreTrue
  BY DEF DecisionsAgree, ReturnsAreTrue, AnswerOf
<1> QED
  BY <1>1, <1>2, PromiseKeepsDecisions, Refinement, PTL
  DEF ImplementsLeadStore, Abstract!Spec, Spec
=============================================================================

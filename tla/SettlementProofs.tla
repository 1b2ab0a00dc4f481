-------------------------- MODULE SettlementProofs --------------------------
(***************************************************************************)
(* Webhooks, /verify and the sweep together, for any number of intents,     *)
(* payments, events and sweeps: what a flow learnt from the gateway is      *)
(* old when it is written, but it was true, and the gateway does not take   *)
(* it back.  So the flows' transactions are those of PaymentStore, the      *)
(* tables say only what the gateway has said, and an event marked PROCESSED *)
(* has left its mark for good.                                              *)
(***************************************************************************)
EXTENDS Settlement, PaymentStoreProofs

PaymentEvents == {e \in Events : e.kind = "payment"}

\* Types of what the flows keep for themselves.
FlowTypes ==
  /\ InboxTypeOK
  /\ gw \in [Payments -> GatewayStatuses \cup {NoState}]
  /\ fetched \in [Payments -> GatewayStatuses \cup {NoState}]
  /\ aged \in [Intents -> SUBSET Stuckable]
  /\ older \in [Intents -> SUBSET Intents]
  /\ todo \in [Sweepers -> SUBSET Candidates]
  /\ found \in [Sweepers -> Repairs \cup {Nothing}]

\* The decision of a sweep was right when it was made: its payment was captured,
\* or has failed for good.
RepairKnown(r) ==
  /\ r.outcome = "SUCCESS" => r.pay \in PaymentsOf(r.intent) /\ Reached(r.pay, "CAPTURED")
  /\ r.outcome = "FAILED" => r.pay \in PaymentsOf(r.intent) /\ Reached(r.pay, "FAILED")

\* What the flows hold of the gateway's facts.
Known ==
  /\ \A e \in PaymentEvents : handler[e] # "idle" => Reached(e.pay, e.gst)
  /\ \A p \in Payments : \A st \in GatewayStatuses :
       fetched[p] = st => st # "CREATED" /\ Reached(p, st)
  /\ \A s \in Sweepers : \A r \in Repairs :
       found[s] = r /\ r # Nothing => RepairKnown(r)

\* A payment exists on a stored order, and an order on a stored intent.
Placed ==
  /\ \A p \in Payments : gw[p] # NoState => OrderOf[p] \in orders
  /\ \A i \in orders : status[i] # NoState

\* Processing e again would change neither status nor transactions.
Absorbed(e) ==
  LET i == OrderOf[e.pay] IN
  /\ status[i] # NoState
  /\ \/ Ignored(status[i], e.gst)
     \/ IsMismatch(e.pay, e.gst) /\ Recorded(e.pay)

Processing ==
  \A e \in PaymentEvents :
    handler[e] = "marking" \/ inbox[e] = "PROCESSED" => Absorbed(e)

\* StatusIsAuthoritative of one intent.
Authoritative(i) ==
  /\ status[i] = "PROCESSING" => \E p \in PaymentsOf(i) : Reached(p, "AUTHORIZED")
  /\ status[i] = "FAILED" /\ i \in orders => \E p \in PaymentsOf(i) : Reached(p, "FAILED")
  /\ \A p \in txns[i] : Reached(p, "CAPTURED")

SettlementInv ==
  /\ StoreInv
  /\ FlowTypes
  /\ Known
  /\ Placed
  /\ Processing
  /\ \A i \in Intents : Authoritative(i)

-----------------------------------------------------------------------------
(* The gateway *)

\* What the gateway has said of a payment stays said.
LEMMA ReachedStays ==
  ASSUME FlowTypes, NEW q \in Payments, GatewayMoves(q),
         NEW p \in Payments, NEW st \in GatewayStatuses \ {"CREATED"}, Reached(p, st)
  PROVE  Reached(p, st)'
BY DEF FlowTypes, GatewayMoves, Reached, GatewayStatuses, NoState

\* The gateway's own steps take nothing back.
LEMMA GatewayInv ==
  ASSUME SettlementInv, NEW q \in Payments, GatewayMoves(q)
  PROVE  SettlementInv'
<1>1. UNCHANGED <<storeVars, inboxVars, fetched, ageVars, sweepVars>>
  BY DEF GatewayMoves
<1>2. StoreInv'
  BY <1>1, StoreStepInv DEF SettlementInv
<1>3. FlowTypes'
  BY <1>1 DEF SettlementInv, FlowTypes, GatewayMoves, GatewayStatuses, NoState,
              InboxTypeOK, inboxVars, ageVars, sweepVars
<1>4. \A p \in Payments, st \in GatewayStatuses \ {"CREATED"} :
        Reached(p, st) => Reached(p, st)'
  BY ReachedStays DEF SettlementInv
<1>5. Known'
  <2>1. ASSUME NEW r \in Repairs, RepairKnown(r)
        PROVE  RepairKnown(r)'
    BY <1>4, <2>1 DEF RepairKnown, PaymentsOf, GatewayStatuses
  <2>2. \A e \in PaymentEvents : e.pay \in Payments /\ e.gst \in GatewayStatuses \ {"CREATED"}
    BY SettlementAssumption DEF PaymentEvents, GatewayStatuses
  <2> QED
    BY <1>1, <1>4, <2>1, <2>2 DEF SettlementInv, Known, inboxVars, sweepVars
<1>6. Placed'
  <2>1. OrderOf[q] \in orders
    BY DEF SettlementInv, Placed, GatewayMoves, NoState
  <2>2. \A p \in Payments \ {q} : gw'[p] = gw[p]
    BY DEF SettlementInv, FlowTypes, GatewayMoves
  <2>3. UNCHANGED <<status, orders>> /\ Placed
    BY <1>1 DEF storeVars, SettlementInv
  <2> QED
    BY <2>1, <2>2, <2>3 DEF Placed
<1>7. Processing'
  <2>1. \A e \in PaymentEvents : Absorbed(e)' <=> Absorbed(e)
    BY <1>1 DEF Absorbed, Recorded, storeVars
  <2>2. inbox' = inbox /\ handler' = handler
    BY <1>1 DEF inboxVars
  <2> QED
    BY <2>1, <2>2 DEF SettlementInv, Processing
<1>8. \A i \in Intents : Authoritative(i)'
  <2>1. \A i \in Intents : \A p \in PaymentsOf(i) \cup txns[i] : p \in Payments
    BY DEF SettlementInv, StoreInv, StoreTypeOK, PaymentsOf
  <2> QED
    BY <1>1, <1>4, <2>1 DEF SettlementInv, Authoritative, PaymentsOf, GatewayStatuses,
                            storeVars
<1> QED
  BY <1>2, <1>3, <1>5, <1>6, <1>7, <1>8 DEF SettlementInv

-----------------------------------------------------------------------------
(* The tables *)

\* How one transaction can change the status of a stored intent.
LEMMA StatusMoves ==
  ASSUME StoreInv, [StoreNext]_storeVars, NEW k \in Intents, status[k] # NoState
  PROVE  \/ status'[k] = status[k]
         \/ status[k] = "PENDING" /\ status'[k] \in {"PROCESSING", "FAILED", "EXPIRED", "COMPLETED"}
         \/ status[k] = "PROCESSING" /\ status'[k] \in {"FAILED", "EXPIRED", "COMPLETED"}
         \/ status[k] = "FAILED" /\ status'[k] = "COMPLETED"
<1> USE DEF IsTerminal, TerminalStates, CanTransition, NoState, SetStatus,
            StoreInv, StoreTypeOK
<1>1. CASE UNCHANGED storeVars
  BY <1>1 DEF storeVars
<1>2. CASE StoreNext
  <2>1. PICK i \in Intents :
           \/ InsertIntent(i)
           \/ status[i] = "PENDING" /\ InsertOrder(i)
           \/ FailIntent(i)
           \/ \E p \in PaymentsOf(i), gs \in GatewayStatuses :
                i \in orders /\ WriteMismatch(i, p, gs, status[i], NextAttemptNumber(i))
           \/ \E p \in PaymentsOf(i), gs \in GatewayStatuses :
                i \in orders /\ WriteProgress(i, p, gs, status[i], NextAttemptNumber(i))
           \/ \E p \in PaymentsOf(i), gs \in GatewayStatuses :
                i \in orders /\ WriteSettlement(i, p, gs, status[i], NextAttemptNumber(i))
           \/ \E p \in Payments \cup {NoPay} :
                i \in orders /\ WriteReport(i, p, NextAttemptNumber(i))
           \/ i \in orders /\ WriteExpiry(i, status[i])
    BY <1>2, StoreNextCases, Zenon
  <2>2. CASE k # i
    BY <2>1, <2>2 DEF InsertIntent, InsertOrder, FailIntent, WriteCreateFailed,
       WriteMismatch, WriteProgress, WriteSettlement, WriteReport, WriteExpiry
  <2>3. CASE k = i
    BY <2>1, <2>3 DEF InsertIntent, InsertOrder, FailIntent, WriteCreateFailed,
       WriteMismatch, WriteProgress, WriteSettlement, WriteReport, WriteExpiry,
       Ignored, Expirable, TargetState, AssertValidTransition
  <2> QED
    BY <2>2, <2>3
<1> QED
  BY <1>1, <1>2

\* An event that is absorbed stays absorbed, and rows once written stay.
LEMMA StoreMoves ==
  ASSUME SettlementInv, [StoreNext]_storeVars
  PROVE  /\ StoreInv'
         /\ orders \subseteq orders'
         /\ \A i \in orders' : status'[i] # NoState
         /\ \A e \in PaymentEvents : Absorbed(e) => Absorbed(e)'
<1>1. StoreInv /\ StoreInv'
  BY StoreStepInv DEF SettlementInv
<1>2. \A i \in Intents : status[i] # NoState => status'[i] # NoState
  BY <1>1, StatusMoves DEF NoState
<1>3. /\ orders \subseteq orders'
      /\ \A i \in orders' : i \in orders \/ status[i] # NoState
  <2>1. CASE UNCHANGED storeVars
    BY <2>1 DEF storeVars
  <2>2. CASE StoreNext
    BY <2>2, StoreNextCases DEF InsertIntent, InsertOrder, FailIntent, WriteCreateFailed,
       WriteMismatch, WriteProgress, WriteSettlement, WriteReport, WriteExpiry, NoState
  <2> QED
    BY <2>1, <2>2
<1>4. \A i \in orders' : status'[i] # NoState
  BY <1>1, <1>2, <1>3 DEF SettlementInv, Placed, StoreInv, StoreTypeOK
<1>5. ASSUME NEW e \in PaymentEvents, Absorbed(e)
      PROVE  Absorbed(e)'
  <2> DEFINE i == OrderOf[e.pay]
  <2>1. i \in Intents /\ e.pay \in Payments /\ e.gst \in {"AUTHORIZED", "CAPTURED", "FAILED"}
    BY SettlementAssumption, StoreAssumption DEF PaymentEvents
  <2>2. status[i] # NoState /\ status'[i] # NoState
    BY <1>2, <1>5, <2>1 DEF Absorbed
  <2>3. CASE Ignored(status[i], e.gst)
    <3> DEFINE st == status[i]
               nx == status'[i]
               gs == e.gst
    <3>1. \/ nx = st
          \/ st = "PENDING" /\ nx \in {"PROCESSING", "FAILED", "EXPIRED", "COMPLETED"}
          \/ st = "PROCESSING" /\ nx \in {"FAILED", "EXPIRED", "COMPLETED"}
          \/ st = "FAILED" /\ nx = "COMPLETED"
      BY <1>1, <2>1, <2>2, StatusMoves
    <3> HIDE DEF st, nx, gs
    <3>2. Ignored(st, gs) /\ gs \in {"AUTHORIZED", "CAPTURED", "FAILED"}
      BY <2>1, <2>3 DEF st, gs
    <3>3. Ignored(nx, gs)
      BY <3>1, <3>2 DEF Ignored, TargetState, IsTerminal, TerminalStates, CanTransition,
                        NoState
    <3>4. Ignored(status[i], e.gst)'
      BY <3>3 DEF Ignored, nx, gs
    <3> QED
      BY <2>2, <3>4 DEF Absorbed
  <2>4. CASE IsMismatch(e.pay, e.gst) /\ Recorded(e.pay)
    <3>0. PICK k \in Intents : \E a \in attempts[k] : a.pay = e.pay
      BY <2>4 DEF Recorded
    <3>1. PICK a \in attempts[k] : a.pay = e.pay
      BY <3>0
    <3>2. \E b \in attempts'[k] : b.pay = e.pay
      BY <1>1, <3>1, AttemptStep
    <3>3. Recorded(e.pay)'
      BY <3>2 DEF Recorded
    <3> QED
      BY <2>2, <2>4, <3>3 DEF Absorbed
  <2> QED
    BY <1>5, <2>3, <2>4 DEF Absorbed
<1> QED
  BY <1>1, <1>3, <1>4, <1>5

\* Writing what the gateway has said: a transaction of the tables, after which
\* they still say nothing else, and an event that brought it is absorbed.
LEMMA OutcomeMoves ==
  ASSUME SettlementInv, NEW p \in Payments, NEW gs \in GatewayStatuses \ {"CREATED"},
         Reached(p, gs), ApplyOrIgnore(OrderOf[p], p, gs), gw' = gw
  PROVE  /\ [StoreNext]_storeVars
         /\ \A j \in Intents : Authoritative(j)'
         /\ \A e \in PaymentEvents : e.pay = p /\ e.gst = gs => Absorbed(e)'
<1> DEFINE i == OrderOf[p]
<1>1. /\ i \in Intents /\ p \in PaymentsOf(i) /\ StoreInv
      /\ i \in orders /\ status[i] # NoState
  BY StoreAssumption DEF SettlementInv, Placed, Reached, NoState, GatewayStatuses, PaymentsOf
<1>2. \/ ApplyOutcome(i, p, gs)
      \/ Ignored(status[i], gs) /\ UNCHANGED storeVars
  BY DEF ApplyOrIgnore
<1>3. [StoreNext]_storeVars
  BY <1>1, <1>2 DEF StoreNext
<1>4. \A q \in Payments : \A st : Reached(q, st)' <=> Reached(q, st)
  BY DEF Reached
<1>5. \A j \in Intents : txns[j] \subseteq Payments /\ PaymentsOf(j) \subseteq Payments
  BY <1>1 DEF StoreInv, StoreTypeOK, PaymentsOf
<1>6. \A j \in Intents : Authoritative(j)
  BY DEF SettlementInv
<1>7. CASE Ignored(status[i], gs) /\ UNCHANGED storeVars
  <2>1. \A j \in Intents : Authoritative(j)'
    BY <1>4, <1>5, <1>6, <1>7 DEF Authoritative, PaymentsOf, storeVars
  <2>2. Ignored(status[i], gs)' /\ status'[i] # NoState
    BY <1>1, <1>7 DEF storeVars, Ignored
  <2> QED
    BY <1>3, <2>1, <2>2 DEF Absorbed
<1>8. CASE WriteMismatch(i, p, gs, status[i], NextAttemptNumber(i))
  <2>1. /\ IsMismatch(p, gs) /\ UNCHANGED <<status, orders, txns>>
        /\ attempts' = Upsert(i, p, "MISMATCHED", NextAttemptNumber(i))
    BY <1>8 DEF WriteMismatch
  <2>2. \A j \in Intents : Authoritative(j)'
    BY <1>4, <1>5, <1>6, <2>1 DEF Authoritative, PaymentsOf
  <2>3. Upserted(attempts, attempts', i, p, "MISMATCHED")
    BY <1>1, <2>1, UpsertInv DEF AttemptStatuses
  <2>4. Recorded(p)'
    BY <2>3 DEF Upserted, Recorded
  <2>5. IsMismatch(p, gs)' /\ status'[i] # NoState
    BY <1>1, <2>1 DEF IsMismatch
  <2> QED
    BY <1>3, <2>2, <2>4, <2>5 DEF Absorbed
<1>9. CASE WriteProgress(i, p, gs, status[i], NextAttemptNumber(i))
  <2> DEFINE to == TargetState(gs)
  <2>1. /\ gs \in {"AUTHORIZED", "FAILED"}
        /\ to = IF gs = "AUTHORIZED" THEN "PROCESSING" ELSE "FAILED"
    BY <1>9 DEF WriteProgress, AssertValidTransition, TargetState, NoState, States
  <2> HIDE DEF to
  <2>2. status' = [status EXCEPT ![i] = to] /\ UNCHANGED <<orders, txns>>
    BY <1>9 DEF WriteProgress, SetStatus, to
  <2>3. status'[i] = to
    BY <1>1, <2>2 DEF StoreInv, StoreTypeOK
  <2>4. Authoritative(i)'
    <3>1. \E q \in PaymentsOf(i) : Reached(q, gs)'
      BY <1>1, <1>4
    <3> QED
      BY <1>1, <1>4, <1>5, <1>6, <2>1, <2>2, <2>3, <3>1 DEF Authoritative, PaymentsOf
  <2>5. \A j \in Intents \ {i} : Authoritative(j)'
    BY <1>1, <1>4, <1>5, <1>6, <2>2 DEF Authoritative, PaymentsOf, StoreInv, StoreTypeOK
  <2>6. Ignored(status[i], gs)' /\ status'[i] # NoState
    BY <2>1, <2>3 DEF Ignored, to, NoState
  <2> QED
    BY <1>3, <2>4, <2>5, <2>6 DEF Absorbed
<1>10. CASE WriteSettlement(i, p, gs, status[i], NextAttemptNumber(i))
  <2>1. gs = "CAPTURED"
    BY <1>10 DEF WriteSettlement, TargetState, NoState
  <2>2. /\ status' = [status EXCEPT ![i] = "COMPLETED"]
        /\ txns' = [txns EXCEPT ![i] = @ \cup {p}]
        /\ UNCHANGED orders
    BY <1>10 DEF WriteSettlement, SetStatus
  <2>3. status'[i] = "COMPLETED" /\ txns'[i] = txns[i] \cup {p}
    BY <1>1, <2>2 DEF StoreInv, StoreTypeOK
  <2>4. Authoritative(i)'
    BY <1>1, <1>4, <1>5, <1>6, <2>1, <2>3 DEF Authoritative
  <2>5. \A j \in Intents \ {i} : Authoritative(j)'
    BY <1>1, <1>4, <1>5, <1>6, <2>2 DEF Authoritative, PaymentsOf, StoreInv, StoreTypeOK
  <2>6. Ignored(status[i], gs)' /\ status'[i] # NoState
    BY <2>3 DEF Ignored, IsTerminal, TerminalStates, NoState
  <2> QED
    BY <1>3, <2>4, <2>5, <2>6 DEF Absorbed
<1> QED
  BY <1>2, <1>7, <1>8, <1>9, <1>10 DEF ApplyOutcome
-----------------------------------------------------------------------------
(* Steps that leave the gateway as it is *)

\* What a flow goes on holding, or has just seen, the gateway has said.
LEMMA KnownStays ==
  ASSUME SettlementInv, FlowTypes', gw' = gw,
         \A e \in PaymentEvents :
           handler'[e] # "idle" => handler[e] # "idle" \/ Reached(e.pay, e.gst),
         \A p \in Payments : \A st \in GatewayStatuses :
           fetched'[p] = st => fetched[p] = st \/ (st # "CREATED" /\ Reached(p, st)),
         \A s \in Sweepers : \A r \in Repairs :
           found'[s] = r /\ r # Nothing => found[s] = r \/ RepairKnown(r)
  PROVE  Known'
<1>1. \A p \in Payments : \A st : Reached(p, st)' <=> Reached(p, st)
  BY DEF Reached
<1>2. \A r \in Repairs : RepairKnown(r) => RepairKnown(r)'
  BY DEF RepairKnown, Reached, PaymentsOf
<1>3. \A e \in PaymentEvents : e.pay \in Payments
  BY SettlementAssumption DEF PaymentEvents
<1>4. \A e \in PaymentEvents : handler'[e] # "idle" => Reached(e.pay, e.gst)'
  BY <1>1, <1>3 DEF SettlementInv, Known
<1>5. \A p \in Payments : \A st \in GatewayStatuses :
        fetched'[p] = st => st # "CREATED" /\ Reached(p, st)'
  BY <1>1 DEF SettlementInv, Known
<1>6. \A s \in Sweepers : \A r \in Repairs :
        found'[s] = r /\ r # Nothing => RepairKnown(r)'
  BY <1>2 DEF SettlementInv, Known
<1> QED
  BY <1>4, <1>5, <1>6 DEF Known

\* The invariant, from what a step does to the tables and to the inbox.
LEMMA TableStep ==
  ASSUME SettlementInv, [StoreNext]_storeVars, gw' = gw, FlowTypes', Known',
         \A i \in Intents : Authoritative(i)',
         \A e \in PaymentEvents :
           handler'[e] = "marking" \/ inbox'[e] = "PROCESSED" =>
             handler[e] = "marking" \/ inbox[e] = "PROCESSED" \/ Absorbed(e)'
  PROVE  SettlementInv'
<1>1. /\ StoreInv'
      /\ orders \subseteq orders'
      /\ \A i \in orders' : status'[i] # NoState
      /\ \A e \in PaymentEvents : Absorbed(e) => Absorbed(e)'
  BY StoreMoves
<1>2. Placed'
  BY <1>1 DEF SettlementInv, Placed
<1>3. Processing'
  BY <1>1 DEF SettlementInv, Processing
<1> QED
  BY <1>1, <1>2, <1>3 DEF SettlementInv

\* Without a transaction the tables say what they said.
LEMMA AuthoritativeStays ==
  ASSUME SettlementInv, UNCHANGED storeVars, gw' = gw
  PROVE  \A i \in Intents : Authoritative(i)'
BY DEF SettlementInv, Authoritative, Reached, PaymentsOf, storeVars

\* updated_at stays within its type.
LEMMA TouchTypes ==
  ASSUME FlowTypes, Touch
  PROVE  /\ aged' \in [Intents -> SUBSET Stuckable]
         /\ older' \in [Intents -> SUBSET Intents]
<1> DEFINE moved == {i \in Intents : status'[i] # status[i]}
<1>1. \A i \in Intents : older[i] \ moved \in SUBSET Intents
  BY DEF FlowTypes
<1>2. older' = [i \in Intents |->
         IF i \in moved
         THEN {j \in Intents \ moved : {status'[i], status[j]} \subseteq Stuckable}
         ELSE older[i] \ moved]
  BY DEF Touch
<1>3. aged' = [i \in Intents |-> IF i \in moved THEN {} ELSE aged[i]]
  BY DEF Touch
<1> HIDE DEF moved
<1>4. aged' \in [Intents -> SUBSET Stuckable]
  BY <1>3 DEF FlowTypes
<1> QED
  BY <1>1, <1>2, <1>4

\* What the gateway has said of a payment is one of its statuses.
LEMMA EventFacts ==
  ASSUME NEW e \in PaymentEvents
  PROVE  /\ e \in Events /\ e.kind = "payment"
         /\ e.pay \in Payments /\ e.gst \in GatewayStatuses \ {"CREATED"}
BY SettlementAssumption DEF PaymentEvents, GatewayStatuses

LEMMA CreateInv ==
  ASSUME SettlementInv, NEW i \in Intents, CreateStep(i)
  PROVE  SettlementInv' /\ [StoreNext]_storeVars
<1>1. /\ InsertIntent(i) \/ (status[i] = "PENDING" /\ InsertOrder(i)) \/ FailIntent(i)
      /\ Touch /\ UNCHANGED <<inboxVars, gw, fetched, sweepVars>>
  BY DEF CreateStep
<1>2. [StoreNext]_storeVars
  BY <1>1 DEF StoreNext
<1>3. FlowTypes'
  BY <1>1, TouchTypes DEF SettlementInv, FlowTypes, InboxTypeOK, inboxVars, sweepVars
<1>4. UNCHANGED <<inbox, handler, fetched, found, gw>>
  BY <1>1 DEF inboxVars, sweepVars
<1>5. Known'
  <2>1. gw' = gw /\ SettlementInv /\ FlowTypes'
    BY <1>3, <1>4
  <2>2. /\ \A e \in PaymentEvents :
             handler'[e] # "idle" => handler[e] # "idle" \/ Reached(e.pay, e.gst)
        /\ \A p \in Payments : \A st \in GatewayStatuses :
             fetched'[p] = st => fetched[p] = st \/ (st # "CREATED" /\ Reached(p, st))
        /\ \A s \in Sweepers : \A r \in Repairs :
             found'[s] = r /\ r # Nothing => found[s] = r \/ RepairKnown(r)
    BY <1>4
  <2> QED
    BY <2>1, <2>2, KnownStays, Zenon
<1>6. ASSUME NEW j \in Intents
      PROVE  Authoritative(j)'
  <2>1. /\ txns' = txns
        /\ \/ status'[j] = status[j] /\ (j \in orders' => j \in orders \/ status[j] = "PENDING")
           \/ status'[j] = "PENDING"
           \/ status'[j] = "FAILED" /\ j \notin orders'
    BY <1>1 DEF InsertIntent, InsertOrder, FailIntent, WriteCreateFailed, SetStatus,
                SettlementInv, StoreInv, StoreTypeOK
  <2>2. Authoritative(j)
    BY DEF SettlementInv
  <2> QED
    BY <1>4, <2>1, <2>2 DEF Authoritative, Reached, PaymentsOf
<1> QED
  BY <1>2, <1>3, <1>4, <1>5, <1>6, TableStep

\* Steps that only move the clock, /verify's fetch or a sweep: no transaction, no
\* event, and nothing held that the gateway has not said.
LEMMA QuietInv ==
  ASSUME SettlementInv, UNCHANGED <<storeVars, inboxVars, gw>>, FlowTypes',
         \A p \in Payments : \A st \in GatewayStatuses :
           fetched'[p] = st => fetched[p] = st \/ (st # "CREATED" /\ Reached(p, st)),
         \A s \in Sweepers : \A r \in Repairs :
           found'[s] = r /\ r # Nothing => found[s] = r \/ RepairKnown(r)
  PROVE  SettlementInv'
<1>1. UNCHANGED <<inbox, handler, gw>>
  BY DEF inboxVars
<1>2. Known'
  BY <1>1, KnownStays
<1>3. \A i \in Intents : Authoritative(i)'
  BY <1>1, AuthoritativeStays
<1> QED
  BY <1>1, <1>2, <1>3, TableStep

LEMMA TimePassesInv ==
  ASSUME SettlementInv, NEW i \in Intents, NEW c \in Stuckable, TimePasses(i, c)
  PROVE  SettlementInv'
<1>1. /\ UNCHANGED <<storeVars, inboxVars, gw, fetched, older, sweepVars>>
      /\ aged' = [aged EXCEPT ![i] = @ \cup {c}]
  BY DEF TimePasses
<1>2. FlowTypes'
  BY <1>1 DEF SettlementInv, FlowTypes, InboxTypeOK, inboxVars, sweepVars
<1>3. UNCHANGED <<storeVars, inboxVars, gw>>
  BY <1>1
<1>4. /\ \A p \in Payments : \A st \in GatewayStatuses :
           fetched'[p] = st => fetched[p] = st \/ (st # "CREATED" /\ Reached(p, st))
      /\ \A s \in Sweepers : \A r \in Repairs :
           found'[s] = r /\ r # Nothing => found[s] = r \/ RepairKnown(r)
  BY <1>1 DEF sweepVars
<1> QED
  BY <1>2, <1>3, <1>4, QuietInv, Zenon

LEMMA VerifyQuietInv ==
  ASSUME SettlementInv, NEW p \in Payments, VerifyFetch(p) \/ VerifyFault(p)
  PROVE  SettlementInv'
<1>1. UNCHANGED <<storeVars, inboxVars, gw, ageVars, sweepVars>>
  BY DEF VerifyFetch, VerifyFault
<1>2. PICK st \in GatewayStatuses \cup {NoState} :
        /\ fetched' = [fetched EXCEPT ![p] = st]
        /\ st # NoState => st # "CREATED" /\ Reached(p, st)
  BY DEF VerifyFetch, VerifyFault, Reached, GatewayStatuses, NoState
<1>3. FlowTypes'
  BY <1>1, <1>2 DEF SettlementInv, FlowTypes, InboxTypeOK, inboxVars, ageVars, sweepVars
<1>4. \A q \in Payments : \A gs \in GatewayStatuses :
        fetched'[q] = gs => fetched[q] = gs \/ (gs # "CREATED" /\ Reached(q, gs))
  <2>1. \A q \in Payments \ {p} : fetched'[q] = fetched[q]
    BY <1>2 DEF SettlementInv, FlowTypes
  <2>2. fetched'[p] = st /\ NoState \notin GatewayStatuses
    BY <1>2 DEF SettlementInv, FlowTypes, GatewayStatuses, NoState
  <2> QED
    BY <1>2, <2>1, <2>2
<1>5. UNCHANGED <<storeVars, inboxVars, gw>>
  BY <1>1
<1>6. \A s \in Sweepers : \A r \in Repairs :
        found'[s] = r /\ r # Nothing => found[s] = r \/ RepairKnown(r)
  BY <1>1 DEF sweepVars
<1> QED
  BY <1>3, <1>4, <1>5, <1>6, QuietInv, Zenon

\* The statements of a handler that leave the tables alone.
LEMMA InboxStepInv ==
  ASSUME SettlementInv, NEW e \in Events,
         DeliverEvent(e) \/ FinishEvent(e) \/ EventFault(e)
  PROVE  SettlementInv'
<1>1. UNCHANGED <<storeVars, gw, fetched, ageVars, sweepVars>>
  BY DEF DeliverEvent, FinishEvent, EventFault
<1>2. InboxTypeOK
  BY DEF SettlementInv, FlowTypes
<1>3. PICK hp \in HandlerPoints, st \in InboxStatuses :
        /\ handler' = [handler EXCEPT ![e] = hp]
        /\ inbox' = [inbox EXCEPT ![e] = st]
        /\ acked' \subseteq Events
        /\ e.kind = "payment" /\ hp # "idle" =>
             handler[e] # "idle" \/ Reached(e.pay, e.gst)
        /\ e.kind = "payment" /\ (hp = "marking" \/ st = "PROCESSED") =>
             handler[e] = "marking" \/ inbox[e] = "PROCESSED"
  <2> USE DEF Mark, Handle, InboxTypeOK, HandlerPoints, InboxStatuses
  <2>1. CASE DeliverEvent(e) /\ Receive(e)
    <3>1. e.kind = "payment" => Reached(e.pay, e.gst)
      BY <2>1, SettlementAssumption DEF DeliverEvent
    <3> QED
      BY <1>2, <2>1, <3>1 DEF Receive
  <2>2. CASE Redeliver(e)
    BY <1>2, <2>2 DEF Redeliver
  <2>3. CASE Ignore(e)
    BY <1>2, <2>3 DEF Ignore
  <2>4. CASE Malformed(e)
    BY <1>2, <2>4 DEF Malformed
  <2>5. CASE MarkProcessed(e)
    BY <1>2, <2>5 DEF MarkProcessed
  <2>6. CASE MarkFailed(e)
    BY <1>2, <2>6 DEF MarkFailed
  <2>7. CASE HandlerError(e)
    BY <1>2, <2>7 DEF HandlerError, StatementFails
  <2>8. CASE HandlerDies(e)
    BY <1>2, <2>8 DEF HandlerDies, StatementFails
  <2> QED
    BY <2>1, <2>2, <2>3, <2>4, <2>5, <2>6, <2>7, <2>8
       DEF DeliverEvent, FinishEvent, EventFault, HandlerStep
<1>4. \A x \in Events \ {e} : handler'[x] = handler[x] /\ inbox'[x] = inbox[x]
  BY <1>2, <1>3 DEF InboxTypeOK
<1>5. handler'[e] = hp /\ inbox'[e] = st
  BY <1>2, <1>3 DEF InboxTypeOK
<1>6. InboxTypeOK'
  BY <1>2, <1>3 DEF InboxTypeOK
<1>7. FlowTypes'
  BY <1>1, <1>6 DEF SettlementInv, FlowTypes, ageVars, sweepVars
<1>8. \A x \in PaymentEvents : x \in Events /\ x.kind = "payment"
  BY DEF PaymentEvents
<1>9. \A x \in PaymentEvents :
        handler'[x] # "idle" => handler[x] # "idle" \/ Reached(x.pay, x.gst)
  BY <1>3, <1>4, <1>5, <1>8
<1>10. UNCHANGED <<fetched, found, gw>>
  BY <1>1 DEF sweepVars
<1>11. Known'
  BY <1>7, <1>9, <1>10, KnownStays
<1>12. \A i \in Intents : Authoritative(i)'
  BY <1>1, AuthoritativeStays
<1>13. \A x \in PaymentEvents :
         handler'[x] = "marking" \/ inbox'[x] = "PROCESSED" =>
           handler[x] = "marking" \/ inbox[x] = "PROCESSED" \/ Absorbed(x)'
  BY <1>3, <1>4, <1>5, <1>8
<1> QED
  BY <1>1, <1>7, <1>11, <1>12, <1>13, TableStep

\* processEvent: what the event says was true when it was sent.
LEMMA ProcessEventInv ==
  ASSUME SettlementInv, NEW e \in Events, ProcessEvent(e)
  PROVE  SettlementInv' /\ [StoreNext]_storeVars
<1>1. /\ e \in PaymentEvents /\ handler[e] = "processing"
      /\ handler' = [handler EXCEPT ![e] = "marking"]
      /\ UNCHANGED <<inbox, acked, gw, fetched, sweepVars>>
      /\ ApplyOrIgnore(OrderOf[e.pay], e.pay, e.gst)
  BY DEF ProcessEvent, Processed, Handle, PaymentEvents
<1>2. Reached(e.pay, e.gst) /\ e.pay \in Payments /\ e.gst \in GatewayStatuses \ {"CREATED"}
  BY <1>1, EventFacts DEF SettlementInv, Known
<1>3. /\ [StoreNext]_storeVars
      /\ \A j \in Intents : Authoritative(j)'
      /\ Absorbed(e)'
  BY <1>1, <1>2, OutcomeMoves
<1>4. InboxTypeOK /\ InboxTypeOK'
  BY <1>1 DEF SettlementInv, FlowTypes, InboxTypeOK, HandlerPoints
<1>5. Touch
  BY <1>1 DEF ApplyOrIgnore
<1>6. FlowTypes'
  BY <1>1, <1>4, <1>5, TouchTypes DEF SettlementInv, FlowTypes, sweepVars
<1>7. \A x \in Events \ {e} : handler'[x] = handler[x]
  BY <1>1, <1>4 DEF InboxTypeOK
<1>8. \A x \in PaymentEvents :
        handler'[x] # "idle" => handler[x] # "idle" \/ Reached(x.pay, x.gst)
  BY <1>1, <1>7 DEF PaymentEvents
<1>9. UNCHANGED <<fetched, found, gw>>
  BY <1>1 DEF sweepVars
<1>10. Known'
  BY <1>6, <1>8, <1>9, KnownStays
<1>11. \A x \in PaymentEvents :
         handler'[x] = "marking" \/ inbox'[x] = "PROCESSED" =>
           handler[x] = "marking" \/ inbox[x] = "PROCESSED" \/ Absorbed(x)'
  BY <1>1, <1>3, <1>7 DEF PaymentEvents
<1> QED
  BY <1>3, <1>6, <1>9, <1>10, <1>11, TableStep

\* A step of /verify or of a sweep that writes what was fetched before.
LEMMA WriteInv ==
  ASSUME SettlementInv, [StoreNext]_storeVars, Touch, FlowTypes',
         UNCHANGED <<inboxVars, gw>>,
         \A p \in Payments : fetched'[p] = fetched[p] \/ fetched'[p] = NoState,
         \A s \in Sweepers : found'[s] = found[s] \/ found'[s] = Nothing,
         \A i \in Intents : Authoritative(i)'
  PROVE  SettlementInv'
<1>1. UNCHANGED <<inbox, handler, gw>>
  BY DEF inboxVars
<1>2. /\ \A p \in Payments : \A st \in GatewayStatuses :
           fetched'[p] = st => fetched[p] = st \/ (st # "CREATED" /\ Reached(p, st))
      /\ \A s \in Sweepers : \A r \in Repairs :
           found'[s] = r /\ r # Nothing => found[s] = r \/ RepairKnown(r)
  BY DEF GatewayStatuses, NoState
<1>3. Known'
  BY <1>1, <1>2, KnownStays
<1> QED
  BY <1>1, <1>3, TableStep

LEMMA VerifyApplyInv ==
  ASSUME SettlementInv, NEW p \in Payments, VerifyApply(p)
  PROVE  SettlementInv' /\ [StoreNext]_storeVars
<1> DEFINE gs == fetched[p]
<1>1. /\ gs # NoState
      /\ ApplyOrIgnore(OrderOf[p], p, gs)
      /\ fetched' = [fetched EXCEPT ![p] = NoState]
      /\ UNCHANGED <<inboxVars, gw, sweepVars>>
  BY DEF VerifyApply
<1>2. gs \in GatewayStatuses \ {"CREATED"} /\ Reached(p, gs)
  BY <1>1 DEF SettlementInv, FlowTypes, Known
<1>3. [StoreNext]_storeVars /\ \A j \in Intents : Authoritative(j)'
  BY <1>1, <1>2, OutcomeMoves
<1>4. Touch
  BY <1>1 DEF ApplyOrIgnore
<1>5. FlowTypes'
  BY <1>1, <1>4, TouchTypes DEF SettlementInv, FlowTypes, InboxTypeOK, inboxVars, sweepVars
<1>6. /\ UNCHANGED <<inboxVars, gw>>
      /\ \A q \in Payments : fetched'[q] = fetched[q] \/ fetched'[q] = NoState
      /\ \A s \in Sweepers : found'[s] = found[s] \/ found'[s] = Nothing
  BY <1>1 DEF SettlementInv, FlowTypes, sweepVars
<1> QED
  BY <1>3, <1>4, <1>5, <1>6, WriteInv
-----------------------------------------------------------------------------
(* The sweep *)

LEMMA StartSweepInv ==
  ASSUME SettlementInv, NEW s \in Sweepers, StartSweep(s)
  PROVE  SettlementInv'
<1> DEFINE T == {[intent |-> i, ripe |-> "PENDING" \in aged[i]] : i \in StuckIntents}
<1>1. /\ todo' = [todo EXCEPT ![s] = T]
      /\ UNCHANGED <<storeVars, inboxVars, gw, fetched, ageVars, found>>
  BY DEF StartSweep
<1>2. T \subseteq Candidates
  <2> SUFFICES ASSUME NEW i \in StuckIntents
               PROVE  [intent |-> i, ripe |-> "PENDING" \in aged[i]] \in Candidates
    OBVIOUS
  <2> DEFINE ripe == "PENDING" \in aged[i]
  <2>1. i \in Intents /\ ripe \in BOOLEAN
    BY DEF StuckIntents
  <2> HIDE DEF ripe
  <2>2. [intent |-> i, ripe |-> ripe] \in Candidates
    BY <2>1 DEF Candidates
  <2> QED
    BY <2>2 DEF ripe
<1> HIDE DEF T
<1>3. FlowTypes'
  BY <1>1, <1>2 DEF SettlementInv, FlowTypes, InboxTypeOK, inboxVars, ageVars
<1>4. /\ UNCHANGED <<storeVars, inboxVars, gw>>
      /\ \A p \in Payments : \A st \in GatewayStatuses :
           fetched'[p] = st => fetched[p] = st \/ (st # "CREATED" /\ Reached(p, st))
      /\ \A t \in Sweepers : \A r \in Repairs :
           found'[t] = r /\ r # Nothing => found[t] = r \/ RepairKnown(r)
  BY <1>1
<1> QED
  BY <1>3, <1>4, QuietInv, Zenon

\* What a sweep decides is what the gateway answers at that moment.
LEMMA DecisionKnown ==
  ASSUME SettlementInv, NEW s \in Sweepers, NEW c \in Candidates, ReconcileRepair(s, c)
  PROVE  \E r \in Repairs : found' = [found EXCEPT ![s] = r] /\ RepairKnown(r)
<1> DEFINE i == c.intent
<1>1. i \in Intents
  BY DEF Candidates
<1>2. ASSUME NEW p \in At(i, "CAPTURED"), Decide(s, i, "SUCCESS", p)
      PROVE  \E r \in Repairs : found' = [found EXCEPT ![s] = r] /\ RepairKnown(r)
  <2> DEFINE r == [outcome |-> "SUCCESS", intent |-> i, pay |-> p]
  <2>1. r \in Repairs /\ RepairKnown(r)
    BY <1>1 DEF Repairs, RepairKnown, At, PaymentsOf, Reached
  <2> QED
    BY <1>2, <2>1 DEF Decide
<1>3. ASSUME NEW p \in At(i, "FAILED"), Decide(s, i, "FAILED", p)
      PROVE  \E r \in Repairs : found' = [found EXCEPT ![s] = r] /\ RepairKnown(r)
  <2> DEFINE r == [outcome |-> "FAILED", intent |-> i, pay |-> p]
  <2>1. r \in Repairs /\ RepairKnown(r)
    BY <1>1 DEF Repairs, RepairKnown, At, PaymentsOf, Reached
  <2> QED
    BY <1>3, <2>1 DEF Decide
<1>4. ASSUME Decide(s, i, "NO_ATTEMPT", NoPay)
      PROVE  \E r \in Repairs : found' = [found EXCEPT ![s] = r] /\ RepairKnown(r)
  <2> DEFINE r == [outcome |-> "NO_ATTEMPT", intent |-> i, pay |-> NoPay]
  <2>1. r \in Repairs /\ RepairKnown(r)
    BY <1>1 DEF Repairs, RepairKnown
  <2> QED
    BY <1>4, <2>1 DEF Decide
<1> QED
  BY <1>2, <1>3, <1>4 DEF ReconcileRepair

LEMMA ReconcileInv ==
  ASSUME SettlementInv, NEW s \in Sweepers, NEW c \in Candidates,
         ReconcileRepair(s, c) \/ ReconcileSkip(s, c)
  PROVE  SettlementInv'
<1>1. /\ todo' = [todo EXCEPT ![s] = @ \ {c}]
      /\ UNCHANGED <<storeVars, inboxVars, gw, fetched, ageVars>>
  BY DEF ReconcileRepair, ReconcileSkip, NextCandidate
<1>2. \/ found' = found
      \/ \E r \in Repairs : found' = [found EXCEPT ![s] = r] /\ RepairKnown(r)
  BY DecisionKnown DEF ReconcileSkip
<1>3. FlowTypes'
  BY <1>1, <1>2 DEF SettlementInv, FlowTypes, InboxTypeOK, inboxVars, ageVars
<1>4. \A t \in Sweepers : \A r \in Repairs :
        found'[t] = r /\ r # Nothing => found[t] = r \/ RepairKnown(r)
  BY <1>2 DEF SettlementInv, FlowTypes
<1>5. /\ UNCHANGED <<storeVars, inboxVars, gw>>
      /\ \A p \in Payments : \A st \in GatewayStatuses :
           fetched'[p] = st => fetched[p] = st \/ (st # "CREATED" /\ Reached(p, st))
  BY <1>1
<1> QED
  BY <1>3, <1>4, <1>5, QuietInv, Zenon

\* A sweep that gives up a candidate, a repair or all of its work.
LEMMA GiveUpInv ==
  ASSUME SettlementInv, NEW s \in Sweepers, ReconcileError(s) \/ WorkerDies(s)
  PROVE  SettlementInv'
<1>1. UNCHANGED <<storeVars, inboxVars, gw, fetched, ageVars>>
  BY DEF ReconcileError, WorkerDies, NextCandidate
<1>2. found' = found \/ found' = [found EXCEPT ![s] = Nothing]
  BY DEF ReconcileError, WorkerDies
<1>3. todo' = todo \/ \E T \in SUBSET todo[s] : todo' = [todo EXCEPT ![s] = T]
  BY DEF ReconcileError, WorkerDies, NextCandidate
<1>4. FlowTypes'
  BY <1>1, <1>2, <1>3 DEF SettlementInv, FlowTypes, InboxTypeOK, inboxVars, ageVars
<1>5. \A t \in Sweepers : \A r \in Repairs :
        found'[t] = r /\ r # Nothing => found[t] = r \/ RepairKnown(r)
  BY <1>2 DEF SettlementInv, FlowTypes
<1>6. /\ UNCHANGED <<storeVars, inboxVars, gw>>
      /\ \A p \in Payments : \A st \in GatewayStatuses :
           fetched'[p] = st => fetched[p] = st \/ (st # "CREATED" /\ Reached(p, st))
  BY <1>1
<1> QED
  BY <1>4, <1>5, <1>6, QuietInv, Zenon

\* The transaction of a repair, which may come after much else.
LEMMA RepairInv ==
  ASSUME SettlementInv, NEW s \in Sweepers, Repair(s)
  PROVE  SettlementInv' /\ [StoreNext]_storeVars
<1> DEFINE r == found[s]
<1>1. /\ r # Nothing
      /\ found' = [found EXCEPT ![s] = Nothing]
      /\ UNCHANGED <<inboxVars, gw, fetched, todo>>
  BY DEF Repair
<1>2. r \in Repairs /\ r.intent \in Intents /\ RepairKnown(r)
  BY <1>1 DEF SettlementInv, FlowTypes, Known, Repairs
<1>3. /\ \/ /\ r.outcome = "SUCCESS"
            /\ ApplyOrIgnore(r.intent, r.pay, "CAPTURED")
         \/ /\ r.outcome = "FAILED"
            /\ ApplyOrIgnore(r.intent, r.pay, "FAILED")
         \/ Expire(r.intent) \/ UNCHANGED storeVars
      /\ Touch
  BY DEF Repair, ApplyOrIgnore
<1> HIDE DEF r
<1>4. [StoreNext]_storeVars /\ \A j \in Intents : Authoritative(j)'
  <2>1. CASE r.outcome = "SUCCESS" /\ ApplyOrIgnore(r.intent, r.pay, "CAPTURED")
    <3>1. /\ r.pay \in Payments /\ OrderOf[r.pay] = r.intent
          /\ Reached(r.pay, "CAPTURED")
      BY <1>2, <2>1 DEF RepairKnown, PaymentsOf
    <3> QED
      BY <1>1, <2>1, <3>1, OutcomeMoves DEF GatewayStatuses
  <2>2. CASE r.outcome = "FAILED" /\ ApplyOrIgnore(r.intent, r.pay, "FAILED")
    <3>1. /\ r.pay \in Payments /\ OrderOf[r.pay] = r.intent
          /\ Reached(r.pay, "FAILED")
      BY <1>2, <2>2 DEF RepairKnown, PaymentsOf
    <3> QED
      BY <1>1, <2>2, <3>1, OutcomeMoves DEF GatewayStatuses
  <2>3. CASE Expire(r.intent)
    <3>1. [StoreNext]_storeVars
      BY <1>2, <2>3 DEF StoreNext
    <3>2. /\ status' = [status EXCEPT ![r.intent] = "EXPIRED"]
          /\ UNCHANGED <<orders, txns>>
      BY <2>3 DEF Expire, WriteExpiry, SetStatus
    <3>3. \A j \in Intents : status'[j] \in {"EXPIRED", status[j]}
      BY <1>2, <3>2 DEF SettlementInv, StoreInv, StoreTypeOK
    <3>4. \A j \in Intents : Authoritative(j)'
      BY <1>1, <3>2, <3>3 DEF SettlementInv, Authoritative, Reached, PaymentsOf
    <3> QED
      BY <3>1, <3>4
  <2>4. CASE UNCHANGED storeVars
    BY <1>1, <2>4, AuthoritativeStays
  <2> QED
    BY <1>3, <2>1, <2>2, <2>3, <2>4
<1>5. FlowTypes'
  BY <1>1, <1>3, TouchTypes DEF SettlementInv, FlowTypes, InboxTypeOK, inboxVars
<1>6. /\ UNCHANGED <<inboxVars, gw>>
      /\ \A p \in Payments : fetched'[p] = fetched[p] \/ fetched'[p] = NoState
      /\ \A t \in Sweepers : found'[t] = found[t] \/ found'[t] = Nothing
  BY <1>1 DEF SettlementInv, FlowTypes
<1> QED
  BY <1>3, <1>4, <1>5, <1>6, WriteInv

-----------------------------------------------------------------------------
(* The theorems *)

LEMMA SettlementInitInv ==
  ASSUME Init PROVE SettlementInv
<1>1. StoreInv
  BY StoreInitInv DEF Init
<1>2. FlowTypes
  BY DEF Init, FlowTypes, InboxInit, InboxTypeOK, InboxStatuses, HandlerPoints
<1>3. Known
  BY DEF Init, Known, InboxInit, PaymentEvents, GatewayStatuses, NoState
<1>4. Placed
  BY DEF Init, Placed, StoreInit
<1>5. Processing
  BY DEF Init, Processing, InboxInit, PaymentEvents
<1>6. \A i \in Intents : Authoritative(i)
  BY DEF Init, StoreInit, Authoritative, NoState
<1> QED
  BY <1>1, <1>2, <1>3, <1>4, <1>5, <1>6 DEF SettlementInv

\* Every step keeps the invariant and is a transaction of the tables or none.
LEMMA SettlementStep ==
  ASSUME SettlementInv, [Next]_vars
  PROVE  SettlementInv' /\ [StoreNext]_storeVars
<1>1. ASSUME NEW p \in Payments, GatewayMoves(p)
      PROVE  SettlementInv' /\ [StoreNext]_storeVars
  BY <1>1, GatewayInv DEF GatewayMoves
<1>2. ASSUME NEW p \in Payments, VerifyFetch(p) \/ VerifyFault(p)
      PROVE  SettlementInv' /\ [StoreNext]_storeVars
  BY <1>2, VerifyQuietInv DEF VerifyFetch, VerifyFault
<1>3. ASSUME NEW i \in Intents, NEW c \in Stuckable, TimePasses(i, c)
      PROVE  SettlementInv' /\ [StoreNext]_storeVars
  BY <1>3, TimePassesInv DEF TimePasses
<1>4. ASSUME NEW e \in Events, DeliverEvent(e) \/ FinishEvent(e) \/ EventFault(e)
      PROVE  SettlementInv' /\ [StoreNext]_storeVars
  BY <1>4, InboxStepInv DEF DeliverEvent, FinishEvent, EventFault
<1>5. ASSUME NEW s \in Sweepers, StartSweep(s)
      PROVE  SettlementInv' /\ [StoreNext]_storeVars
  BY <1>5, StartSweepInv DEF StartSweep
<1>6. ASSUME NEW s \in Sweepers, NEW i \in Intents, Reconcile(s, i)
      PROVE  SettlementInv' /\ [StoreNext]_storeVars
  BY <1>6, ReconcileInv DEF Reconcile, ReconcileRepair, ReconcileSkip, NextCandidate
<1>7. ASSUME NEW s \in Sweepers, ReconcileError(s) \/ WorkerDies(s)
      PROVE  SettlementInv' /\ [StoreNext]_storeVars
  BY <1>7, GiveUpInv DEF ReconcileError, WorkerDies, NextCandidate
<1>8. CASE UNCHANGED vars
  <2>1. UNCHANGED <<storeVars, inboxVars, gw, fetched, ageVars, sweepVars>>
    BY <1>8 DEF vars, storeVars, inboxVars, ageVars, sweepVars
  <2>2. FlowTypes'
    BY <2>1 DEF SettlementInv, FlowTypes, InboxTypeOK, inboxVars, ageVars, sweepVars
  <2>3. /\ UNCHANGED <<storeVars, inboxVars, gw>>
        /\ \A p \in Payments : \A st \in GatewayStatuses :
             fetched'[p] = st => fetched[p] = st \/ (st # "CREATED" /\ Reached(p, st))
        /\ \A t \in Sweepers : \A r \in Repairs :
             found'[t] = r /\ r # Nothing => found[t] = r \/ RepairKnown(r)
    BY <2>1 DEF sweepVars
  <2>4. SettlementInv'
    BY <2>2, <2>3, QuietInv, Zenon
  <2> QED
    BY <2>3, <2>4
<1> QED
  BY <1>1, <1>2, <1>3, <1>4, <1>5, <1>6, <1>7, <1>8, CreateInv, ProcessEventInv,
     VerifyApplyInv, RepairInv DEF Next

THEOREM SettlementInvariance == Spec => []SettlementInv
<1>1. Init => SettlementInv
  BY SettlementInitInv
<1>2. SettlementInv /\ [Next]_vars => SettlementInv'
  BY SettlementStep
<1> QED
  BY <1>1, <1>2, PTL DEF Spec

\* The three flows together, whatever each of them remembers of the gateway and
\* for how long, write the tables as the serial transactions do.
THEOREM SettlementImplementsStore == Spec => StoreSpec
<1>1. Init => StoreInit
  BY DEF Init
<1>2. SettlementInv /\ [Next]_vars => [StoreNext]_storeVars
  BY SettlementStep
<1> QED
  BY <1>1, <1>2, SettlementInvariance, PTL DEF Spec, StoreSpec
\* TypeOK: the flows' own state and the tables keep their types.
THEOREM SettlementTypes == Spec => []TypeOK
<1>1. SettlementInv => TypeOK
  BY DEF SettlementInv, FlowTypes, TypeOK, StoreInv
<1> QED
  BY <1>1, SettlementInvariance, PTL

\* StatusIsAuthoritative: an intent is PROCESSING, FAILED or settled only after the
\* gateway has said so of a payment of its order, whichever of the three flows
\* wrote it and however old what it wrote was.
THEOREM SettlementIsAuthoritative == Spec => []StatusIsAuthoritative
<1>1. SettlementInv => StatusIsAuthoritative
  BY DEF SettlementInv, Authoritative, StatusIsAuthoritative
<1> QED
  BY <1>1, SettlementInvariance, PTL

\* ProcessedIsAbsorbed: PROCESSED is said only of an event whose outcome the tables
\* hold for good.
THEOREM SettlementAbsorbsProcessed == Spec => []ProcessedIsAbsorbed
<1>1. SettlementInv => ProcessedIsAbsorbed
  BY DEF SettlementInv, Processing, PaymentEvents, Absorbed, ProcessedIsAbsorbed
<1> QED
  BY <1>1, SettlementInvariance, PTL

\* SettledOnce, with webhooks, /verify and sweeps writing: no payment is recorded
\* twice and no two are recorded for one intent.
THEOREM SettlementSettlesOnce == Spec => []SettledOnce
BY SettlementImplementsStore, StoreSafety, PTL

\* TerminalIsFinal: no flow moves an intent out of a terminal status, however old
\* what it writes is.
THEOREM SettlementEndsOnce == Spec => TerminalIsFinal
BY SettlementImplementsStore, StoreTerminalIsFinal, PTL
\* The promise to the merchant, kept by the three flows together.
THEOREM SettlementImplementsLifecycle == Spec => LifecycleSpec
BY SettlementImplementsStore, StoreImplementsLifecycle, PTL

\* Attempts are numbered without gap or repeat, whichever flow reports them.
THEOREM SettlementNumbersAttempts == Spec => []AttemptsNumbered
BY SettlementImplementsStore, StoreSafety, PTL

-----------------------------------------------------------------------------
(* The inbox among the other flows *)

\* A step of Settlement is a step of the inbox on its own, or does not concern it.
LEMMA InboxStep ==
  ASSUME [Next]_vars PROVE [InboxNext]_inboxVars
<1>1. ASSUME NEW e \in Events,
             DeliverEvent(e) \/ ProcessEvent(e) \/ FinishEvent(e) \/ EventFault(e)
      PROVE  InboxNext
  BY <1>1 DEF DeliverEvent, ProcessEvent, FinishEvent, EventFault, InboxNext
<1>2. CASE UNCHANGED vars
  BY <1>2 DEF vars, inboxVars
<1>3. ASSUME NEW p \in Payments,
             GatewayMoves(p) \/ VerifyFetch(p) \/ VerifyApply(p) \/ VerifyFault(p)
      PROVE  UNCHANGED inboxVars
  BY <1>3 DEF GatewayMoves, VerifyFetch, VerifyApply, VerifyFault
<1>4. ASSUME NEW i \in Intents, CreateStep(i) \/ \E c \in Stuckable : TimePasses(i, c)
      PROVE  UNCHANGED inboxVars
  BY <1>4 DEF CreateStep, TimePasses
<1>5. ASSUME NEW s \in Sweepers,
             \/ StartSweep(s) \/ (\E i \in Intents : Reconcile(s, i)) \/ Repair(s)
             \/ ReconcileError(s) \/ WorkerDies(s)
      PROVE  UNCHANGED inboxVars
  BY <1>5 DEF StartSweep, Reconcile, ReconcileRepair, ReconcileSkip, NextCandidate,
     Repair, ReconcileError, WorkerDies
<1> QED
  BY <1>1, <1>2, <1>3, <1>4, <1>5 DEF Next

\* Neither /verify nor a sweep touches webhook_events, and what a handler does to
\* the payment tables does not disturb how it marks its event.
THEOREM SettlementImplementsInbox == Spec => InboxSpec
<1>1. Init => InboxInit
  BY DEF Init
<1>2. [Next]_vars => [InboxNext]_inboxVars
  BY InboxStep
<1> QED
  BY <1>1, <1>2, PTL DEF Spec, InboxSpec

\* Types of webhook_events and of the handlers.
THEOREM InboxTypes == InboxSpec => []InboxTypeOK
<1>1. InboxInit => InboxTypeOK
  BY DEF InboxInit, InboxTypeOK, InboxStatuses, HandlerPoints
<1>2. InboxTypeOK /\ [InboxNext]_inboxVars => InboxTypeOK'
  BY DEF InboxTypeOK, InboxNext, inboxVars, Receive, Redeliver, Processed, HandlerStep,
     Ignore, Malformed, MarkProcessed, MarkFailed, HandlerError, HandlerDies, StatementFails,
     Mark, Handle, InboxStatuses, HandlerPoints
<1> QED
  BY <1>1, <1>2, PTL DEF InboxSpec

\* What was said of an event by a handler that is done stays said, however often the
\* event is delivered again: the only handler it will ever have is gone.
THEOREM InboxProcessesOnce == InboxSpec => ProcessedIsFinal
<1>1. ASSUME InboxTypeOK, InboxNext, NEW e \in Events, Done(e)
      PROVE  Done(e)'
  BY <1>1 DEF Done, InboxTypeOK, InboxNext, Receive, Redeliver, Processed, HandlerStep,
     Ignore, Malformed, MarkProcessed, MarkFailed, HandlerError, HandlerDies,
     StatementFails, Mark, Handle
<1>2. InboxTypeOK /\ [InboxNext]_inboxVars =>
        [\A e \in Events : Done(e) => Done(e)']_inboxVars
  BY <1>1
<1> QED
  BY <1>2, InboxTypes, PTL DEF InboxSpec, ProcessedIsFinal

\* ProcessedIsFinal, with /verify, sweeps and other events in between.
THEOREM SettlementProcessesOnce == Spec => ProcessedIsFinal
BY SettlementImplementsInbox, InboxProcessesOnce, PTL

-----------------------------------------------------------------------------
(* Only a race expires an intent that is being paid *)

\* The gateway has nothing authorized or captured for i.
Unpaid(i) == At(i, "AUTHORIZED") \cup At(i, "CAPTURED") = {}

\* What a sweep knows when it is about to expire an intent, if it is still true.
SweepsAreFresh ==
  \A s \in Sweepers : found[s] # Nothing /\ found[s].outcome = "NO_ATTEMPT" =>
    Unpaid(found[s].intent)

\* No payment of an intent moves between a sweep's fetch of them and its write.
NobodyPaysMeanwhile ==
  [][\A p \in Payments : GatewayMoves(p) =>
       \A s \in Sweepers : found[s] # Nothing => found[s].intent # OrderOf[p]]_vars

\* A decision on a payment that does not move stays true until it is written.
LEMMA FreshStays ==
  ASSUME SettlementInv, SweepsAreFresh, [Next]_vars,
         \A p \in Payments : GatewayMoves(p) =>
           \A s \in Sweepers : found[s] # Nothing => found[s].intent # OrderOf[p]
  PROVE  SweepsAreFresh'
<1>1. ASSUME gw' = gw,
             \A s \in Sweepers :
               \/ found'[s] = found[s]
               \/ found'[s] = Nothing
               \/ found'[s].outcome # "NO_ATTEMPT"
               \/ Unpaid(found'[s].intent)
      PROVE  SweepsAreFresh'
  BY <1>1 DEF SweepsAreFresh, Unpaid, At
<1>2. ASSUME NEW p \in Payments, GatewayMoves(p) PROVE SweepsAreFresh'
  <2>1. found' = found /\ \A q \in Payments \ {p} : gw'[q] = gw[q]
    BY <1>2 DEF GatewayMoves, sweepVars, SettlementInv, FlowTypes
  <2>2. ASSUME NEW s \in Sweepers, found[s] # Nothing, found[s].outcome = "NO_ATTEMPT"
        PROVE  Unpaid(found[s].intent)'
    <3>1. p \notin PaymentsOf(found[s].intent) /\ Unpaid(found[s].intent)
      BY <1>2, <2>2 DEF PaymentsOf, SweepsAreFresh
    <3> QED
      BY <2>1, <3>1 DEF Unpaid, At, PaymentsOf
  <2> QED
    BY <2>1, <2>2 DEF SweepsAreFresh
<1>3. ASSUME NEW s \in Sweepers, NEW c \in Candidates, ReconcileRepair(s, c)
      PROVE  SweepsAreFresh'
  <2>1. PICK r \in Repairs : /\ found' = [found EXCEPT ![s] = r]
                             /\ r.intent = c.intent
                             /\ r.outcome = "NO_ATTEMPT" => Unpaid(c.intent)
    <3> DEFINE outcome == PickAuthoritativeOutcome(c.intent)
               r(p) == [outcome |-> outcome, intent |-> c.intent, pay |-> p]
    <3>1. PICK p \in Payments \cup {NoPay} :
            /\ found' = [found EXCEPT ![s] = r(p)]
            /\ outcome \in {"SUCCESS", "FAILED", "NO_ATTEMPT"}
      BY <1>3 DEF ReconcileRepair, Decide, At, PaymentsOf
    <3>2. outcome = "NO_ATTEMPT" => Unpaid(c.intent)
      BY DEF PickAuthoritativeOutcome, Unpaid
    <3>3. r(p) \in Repairs /\ r(p).intent = c.intent /\ r(p).outcome = outcome
      BY <3>1 DEF Repairs, Candidates
    <3> HIDE DEF r, outcome
    <3> QED
      BY <3>1, <3>2, <3>3
  <2>2. gw' = gw
    BY <1>3 DEF ReconcileRepair, NextCandidate
  <2> QED
    BY <1>1, <2>1, <2>2 DEF SettlementInv, FlowTypes
<1>4. ASSUME NEW s \in Sweepers,
             \/ StartSweep(s) \/ Repair(s) \/ ReconcileError(s) \/ WorkerDies(s)
             \/ \E c \in Candidates : ReconcileSkip(s, c)
      PROVE  SweepsAreFresh'
  <2>1. gw' = gw /\ (found' = found \/ found' = [found EXCEPT ![s] = Nothing])
    BY <1>4 DEF StartSweep, Repair, ReconcileError, WorkerDies, ReconcileSkip, NextCandidate
  <2> QED
    BY <1>1, <2>1 DEF SettlementInv, FlowTypes
<1>5. ASSUME UNCHANGED <<gw, found>> PROVE SweepsAreFresh'
  BY <1>1, <1>5
<1>6. ASSUME NEW p \in Payments, VerifyFetch(p) \/ VerifyApply(p) \/ VerifyFault(p)
      PROVE  UNCHANGED <<gw, found>>
  BY <1>6 DEF VerifyFetch, VerifyApply, VerifyFault, sweepVars
<1>7. ASSUME NEW i \in Intents, CreateStep(i) \/ \E c \in Stuckable : TimePasses(i, c)
      PROVE  UNCHANGED <<gw, found>>
  BY <1>7 DEF CreateStep, TimePasses, sweepVars
<1>8. ASSUME NEW e \in Events,
             DeliverEvent(e) \/ ProcessEvent(e) \/ FinishEvent(e) \/ EventFault(e)
      PROVE  UNCHANGED <<gw, found>>
  BY <1>8 DEF DeliverEvent, ProcessEvent, FinishEvent, EventFault, sweepVars
<1>9. CASE UNCHANGED vars
  BY <1>5, <1>9 DEF vars
<1> QED
  BY <1>2, <1>3, <1>4, <1>5, <1>6, <1>7, <1>8, <1>9 DEF Next, Reconcile

\* What applies an outcome of the gateway does not expire an intent.
LEMMA OutcomeIsNoExpiry ==
  ASSUME StoreInv, NEW i \in Intents, NEW p, NEW gs \in GatewayStatuses,
         ApplyOrIgnore(i, p, gs), NEW k \in Intents, status[k] # "EXPIRED"
  PROVE  status'[k] # "EXPIRED"
<1>1. TargetState(gs) # "EXPIRED"
  BY DEF TargetState, GatewayStatuses, NoState
<1> QED
  BY <1>1 DEF ApplyOrIgnore, ApplyOutcome, WriteMismatch, WriteProgress, WriteSettlement,
     SetStatus, storeVars, StoreInv, StoreTypeOK

\* An intent expires by a sweep that decided so, and by nothing else.
LEMMA ExpiryIsDecided ==
  ASSUME SettlementInv, [Next]_vars, NEW k \in Intents,
         status[k] # "EXPIRED", status'[k] = "EXPIRED"
  PROVE  gw' = gw /\ \E s \in Sweepers : /\ found[s] # Nothing
                                         /\ found[s].outcome = "NO_ATTEMPT"
                                         /\ found[s].intent = k
<1>0. StoreInv /\ status' # status
  BY DEF SettlementInv
<1>1. ASSUME NEW i \in Intents, CreateStep(i) PROVE FALSE
  BY <1>0, <1>1 DEF CreateStep, InsertIntent, InsertOrder, FailIntent, WriteCreateFailed,
     SetStatus, StoreInv, StoreTypeOK
<1>2. ASSUME NEW p \in Payments, VerifyApply(p) PROVE FALSE
  BY <1>2, OutcomeIsNoExpiry, StoreAssumption
     DEF VerifyApply, SettlementInv, FlowTypes
<1>3. ASSUME NEW e \in Events, ProcessEvent(e) PROVE FALSE
  BY <1>3, OutcomeIsNoExpiry, EventFacts, StoreAssumption
     DEF ProcessEvent, Processed, PaymentEvents, SettlementInv
<1>4. ASSUME NEW s \in Sweepers, Repair(s)
      PROVE  /\ gw' = gw /\ found[s] # Nothing
             /\ found[s].outcome = "NO_ATTEMPT" /\ found[s].intent = k
  <2>1. found[s] # Nothing /\ found[s] \in Repairs /\ gw' = gw
    BY <1>4 DEF Repair, SettlementInv, FlowTypes
  <2>2. CASE found[s].outcome = "NO_ATTEMPT"
    BY <1>0, <1>4, <2>1, <2>2 DEF Repair, Expire, WriteExpiry, SetStatus, storeVars,
       StoreInv, StoreTypeOK
  <2>3. CASE found[s].outcome # "NO_ATTEMPT"
    BY <1>4, <2>1, <2>3, OutcomeIsNoExpiry DEF Repair, Repairs, GatewayStatuses, SettlementInv
  <2> QED
    BY <2>1, <2>2, <2>3
<1>5. \/ status' = status
      \/ \E i \in Intents : CreateStep(i)
      \/ \E p \in Payments : VerifyApply(p)
      \/ \E e \in Events : ProcessEvent(e)
      \/ \E s \in Sweepers : Repair(s)
  BY DEF Next, vars, GatewayMoves, VerifyFetch, VerifyFault, TimePasses, DeliverEvent,
     FinishEvent, EventFault, StartSweep, Reconcile, ReconcileRepair, ReconcileSkip,
     NextCandidate, ReconcileError, WorkerDies, storeVars
<1> QED
  BY <1>0, <1>1, <1>2, <1>3, <1>4, <1>5

\* reconcileIntent's promise, ExpiresOnlyUnpaid, holds unless a payment of the
\* intent moves between the sweep's fetch and its write: that race is the only way
\* to expire an intent that is being paid.
THEOREM SettlementExpiresByRaceOnly ==
  Spec /\ NobodyPaysMeanwhile => ExpiresOnlyUnpaid
<1> DEFINE Still == \A p \in Payments : GatewayMoves(p) =>
             \A s \in Sweepers : found[s] # Nothing => found[s].intent # OrderOf[p]
           Expires == \A i \in Intents :
             status[i] # "EXPIRED" /\ status'[i] = "EXPIRED" =>
               At(i, "AUTHORIZED") \cup At(i, "CAPTURED") = {}
<1>1. Init => SweepsAreFresh
  BY DEF Init, SweepsAreFresh
<1>2. SettlementInv /\ SweepsAreFresh /\ [Next]_vars /\ [Still]_vars => SweepsAreFresh'
  <2>1. CASE UNCHANGED vars
    BY <2>1 DEF vars, SweepsAreFresh, Unpaid, At
  <2>2. SettlementInv /\ SweepsAreFresh /\ [Next]_vars /\ Still => SweepsAreFresh'
    BY FreshStays
  <2> QED
    BY <2>1, <2>2
<1>3. SettlementInv /\ SweepsAreFresh /\ [Next]_vars => [Expires]_vars
  BY ExpiryIsDecided DEF SweepsAreFresh, Unpaid
<1> QED
  <2> HIDE DEF Still, Expires
  <2>1. NobodyPaysMeanwhile <=> [][Still]_vars
    BY DEF NobodyPaysMeanwhile, Still
  <2>2. ExpiresOnlyUnpaid <=> [][Expires]_vars
    BY DEF ExpiresOnlyUnpaid, Expires
  <2> QED
    BY <1>1, <1>2, <1>3, <2>1, <2>2, SettlementInvariance, PTL DEF Spec
==============================================================================

---------------------------- MODULE PaymentStore ----------------------------
(***************************************************************************)
(* The payment tables and what each database transaction of                *)
(* paymentService.js writes to them, one transaction per step.  This is     *)
(* the serial specification: PaymentService.tla runs the same transactions  *)
(* concurrently under the row lock and is shown to implement it, and        *)
(* Settlement.tla builds on it.                                             *)
(*                                                                         *)
(* Every write takes the status and the attempt number that its            *)
(* transaction READ (read, next) as parameters.  A serial step passes the  *)
(* current values; PaymentService passes what the worker read earlier.     *)
(***************************************************************************)
EXTENDS PaymentStates, Naturals, Sequences, FiniteSets

CONSTANTS Intents,     \* ids of payment intents
          Payments,    \* gateway payment ids
          NoPay,       \* a NULL gateway_payment_id
          OrderOf,     \* OrderOf[p]: the intent whose gateway order p pays
          Mismatched   \* payments whose amount or currency is not the intent's

ASSUME StoreAssumption ==
  /\ NoPay \notin Payments
  /\ OrderOf \in [Payments -> Intents]
  /\ Mismatched \subseteq Payments

VARIABLES status,      \* payment_intents.status, NoState when there is no row
          orders,      \* intents that have their payment_orders row
          attempts,    \* payment_attempts rows of each intent
          txns,        \* gateway payments of each intent's transactions rows
          history      \* payment_state_history of each intent, in commit order

storeVars == <<status, orders, attempts, txns, history>>

AttemptStatuses ==
  {"CLIENT_REPORTED_FAILURE", "MISMATCHED", "PROCESSING", "FAILED", "SUCCEEDED"}

AttemptRows == [num : Nat \ {0}, pay : Payments \cup {NoPay},
                status : AttemptStatuses]

StoreInit ==
  /\ status = [i \in Intents |-> NoState]
  /\ orders = {}
  /\ attempts = [i \in Intents |-> {}]
  /\ txns = [i \in Intents |-> {}]
  /\ history = [i \in Intents |-> <<>>]

-----------------------------------------------------------------------------
(* Queries *)

PaymentsOf(i) == {p \in Payments : OrderOf[p] = i}

\* The unique index on (gateway, gateway_payment_id) spans the whole table: some
\* intent, not necessarily the one p pays, has a row that names p.
Recorded(p) == \E i \in Intents : \E a \in attempts[i] : a.pay = p

Numbers(i) == {a.num : a \in attempts[i]}

\* nextAttemptNumber: COALESCE(MAX(attempt_number), 0) + 1
NextAttemptNumber(i) ==
  1 + CHOOSE m \in Numbers(i) \cup {0} : \A n \in Numbers(i) : n <= m

\* An upsert that also overwrites attempt_number on conflict.
Upsert_Renumbers(i, p, st, next) ==
  IF Recorded(p)
  THEN [k \in Intents |->
          {IF a.pay = p THEN [a EXCEPT !.num = next, !.status = st] ELSE a :
             a \in attempts[k]}]
  ELSE [attempts EXCEPT ![i] = @ \cup {[num |-> next, pay |-> p, status |-> st]}]

\* upsertAttempt: the row of this gateway payment takes the new status and keeps
\* its number and its intent; without one, intent i gets a row with the next
\* number.
Upsert(i, p, st, next) ==
  IF Recorded(p)
  THEN [k \in Intents |->
          {IF a.pay = p THEN [a EXCEPT !.status = st] ELSE a : a \in attempts[k]}]
  ELSE [attempts EXCEPT ![i] = @ \cup {[num |-> next, pay |-> p, status |-> st]}]

\* The decisions of applyGatewayOutcome, on the status it read: outcomes that
\* are unmapped, duplicate, out of order, or that do not match the amount.
Ignored(st, gs) ==
  \/ TargetState(gs) = NoState
  \/ IsTerminal(st)
  \/ st = TargetState(gs)
  \/ ~CanTransition(st, TargetState(gs))

\* The amount comparison left out.
IsMismatch_NoComparison(p, gs) == FALSE

IsMismatch(p, gs) == TargetState(gs) = "SUCCEEDED" /\ p \in Mismatched

\* The decision of expireStalePayment, on the status it read.
Expirable(st) == ~IsTerminal(st) /\ CanTransition(st, "EXPIRED")

-----------------------------------------------------------------------------
(* Transactions *)

Edge(from, to) == [from |-> from, to |-> to]

Record(i, edges) == history' = [history EXCEPT ![i] = @ \o edges]

SetStatus(i, st) == status' = [status EXCEPT ![i] = st]

\* createPayment's first transaction: the intent, already PENDING.
InsertIntent(i) ==
  /\ status[i] = NoState
  /\ SetStatus(i, "PENDING")
  /\ Record(i, <<Edge(NoState, "CREATED"), Edge("CREATED", "PENDING")>>)
  /\ UNCHANGED <<orders, attempts, txns>>

\* insertOrder: ON CONFLICT DO NOTHING makes a repeated insert harmless.
InsertOrder(i) ==
  /\ orders' = orders \cup {i}
  /\ UNCHANGED <<status, attempts, txns, history>>

\* createPayment's error path: an UPDATE that does not look at the status, and
\* a history row that says it was PENDING.
WriteCreateFailed(i) ==
  /\ SetStatus(i, "FAILED")
  /\ Record(i, <<Edge("PENDING", "FAILED")>>)
  /\ UNCHANGED <<orders, attempts, txns>>

\* applyGatewayOutcome refusing a capture whose amount or currency differs.
WriteMismatch(i, p, gs, read, next) ==
  /\ ~Ignored(read, gs) /\ IsMismatch(p, gs)
  /\ attempts' = Upsert(i, p, "MISMATCHED", next)
  /\ UNCHANGED <<status, orders, txns, history>>

\* applyGatewayOutcome moving the intent to PROCESSING or FAILED.
WriteProgress(i, p, gs, read, next) ==
  LET to == TargetState(gs) IN
  /\ ~Ignored(read, gs) /\ to # "SUCCEEDED"
  /\ AssertValidTransition(read, to)
  /\ SetStatus(i, to)
  /\ attempts' = Upsert(i, p, to, next)
  /\ Record(i, <<Edge(read, to)>>)
  /\ UNCHANGED <<orders, txns>>

\* The settlement with its history written once, for COMPLETED only.
WriteSettlement_OneHistoryRow(i, p, gs, read, next) ==
  /\ ~Ignored(read, gs) /\ TargetState(gs) = "SUCCEEDED" /\ ~IsMismatch(p, gs)
  /\ AssertValidTransition(read, "SUCCEEDED")
  /\ SetStatus(i, "COMPLETED")
  /\ txns' = [txns EXCEPT ![i] = @ \cup {p}]
  /\ attempts' = Upsert(i, p, "SUCCEEDED", next)
  /\ Record(i, <<Edge("SUCCEEDED", "COMPLETED")>>)
  /\ UNCHANGED orders

\* applyGatewayOutcome settling the intent: SUCCEEDED, the transactions row
\* (ON CONFLICT DO NOTHING) and COMPLETED, in one commit.
WriteSettlement(i, p, gs, read, next) ==
  /\ ~Ignored(read, gs) /\ TargetState(gs) = "SUCCEEDED" /\ ~IsMismatch(p, gs)
  /\ AssertValidTransition(read, "SUCCEEDED")
  /\ SetStatus(i, "COMPLETED")
  /\ txns' = [txns EXCEPT ![i] = @ \cup {p}]
  /\ attempts' = Upsert(i, p, "SUCCEEDED", next)
  /\ Record(i, <<Edge(read, "SUCCEEDED"), Edge("SUCCEEDED", "COMPLETED")>>)
  /\ UNCHANGED orders

\* A report written with the upsert of the authoritative path.
WriteReport_Upserts(i, p, next) ==
  /\ attempts' = Upsert(i, p, "CLIENT_REPORTED_FAILURE", next)
  /\ UNCHANGED <<status, orders, txns, history>>

\* reportClientFailure: a plain insert, which the unique index refuses when the
\* gateway payment already has a row, under this intent or another.
WriteReport(i, p, next) ==
  /\ p = NoPay \/ ~Recorded(p)
  /\ attempts' = [attempts EXCEPT ![i] =
       @ \cup {[num |-> next, pay |-> p, status |-> "CLIENT_REPORTED_FAILURE"]}]
  /\ UNCHANGED <<status, orders, txns, history>>

\* An expiry that does not look at the status it locked.
WriteExpiry_Unchecked(i, read) ==
  /\ SetStatus(i, "EXPIRED")
  /\ Record(i, <<Edge(read, "EXPIRED")>>)
  /\ UNCHANGED <<orders, attempts, txns>>

\* expireStalePayment
WriteExpiry(i, read) ==
  /\ Expirable(read)
  /\ SetStatus(i, "EXPIRED")
  /\ Record(i, <<Edge(read, "EXPIRED")>>)
  /\ UNCHANGED <<orders, attempts, txns>>

-----------------------------------------------------------------------------
(* The serial specification: every transaction reads the current row. *)

\* createPayment gives up only on an intent that is PENDING and has no order.
FailIntent(i) ==
  /\ status[i] = "PENDING" /\ i \notin orders
  /\ WriteCreateFailed(i)

\* Callers find the intent through its order row.
ApplyOutcome(i, p, gs) ==
  /\ i \in orders
  /\ \/ WriteMismatch(i, p, gs, status[i], NextAttemptNumber(i))
     \/ WriteProgress(i, p, gs, status[i], NextAttemptNumber(i))
     \/ WriteSettlement(i, p, gs, status[i], NextAttemptNumber(i))

\* The client chooses the payment id: nothing compares it with the intent's order.
ReportFailure(i, p) ==
  /\ i \in orders
  /\ WriteReport(i, p, NextAttemptNumber(i))

Expire(i) == i \in orders /\ WriteExpiry(i, status[i])

StoreNext ==
  \E i \in Intents :
    \/ InsertIntent(i)
    \/ status[i] = "PENDING" /\ InsertOrder(i)
    \/ FailIntent(i)
    \/ \E p \in PaymentsOf(i), gs \in GatewayStatuses : ApplyOutcome(i, p, gs)
    \/ \E p \in Payments \cup {NoPay} : ReportFailure(i, p)
    \/ Expire(i)

StoreSpec == StoreInit /\ [][StoreNext]_storeVars

\* createPayment giving up on an order that is stored all the same, because the
\* answer to its COMMIT was lost.  Nobody was given the order, but a sweep may
\* have found it and expired the intent: the UPDATE does not look.
FailLate(i) ==
  /\ status[i] \in {"PENDING", "EXPIRED"} /\ i \in orders
  /\ attempts[i] = {}
  /\ WriteCreateFailed(i)

LossyStoreNext == StoreNext \/ \E i \in Intents : FailLate(i)

\* The tables when acknowledgements may be lost: the serial specification and the
\* one step more that this adds.
LossyStoreSpec == StoreInit /\ [][LossyStoreNext]_storeVars

-----------------------------------------------------------------------------
(* Properties of the tables *)

\* Every table holds rows of its type.
StoreTypeOK ==
  /\ status \in [Intents -> States \cup {NoState}]
  /\ orders \subseteq Intents
  /\ attempts \in [Intents -> SUBSET AttemptRows]
  /\ txns \in [Intents -> SUBSET Payments]
  /\ history \in [Intents -> Seq([from : States \cup {NoState}, to : States])]

\* Money and status agree (no double transactions): an intent is COMPLETED iff it
\* has a transactions row, and then exactly one, of a payment of its own order
\* whose amount matches; and the SUCCEEDED attempts of the table are those of the
\* payments with a transaction, neither more nor fewer, under whichever intent a
\* client's report had filed the payment.
SettledOnce ==
  /\ \A i \in Intents :
       IF status[i] = "COMPLETED"
       THEN \E p \in Payments \ Mismatched : OrderOf[p] = i /\ txns[i] = {p}
       ELSE txns[i] = {}
  /\ {a.pay : a \in {b \in UNION {attempts[i] : i \in Intents} :
                        b.status = "SUCCEEDED"}}
       = UNION {txns[i] : i \in Intents}

\* The attempts of an intent are numbered 1, 2, 3... without a gap or a repeat,
\* whatever mix of webhooks and client reports produced them, and a gateway
\* payment has at most one of them, in the whole table.
AttemptsNumbered ==
  /\ \A i \in Intents : Numbers(i) = 1 .. Cardinality(attempts[i])
  /\ \A i, k \in Intents : \A a \in attempts[i], b \in attempts[k] :
       a.pay = b.pay /\ a.pay # NoPay => i = k /\ a = b

\* The audit trail is complete: it is a chain of legal transitions from nothing
\* to the status the intent has now.
HistoryTellsStatus ==
  \A i \in Intents :
    LET h == history[i] IN
    /\ IF h = <<>> THEN status[i] = NoState
       ELSE h[1] = Edge(NoState, "CREATED") /\ status[i] = h[Len(h)].to
    /\ \A n \in 2 .. Len(h) :
         h[n].from = h[n-1].to /\ CanTransition(h[n].from, h[n].to)

\* FAILED written over EXPIRED by a step that believes the intent PENDING.
LateFailure(h, n) == h[n-1].to = "EXPIRED" /\ h[n] = Edge("PENDING", "FAILED")

\* What is left of the audit trail when acknowledgements may be lost: it ends at
\* the status, every row is a legal transition, and each starts where the one
\* before it ended, but for a failure written late.
HistoryIsLegal ==
  \A i \in Intents :
    LET h == history[i] IN
    /\ IF h = <<>> THEN status[i] = NoState
       ELSE h[1] = Edge(NoState, "CREATED") /\ status[i] = h[Len(h)].to
    /\ \A n \in 2 .. Len(h) :
         /\ CanTransition(h[n].from, h[n].to)
         /\ h[n].from = h[n-1].to \/ LateFailure(h, n)

\* Expiry is a promise: an intent that the trail shows EXPIRED at any time is not
\* paid, not even when its status was overwritten since.
ExpiredIsNeverPaid ==
  \A i \in Intents :
    (\E n \in 1 .. Len(history[i]) : history[i][n].to = "EXPIRED") =>
      status[i] # "COMPLETED" /\ txns[i] = {}

\* Money is final, whatever is lost: a COMPLETED intent stays COMPLETED, and its
\* transaction row stays the only one.
PaidIsFinal ==
  [][\A i \in Intents : status[i] = "COMPLETED" =>
       status'[i] = "COMPLETED" /\ txns'[i] = txns[i]]_storeVars

\* CANCELLED, EXPIRED and COMPLETED are terminal: no step of any worker, however
\* stale what it read, changes a terminal status, nor the recorded transactions.
TerminalIsFinal ==
  [][\A i \in Intents : IsTerminal(status[i]) =>
       status'[i] = status[i] /\ txns'[i] = txns[i]]_storeVars

\* Attempt rows are never lost or renumbered, and what the gateway said of a
\* payment is never replaced by what a client reports of it.
AttemptsArePermanent ==
  [][\A i \in Intents : \A a \in attempts[i] : \E b \in attempts'[i] :
       /\ b.num = a.num /\ b.pay = a.pay
       /\ b.status = "CLIENT_REPORTED_FAILURE" => b.status = a.status]_storeVars

-----------------------------------------------------------------------------
(* The promise to the merchant: the tables implement PaymentLifecycle. *)

LifecyclePhase(st) ==
  CASE st = NoState     -> "absent"
    [] st = "FAILED"    -> "failed"
    [] st = "EXPIRED"   -> "expired"
    [] st = "COMPLETED" -> "paid"
    [] OTHER            -> "open"

Lifecycle == INSTANCE PaymentLifecycle
               WITH phase <- [i \in Intents |-> LifecyclePhase(status[i])],
                    paidBy <- txns

\* Seen from outside, an intent is opened, failed, expired and paid as
\* PaymentLifecycle allows: paid at most once, never after it expired, never by
\* a payment of another order or of another amount.
LifecycleSpec == Lifecycle!Spec
==============================================================================

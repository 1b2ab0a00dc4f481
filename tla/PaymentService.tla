--------------------------- MODULE PaymentService ---------------------------
(***************************************************************************)
(* services/paymentService.js running concurrently.                        *)
(*                                                                         *)
(* createPayment is one call per intent (the id is fresh) and is split at   *)
(* its awaits: first transaction, gateway call, up to three attempts to     *)
(* store the order, the FAILED transaction, the answer.                     *)
(*                                                                         *)
(* applyGatewayOutcome, reportClientFailure and expireStalePayment are      *)
(* transactions run by workers (webhook handlers, /verify requests,         *)
(* reconciliation sweeps, /failures requests).  A worker's job exists       *)
(* from SELECT ... FOR UPDATE to COMMIT or ROLLBACK, so the row lock of an   *)
(* intent is held iff some job names the intent.  The status is read with    *)
(* the lock, MAX(attempt_number) in a later statement, and the writes        *)
(* become visible together, at COMMIT.                                      *)
(*                                                                         *)
(* Time is abstracted: any stored order may be found stuck at any moment.   *)
(***************************************************************************)
EXTENDS PaymentStore

CONSTANTS Workers,      \* server-side executions that can hold a row lock
          NoJob,        \* a worker with no open transaction
          AckLoss,      \* may a COMMIT succeed and its answer be lost?
          MaxAttempts   \* bound: reports are taken below this many attempts

ASSUME ServiceAssumption ==
  /\ AckLoss \in BOOLEAN
  /\ MaxAttempts \in Nat

VARIABLES call,         \* call[i]: where createPayment of intent i is
          job           \* job[w]: the open transaction of worker w

vars == <<status, orders, attempts, txns, history, call, job>>

CallPoints == {"none", "ordering", "persisting", "failing", "responding",
               "returned", "threw", "crashed"}

\* retryWithBackoff of persistPaymentOrder: maxAttempts
PersistAttempts == 3

Jobs == [op : {"apply", "report", "expire"}, intent : Intents,
         pay : Payments \cup {NoPay}, gst : GatewayStatuses,
         read : States \cup {NoState}, next : Nat]

ASSUME NoJobAssumption == NoJob \notin Jobs

Init ==
  /\ StoreInit
  /\ call = [i \in Intents |-> [at |-> "none", tries |-> 0]]
  /\ job = [w \in Workers |-> NoJob]

-----------------------------------------------------------------------------
(* Row locks *)

\* No lock: what SELECT without FOR UPDATE would give.
RowFree_NoForUpdate(i) == i \in Intents

\* Nobody holds the row lock of i.
RowFree(i) == \A w \in Workers : job[w] # NoJob => job[w].intent # i

-----------------------------------------------------------------------------
(* createPayment *)

\* A call that moves on leaves its retry loop and that loop's counter.
Goto(i, point) == call' = [call EXCEPT ![i] = [at |-> point, tries |-> 0]]

BeginCreate(i) ==
  /\ call[i].at = "none"
  /\ InsertIntent(i)
  /\ Goto(i, "ordering")
  /\ UNCHANGED job

\* The first transaction fails, or never gets a client, and there is no intent; with
\* AckLoss it may have committed all the same.  No try surrounds it: createPayment
\* throws, and such an intent stays PENDING.
BeginCreateError(i) ==
  /\ call[i].at = "none"
  /\ \/ UNCHANGED storeVars
     \/ AckLoss /\ InsertIntent(i)
  /\ Goto(i, "threw")
  /\ UNCHANGED job

GatewayOrderCreated(i) ==
  /\ call[i].at = "ordering"
  /\ Goto(i, "persisting")
  /\ UNCHANGED <<storeVars, job>>

GatewayOrderRefused(i) ==
  /\ call[i].at = "ordering"
  /\ Goto(i, "failing")
  /\ UNCHANGED <<storeVars, job>>

\* The foreign key of payment_orders share-locks the intent row.
PersistOrder(i) ==
  /\ call[i].at = "persisting"
  /\ RowFree(i)
  /\ InsertOrder(i)
  /\ Goto(i, "responding")
  /\ UNCHANGED job

\* A retry loop that tests the attempt number with > instead of >=.
PersistOrderError_OneMore(i) ==
  /\ call[i].at = "persisting"
  /\ IF call[i].tries + 1 > PersistAttempts
     THEN Goto(i, "failing")
     ELSE call' = [call EXCEPT ![i].tries = @ + 1]
  /\ UNCHANGED <<storeVars, job>>

\* One attempt fails; with AckLoss the row may be there all the same.
PersistOrderError(i) ==
  /\ call[i].at = "persisting"
  /\ IF call[i].tries + 1 = PersistAttempts
     THEN Goto(i, "failing")
     ELSE call' = [call EXCEPT ![i].tries = @ + 1]
  /\ \/ UNCHANGED storeVars
     \/ AckLoss /\ RowFree(i) /\ InsertOrder(i)
  /\ UNCHANGED job

FailCreate(i) ==
  /\ call[i].at = "failing"
  /\ RowFree(i)
  /\ WriteCreateFailed(i)
  /\ Goto(i, "threw")
  /\ UNCHANGED job

\* The FAILED transaction itself fails: nothing catches that.
FailCreateError(i) ==
  /\ call[i].at = "failing"
  /\ Goto(i, "threw")
  /\ UNCHANGED <<storeVars, job>>

\* The try block of the order write stretched over the final read.
Respond_FailsIntent(i) ==
  /\ call[i].at = "responding"
  /\ Goto(i, "returned") \/ Goto(i, "failing")
  /\ UNCHANGED <<storeVars, job>>

\* findIntentById answers and the order reaches the caller, or it throws.
Respond(i) ==
  /\ call[i].at = "responding"
  /\ Goto(i, "returned") \/ Goto(i, "threw")
  /\ UNCHANGED <<storeVars, job>>

CreateInProgress(i) ==
  call[i].at \in {"ordering", "persisting", "failing", "responding"}

CrashCreate(i) ==
  /\ CreateInProgress(i)
  /\ Goto(i, "crashed")
  /\ UNCHANGED <<storeVars, job>>

-----------------------------------------------------------------------------
(* Transactions under the row lock *)

\* BEGIN; SELECT ... FOR UPDATE.  Waits until the row is free.
Lock(w, op, i, p, gs) ==
  /\ job[w] = NoJob
  /\ RowFree(i)
  /\ job' = [job EXCEPT ![w] = [op |-> op, intent |-> i, pay |-> p, gst |-> gs,
                                read |-> status[i], next |-> 0]]
  /\ UNCHANGED <<storeVars, call>>

\* A payment exists only on an order its customer was given, and the callers of
\* applyGatewayOutcome find the intent through the stored order.
BeginApply(w) ==
  \E i \in Intents : \E p \in PaymentsOf(i), gs \in GatewayStatuses :
    /\ call[i].at = "returned" /\ i \in orders
    /\ Lock(w, "apply", i, p, gs)

\* The caller of POST /payments/:id/failures knows the id from the 201, and names
\* any gateway payment, of this order or of another, or none.
BeginReport(w) ==
  \E i \in Intents : \E p \in Payments \cup {NoPay} :
    /\ call[i].at = "returned" /\ i \in orders
    /\ Cardinality(attempts[i]) < MaxAttempts
    /\ Lock(w, "report", i, p, "FAILED")

\* reconcileIntent has found the order and seen no gateway payment for it, some
\* time before this transaction.
BeginExpire(w) ==
  \E i \in Intents :
    /\ i \in orders
    /\ Lock(w, "expire", i, NoPay, "CREATED")

HasJob(w, op) == job[w] # NoJob /\ job[w].op = op

EndJob(w) == job' = [job EXCEPT ![w] = NoJob] /\ UNCHANGED call

\* nextAttemptNumber, a statement of its own inside the transaction.
CountAttempts(w) ==
  /\ \/ HasJob(w, "apply") /\ ~Ignored(job[w].read, job[w].gst)
     \/ HasJob(w, "report")
  /\ job[w].next = 0
  /\ job' = [job EXCEPT ![w].next = NextAttemptNumber(job[w].intent)]
  /\ UNCHANGED <<storeVars, call>>

Counted(w, op) == HasJob(w, op) /\ job[w].next # 0

CommitMismatch(w) ==
  LET j == job[w] IN
  /\ Counted(w, "apply")
  /\ WriteMismatch(j.intent, j.pay, j.gst, j.read, j.next)
  /\ EndJob(w)

CommitProgress(w) ==
  LET j == job[w] IN
  /\ Counted(w, "apply")
  /\ WriteProgress(j.intent, j.pay, j.gst, j.read, j.next)
  /\ EndJob(w)

CommitSettlement(w) ==
  LET j == job[w] IN
  /\ Counted(w, "apply")
  /\ WriteSettlement(j.intent, j.pay, j.gst, j.read, j.next)
  /\ EndJob(w)

CommitReport(w) ==
  LET j == job[w] IN
  /\ Counted(w, "report")
  /\ WriteReport(j.intent, j.pay, j.next)
  /\ EndJob(w)

CommitExpiry(w) ==
  LET j == job[w] IN
  /\ HasJob(w, "expire")
  /\ WriteExpiry(j.intent, j.read)
  /\ EndJob(w)

\* The early return of a no-op that leaves its transaction open.
CommitNothing_LeavesOpen(w) ==
  LET j == job[w] IN
  /\ \/ HasJob(w, "apply") /\ Ignored(j.read, j.gst)
     \/ HasJob(w, "expire") /\ ~Expirable(j.read)
     \/ Counted(w, "report") /\ j.pay # NoPay /\ Recorded(j.pay)
  /\ UNCHANGED vars

\* The early returns, and the duplicate report refused by the unique index
\* (23505), which answers with the attempt already there.
CommitNothing(w) ==
  LET j == job[w] IN
  /\ \/ HasJob(w, "apply") /\ Ignored(j.read, j.gst)
     \/ HasJob(w, "expire") /\ ~Expirable(j.read)
     \/ Counted(w, "report") /\ j.pay # NoPay /\ Recorded(j.pay)
  /\ EndJob(w)
  /\ UNCHANGED storeVars

\* An upsert that was given no client runs on a connection of its own: what it
\* wrote survives the ROLLBACK of the transaction around it.
Rollback_KeepsAttempt(w) ==
  LET j == job[w]
      to == TargetState(j.gst) IN
  /\ job[w] # NoJob
  /\ EndJob(w)
  /\ IF Counted(w, "apply") /\ ~IsMismatch(j.pay, j.gst)
     THEN attempts' = Upsert(j.intent, j.pay, to, j.next)
     ELSE UNCHANGED attempts
  /\ UNCHANGED <<status, orders, txns, history>>

\* A statement fails, the process dies or the connection breaks: ROLLBACK.
Rollback(w) ==
  /\ job[w] # NoJob
  /\ EndJob(w)
  /\ UNCHANGED storeVars

-----------------------------------------------------------------------------

CreateStep(i) ==
  \/ BeginCreate(i)
  \/ BeginCreateError(i)
  \/ GatewayOrderCreated(i)
  \/ GatewayOrderRefused(i)
  \/ PersistOrder(i)
  \/ PersistOrderError(i)
  \/ FailCreate(i)
  \/ FailCreateError(i)
  \/ Respond(i)
  \/ CrashCreate(i)

Begin(w) == BeginApply(w) \/ BeginReport(w) \/ BeginExpire(w)

\* The statements of an open transaction, in the order the handler issues them.
JobStep(w) ==
  \/ CountAttempts(w)
  \/ CommitMismatch(w)
  \/ CommitProgress(w)
  \/ CommitSettlement(w)
  \/ CommitReport(w)
  \/ CommitExpiry(w)
  \/ CommitNothing(w)

Next ==
  \/ \E i \in Intents : CreateStep(i)
  \/ \E w \in Workers : Begin(w) \/ JobStep(w) \/ Rollback(w)

Spec == Init /\ [][Next]_vars

-----------------------------------------------------------------------------
(* Properties *)

\* The tables, the createPayment calls and the open transactions stay within
\* their types: no call tries to persist its order more than three times.
TypeOK ==
  /\ StoreTypeOK
  /\ call \in [Intents -> [at : CallPoints, tries : 0 .. PersistAttempts - 1]]
  /\ job \in [Workers -> Jobs \cup {NoJob}]

\* SELECT ... FOR UPDATE does its work: at most one transaction is open per
\* intent, and what it read (the status, the next attempt number) is still what
\* the tables hold, whatever the other workers and createPayment did meanwhile.
NoStaleRead ==
  \A w \in Workers :
    LET j == job[w] IN
    j # NoJob =>
      /\ \A v \in Workers \ {w} : job[v] # NoJob => job[v].intent # j.intent
      /\ j.read = status[j.intent]
      /\ j.next # 0 => j.next = NextAttemptNumber(j.intent)

\* createPayment's comment and docs/failure-modes.md: a call that ends in an
\* error has moved its intent to FAILED, or reconciliation can find it by its
\* order; it is never an orphaned PENDING with no order row.
ErrorLeavesNoOrphan ==
  \A i \in Intents :
    call[i].at = "threw" => status[i] # "PENDING" \/ i \in orders
==============================================================================

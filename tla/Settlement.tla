----------------------------- MODULE Settlement -----------------------------
(***************************************************************************)
(* The three flows that carry gateway facts into the payment tables, with   *)
(* the gateway they carry them from: webhooks (webhookService.js),          *)
(* POST /verify (verifyPayment) and the reconciliation sweep                *)
(* (reconciliationService.js, paymentWorker.js).                            *)
(*                                                                         *)
(* Each transaction on the payment tables is one step of PaymentStore, as   *)
(* PaymentService is shown to implement it.  What a flow learnt from the    *)
(* gateway before its transaction (an event's payload, the payment fetched  *)
(* by /verify, a sweep's candidates and the decision on one) is state of    *)
(* its own, and may be out of date when the transaction runs.               *)
(***************************************************************************)
EXTENDS PaymentStore, WebhookInbox

CONSTANTS Sweepers,     \* reconciliation sweeps that can run at once
          Window,       \* the LIMIT of findStuckIntents
          Nothing,      \* a sweep with no decision to write
          Faults,       \* may handlers die and statements or fetches fail?
          Refunds       \* payments whose capture is refunded at the gateway

ASSUME SettlementAssumption ==
  /\ Faults \in BOOLEAN /\ Refunds \subseteq Payments /\ Window \in Nat \ {0}
  /\ \A e \in Events : e.kind = "payment" =>
       e.pay \in Payments /\ e.gst \in {"AUTHORIZED", "CAPTURED", "FAILED"}

VARIABLES gw,           \* gw[p]: the gateway's status of p, NoState before it
          fetched,      \* fetched[p]: what /verify fetched and will apply
          aged,         \* aged[i]: the cutoffs updated_at of i lies behind
          older,        \* older[i]: scanned intents with an earlier updated_at
          todo,         \* todo[s]: the rest of sweep s's candidates
          found         \* found[s]: the repair sweep s is about to write

ageVars == <<aged, older>>
sweepVars == <<todo, found>>
vars == <<status, orders, attempts, txns, history, inbox, handler, acked,
          gw, fetched, aged, older, todo, found>>

\* The states reconciliation scans, each with a cutoff of its own.
Stuckable == {"PENDING", "PROCESSING"}

Candidates == [intent : Intents, ripe : BOOLEAN]

Repairs == [outcome : {"SUCCESS", "FAILED", "NO_ATTEMPT"}, intent : Intents,
            pay : Payments \cup {NoPay}]

Init ==
  /\ StoreInit
  /\ InboxInit
  /\ gw = [p \in Payments |-> NoState]
  /\ fetched = [p \in Payments |-> NoState]
  /\ aged = [i \in Intents |-> {}]
  /\ older = [i \in Intents |-> {}]
  /\ todo = [s \in Sweepers |-> {}]
  /\ found = [s \in Sweepers |-> Nothing]

\* updateIntentStatus sets updated_at = now(): behind no cutoff, and after that
\* of every other intent.  Only intents in a scanned state are kept in order.
Touch ==
  LET moved == {i \in Intents : status'[i] # status[i]} IN
  /\ aged' = [i \in Intents |-> IF i \in moved THEN {} ELSE aged[i]]
  /\ older' = [i \in Intents |->
       IF i \in moved
       THEN {j \in Intents \ moved : {status'[i], status[j]} \subseteq Stuckable}
       ELSE older[i] \ moved]

-----------------------------------------------------------------------------
(* The gateway (external) and the clock *)

\* A customer pays an order that was handed out, or the payment moves on.
GatewayMoves(p) ==
  /\ \/ /\ gw[p] = NoState /\ OrderOf[p] \in orders
        /\ gw' = [gw EXCEPT ![p] = "CREATED"]
     \/ /\ gw[p] = "CREATED"
        /\ \E st \in {"AUTHORIZED", "FAILED"} : gw' = [gw EXCEPT ![p] = st]
     \/ /\ gw[p] = "AUTHORIZED"
        /\ gw' = [gw EXCEPT ![p] = "CAPTURED"]
     \/ /\ p \in Refunds /\ gw[p] = "CAPTURED"
        /\ gw' = [gw EXCEPT ![p] = "REFUNDED"]
  /\ UNCHANGED <<storeVars, inboxVars, fetched, ageVars, sweepVars>>

\* p has been in status st at the gateway.
Reached(p, st) ==
  CASE st = "AUTHORIZED" -> gw[p] \in {"AUTHORIZED", "CAPTURED", "REFUNDED"}
    [] st = "CAPTURED"   -> gw[p] \in {"CAPTURED", "REFUNDED"}
    [] OTHER             -> gw[p] = st

\* The clock passes the PENDING or the PROCESSING cutoff of i, as it has passed
\* that of all earlier updates.
TimePasses(i, cutoff) ==
  /\ status[i] \in Stuckable /\ cutoff \notin aged[i]
  /\ \A j \in older[i] : cutoff \in aged[j]
  /\ aged' = [aged EXCEPT ![i] = @ \cup {cutoff}]
  /\ UNCHANGED <<storeVars, inboxVars, gw, fetched, older, sweepVars>>

-----------------------------------------------------------------------------
(* createPayment *)

CreateStep(i) ==
  /\ \/ InsertIntent(i)
     \/ status[i] = "PENDING" /\ i \notin orders /\ InsertOrder(i)
     \/ FailIntent(i)
  /\ Touch
  /\ UNCHANGED <<inboxVars, gw, fetched, sweepVars>>

-----------------------------------------------------------------------------
(* Webhooks *)

\* applyGatewayOutcome, or its early returns.
ApplyOrIgnore(i, p, gs) ==
  /\ \/ ApplyOutcome(i, p, gs)
     \/ Ignored(status[i], gs) /\ UNCHANGED storeVars
  /\ Touch

\* An event is sent when its payment has the status it carries; one that names no
\* payment of ours, at any time.
DeliverEvent(e) ==
  /\ e.pay \in Payments => Reached(e.pay, e.gst)
  /\ Receive(e) \/ Redeliver(e)
  /\ UNCHANGED <<storeVars, gw, fetched, ageVars, sweepVars>>

ProcessEvent(e) ==
  /\ Processed(e)
  /\ ApplyOrIgnore(OrderOf[e.pay], e.pay, e.gst)
  /\ UNCHANGED <<gw, fetched, sweepVars>>

FinishEvent(e) ==
  /\ HandlerStep(e)
  /\ UNCHANGED <<storeVars, gw, fetched, ageVars, sweepVars>>

\* An error marks the event FAILED, even one thrown after the outcome was committed.
EventFault(e) ==
  /\ Faults
  /\ HandlerError(e) \/ HandlerDies(e)
  /\ UNCHANGED <<storeVars, gw, fetched, ageVars, sweepVars>>

-----------------------------------------------------------------------------
(* POST /payments/:id/verify *)

\* Taking the status the client asserts for the one the gateway reports.
VerifyFetch_TrustsClient(p) ==
  /\ gw[p] \in {"AUTHORIZED", "CAPTURED", "REFUNDED"} /\ fetched[p] = NoState
  /\ fetched' = [fetched EXCEPT ![p] = "CAPTURED"]
  /\ UNCHANGED <<storeVars, inboxVars, gw, ageVars, sweepVars>>

\* Checkout signs a payment that was at least authorized; the status applied is
\* the one fetched from the gateway.
VerifyFetch(p) ==
  /\ gw[p] \in {"AUTHORIZED", "CAPTURED", "REFUNDED"} /\ fetched[p] = NoState
  /\ fetched' = [fetched EXCEPT ![p] = gw[p]]
  /\ UNCHANGED <<storeVars, inboxVars, gw, ageVars, sweepVars>>

VerifyApply(p) ==
  /\ fetched[p] # NoState
  /\ ApplyOrIgnore(OrderOf[p], p, fetched[p])
  /\ fetched' = [fetched EXCEPT ![p] = NoState]
  /\ UNCHANGED <<inboxVars, gw, sweepVars>>

VerifyFault(p) ==
  /\ Faults /\ fetched[p] # NoState
  /\ fetched' = [fetched EXCEPT ![p] = NoState]
  /\ UNCHANGED <<storeVars, inboxVars, gw, ageVars, sweepVars>>

-----------------------------------------------------------------------------
(* The reconciliation sweep *)

At(i, st) == {p \in PaymentsOf(i) : gw[p] = st}

\* pickAuthoritativeOutcome: a capture, else an authorization, else a failure;
\* payments that are only created, or refunded, count as no attempt.
PickAuthoritativeOutcome(i) ==
  IF At(i, "CAPTURED") # {} THEN "SUCCESS"
  ELSE IF At(i, "AUTHORIZED") # {} THEN "UNKNOWN"
  ELSE IF At(i, "FAILED") # {} THEN "FAILED"
  ELSE "NO_ATTEMPT"

Idle(s) == todo[s] = {} /\ found[s] = Nothing

\* findStuckIntents, once for each status: intents behind their cutoff, the
\* Window that were updated first.
StuckIntents ==
  LET stuck == {i \in Intents : status[i] \in Stuckable /\ status[i] \in aged[i]}
  IN  {i \in stuck :
         Cardinality({j \in older[i] \cap stuck : status[j] = status[i]}) < Window}

\* runReconciliationSweep reads its candidates, each with the updated_at it has now;
\* ripe is whether that lies behind abandonedAfterMs, which is the PENDING cutoff.
StartSweep(s) ==
  /\ Idle(s)
  /\ StuckIntents # {}
  /\ todo' = [todo EXCEPT ![s] =
                {[intent |-> i, ripe |-> "PENDING" \in aged[i]] : i \in StuckIntents}]
  /\ UNCHANGED <<storeVars, inboxVars, gw, fetched, ageVars, found>>

NextCandidate(s, c) ==
  /\ c \in todo[s] /\ found[s] = Nothing
  /\ todo' = [todo EXCEPT ![s] = @ \ {c}]
  /\ UNCHANGED <<storeVars, inboxVars, gw, fetched, ageVars>>

\* The candidate's updated_at lies behind abandonedAfterMs: it did at the scan, or
\* the clock has passed that cutoff since.
Ripe(c) == c.ripe \/ "PENDING" \in aged[c.intent]

Decide(s, i, outcome, p) ==
  found' = [found EXCEPT ![s] = [outcome |-> outcome, intent |-> i, pay |-> p]]

\* The switch without its UNKNOWN case: an authorization is repaired like the rest.
ReconcileRepair_Unknown(s, c) ==
  LET i == c.intent
      outcome == PickAuthoritativeOutcome(i) IN
  /\ NextCandidate(s, c)
  /\ i \in orders
  /\ \E p \in PaymentsOf(i) : Decide(s, i, outcome, p)

\* reconcileIntent up to its decision: the gateway's payments of the order are
\* fetched here, and the repair is written by a later transaction.
ReconcileRepair(s, c) ==
  LET i == c.intent
      outcome == PickAuthoritativeOutcome(i) IN
  /\ NextCandidate(s, c)
  /\ i \in orders
  /\ \/ /\ outcome = "SUCCESS"
        /\ \E p \in At(i, "CAPTURED") : Decide(s, i, outcome, p)
     \/ /\ outcome = "FAILED"
        /\ \E p \in At(i, "FAILED") : Decide(s, i, outcome, p)
     \/ /\ outcome = "NO_ATTEMPT" /\ Ripe(c)
        /\ Decide(s, i, outcome, NoPay)

\* Left for a later pass: no order row, an authorization, or too recent.
ReconcileSkip(s, c) ==
  LET outcome == PickAuthoritativeOutcome(c.intent) IN
  /\ NextCandidate(s, c)
  /\ \/ c.intent \notin orders
     \/ outcome = "UNKNOWN"
     \/ outcome = "NO_ATTEMPT" /\ ~Ripe(c)
  /\ UNCHANGED found

\* An abandoned payment reported and left as it is.
Repair_NeverExpires(s) ==
  LET r == found[s] IN
  /\ r # Nothing
  /\ \/ /\ r.outcome = "SUCCESS"
        /\ ApplyOrIgnore(r.intent, r.pay, "CAPTURED")
     \/ /\ r.outcome = "FAILED"
        /\ ApplyOrIgnore(r.intent, r.pay, "FAILED")
     \/ /\ r.outcome = "NO_ATTEMPT"
        /\ UNCHANGED <<storeVars, ageVars>>
  /\ found' = [found EXCEPT ![s] = Nothing]
  /\ UNCHANGED <<inboxVars, gw, fetched, todo>>

\* The transaction of the repair: applyGatewayOutcome or expireStalePayment.
Repair(s) ==
  LET r == found[s] IN
  /\ r # Nothing
  /\ \/ /\ r.outcome = "SUCCESS"
        /\ ApplyOrIgnore(r.intent, r.pay, "CAPTURED")
     \/ /\ r.outcome = "FAILED"
        /\ ApplyOrIgnore(r.intent, r.pay, "FAILED")
     \/ /\ r.outcome = "NO_ATTEMPT"
        /\ \/ Expire(r.intent)
           \/ ~Expirable(status[r.intent]) /\ UNCHANGED storeVars
        /\ Touch
  /\ found' = [found EXCEPT ![s] = Nothing]
  /\ UNCHANGED <<inboxVars, gw, fetched, todo>>

\* A fetch or a repair throws: the sweep logs it and goes on.
ReconcileError(s) ==
  /\ Faults
  /\ \/ \E c \in todo[s] : NextCandidate(s, c) /\ UNCHANGED found
     \/ /\ found[s] # Nothing
        /\ found' = [found EXCEPT ![s] = Nothing]
        /\ UNCHANGED <<storeVars, inboxVars, gw, fetched, ageVars, todo>>

\* The worker is stopped or dies: the rest of its sweep is forgotten.
WorkerDies(s) ==
  /\ Faults /\ ~Idle(s)
  /\ todo' = [todo EXCEPT ![s] = {}]
  /\ found' = [found EXCEPT ![s] = Nothing]
  /\ UNCHANGED <<storeVars, inboxVars, gw, fetched, ageVars>>

Reconcile(s, i) ==
  \E c \in Candidates :
    c.intent = i /\ (ReconcileRepair(s, c) \/ ReconcileSkip(s, c))

-----------------------------------------------------------------------------

Next ==
  \/ \E p \in Payments :
       GatewayMoves(p) \/ VerifyFetch(p) \/ VerifyApply(p) \/ VerifyFault(p)
  \/ \E i \in Intents : CreateStep(i) \/ \E c \in Stuckable : TimePasses(i, c)
  \/ \E e \in Events :
       DeliverEvent(e) \/ ProcessEvent(e) \/ FinishEvent(e) \/ EventFault(e)
  \/ \E s \in Sweepers :
       StartSweep(s) \/ (\E i \in Intents : Reconcile(s, i)) \/ Repair(s)
       \/ ReconcileError(s) \/ WorkerDies(s)

Spec == Init /\ [][Next]_vars

\* setInterval keeps starting sweeps, and the clock passes the cutoffs; what a
\* sweep does with an intent is, when tried again and again, at some time neither
\* killed nor refused.
SweepFairness ==
  /\ \A i \in Intents, c \in Stuckable : WF_vars(TimePasses(i, c))
  /\ \A s \in Sweepers :
       /\ WF_vars(StartSweep(s))
       /\ \A i \in Intents :
            /\ SF_vars(Reconcile(s, i))
            /\ SF_vars(found[s] # Nothing /\ found[s].intent = i /\ Repair(s))

\* The gateway delivers every payment's event, and its handler runs on.
WebhookFairness ==
  \A e \in {x \in Events : x.kind = "payment"} :
    WF_vars(DeliverEvent(e) \/ ProcessEvent(e) \/ FinishEvent(e))

SweptSpec == Spec /\ SweepFairness

DeliveredSpec == Spec /\ WebhookFairness

-----------------------------------------------------------------------------
(* Properties *)

\* The flows' own state keeps its types, and the tables theirs.
TypeOK ==
  /\ StoreTypeOK /\ InboxTypeOK
  /\ gw \in [Payments -> GatewayStatuses \cup {NoState}]
  /\ fetched \in [Payments -> GatewayStatuses \cup {NoState}]
  /\ aged \in [Intents -> SUBSET Stuckable]
  /\ older \in [Intents -> SUBSET Intents]
  /\ todo \in [Sweepers -> SUBSET Candidates]
  /\ found \in [Sweepers -> Repairs \cup {Nothing}]

\* The tables say only what the gateway has said, whichever flow brought it and
\* however late: PROCESSING, FAILED and COMPLETED intents have a payment that was
\* authorized, failed or captured, and the transaction is of a captured one.
StatusIsAuthoritative ==
  \A i \in Intents :
    LET Once(st) == \E p \in PaymentsOf(i) : Reached(p, st) IN
    /\ status[i] = "PROCESSING" => Once("AUTHORIZED")
    /\ status[i] = "FAILED" /\ i \in orders => Once("FAILED")
    /\ \A p \in txns[i] : Reached(p, "CAPTURED")

\* PROCESSED is said only of an event whose outcome is in the tables for good:
\* processing it again, now, would change neither status nor transactions.
ProcessedIsAbsorbed ==
  \A e \in Events :
    inbox[e] = "PROCESSED" /\ e.kind = "payment" =>
      LET i == OrderOf[e.pay] IN
      \/ Ignored(status[i], e.gst)
      \/ IsMismatch(e.pay, e.gst) /\ Recorded(e.pay)

\* With webhooks, a matching capture settles its intent in the end, even one that
\* had FAILED before, however /verify, the sweep and the other events interfere:
\* unless the intent has expired or the handler of the capture failed.
CaptureSettlesOrExpires ==
  \A e \in Events :
    e.kind = "payment" /\ e.gst = "CAPTURED" /\ e.pay \notin Mismatched =>
      (Reached(e.pay, "CAPTURED") ~>
         Lost(e) \/ status[OrderOf[e.pay]] \in {"COMPLETED", "EXPIRED"})

\* Only the merchant can judge: no order of ours, an authorization that is not
\* captured, or a capture of the wrong amount.
Undecidable(i) ==
  \/ i \notin orders
  \/ \E p \in PaymentsOf(i) :
       gw[p] = "AUTHORIZED" \/ (gw[p] = "CAPTURED" /\ p \in Mismatched)

\* Undecidable intents that were updated before i fill the LIMIT of its scan.
Crowded(i) ==
  Window <= Cardinality({j \in older[i] : status[j] = status[i] /\ Undecidable(j)})

\* Nothing the sweep may judge stays stuck: with no webhook at all, an intent
\* that has its order leaves PENDING and PROCESSING, or is for ever undecidable
\* or crowded out by such intents.
StuckIsResolved ==
  \A i \in Intents :
    i \in orders ~>
      status[i] \notin Stuckable \/ [](Undecidable(i) \/ Crowded(i))

\* docs/failure-modes.md, and runReconciliationSweep's comment (reconciles each
\* one): an intent whose payment is captured while it is PENDING or PROCESSING is
\* found by the sweep and finalized.
StuckCaptureIsFinalized ==
  \A p \in Payments \ Mismatched :
    gw[p] = "CAPTURED" ~> status[OrderOf[p]] \notin Stuckable

\* reconcileIntent's comment (never guesses, leaves an in-flight state untouched)
\* and expireStalePayment's: no intent expires while the gateway holds an
\* authorized or captured payment of its order.
ExpiresOnlyUnpaid ==
  [][\A i \in Intents :
       status[i] # "EXPIRED" /\ status'[i] = "EXPIRED" =>
         At(i, "AUTHORIZED") \cup At(i, "CAPTURED") = {}]_vars
==============================================================================

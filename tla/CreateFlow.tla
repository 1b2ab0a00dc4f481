----------------------------- MODULE CreateFlow -----------------------------
(***************************************************************************)
(* POST /payments from end to end: the idempotency middleware, the          *)
(* controller, createPayment and gatewayService.createOrder under           *)
(* retryWithBackoff.  Idempotency and PaymentService each model a part and  *)
(* leave the other open; here the request that owns a key runs the          *)
(* createPayment whose end the middleware waits for.                        *)
(*                                                                         *)
(* A request runs createPayment at most once, so the intent it creates has  *)
(* the request's name.  Webhooks, /verify, /failures and sweeps run on as    *)
(* the workers of PaymentService, and the middleware knows nothing of them:  *)
(* it replays the response it stored, whatever the intent has become.       *)
(***************************************************************************)
EXTENDS Idempotency, Naturals

CONSTANTS MaxTries,     \* retryWithBackoff of gateway calls: maxAttempts
          AckLoss, Workers, NoJob, MaxAttempts,             \* of PaymentService
          Payments, NoPay, OrderOf, Mismatched              \* of PaymentStore

ASSUME FlowAssumption == MaxTries \in Nat \ {0}

VARIABLES status, orders, attempts, txns, history, call, job,  \* of PaymentService
          tries         \* tries[r]: createOrder calls of r that failed

payVars == <<status, orders, attempts, txns, history, call, job>>
flowVars == <<record, at, row, seen, answer, status, orders, attempts, txns,
              history, call, job, tries>>

Pay == INSTANCE PaymentService WITH Intents <- Requests

FlowInit ==
  /\ Init
  /\ Pay!Init
  /\ tries = [r \in Requests |-> 0]

-----------------------------------------------------------------------------
(* gatewayService.createOrder *)

\* What a gateway call can end in: a 4xx other than 429; 429; 5xx; a network
\* error or timeout; anything else.
Errors == {"rejected", "throttled", "unavailable", "network", "unknown"}

\* classify: only a rejection is permanent.
Retryable(err) == err # "rejected"

GatewayAnswers(r) ==
  /\ Pay!GatewayOrderCreated(r)
  /\ tries' = [tries EXCEPT ![r] = 0]

\* The loop's bound tested with > where the code has >=.
GatewayRetries_OneMore(r, err) ==
  /\ call[r].at = "ordering"
  /\ Retryable(err) /\ tries[r] + 1 <= MaxTries
  /\ tries' = [tries EXCEPT ![r] = @ + 1]
  /\ UNCHANGED payVars

\* A loop whose count starts again when it is used up.
GatewayRetries_Recounts(r, err) ==
  /\ call[r].at = "ordering"
  /\ Retryable(err)
  /\ tries' = [tries EXCEPT ![r] = (@ + 1) % MaxTries]
  /\ UNCHANGED payVars

\* retryWithBackoff: a transient error, and attempts left.
GatewayRetries(r, err) ==
  /\ call[r].at = "ordering"
  /\ Retryable(err) /\ tries[r] + 1 < MaxTries
  /\ tries' = [tries EXCEPT ![r] = @ + 1]
  /\ UNCHANGED payVars

\* The error thrown on as it came, past the handler that fails the intent.
GatewayGivesUp_Rethrows(r, err) ==
  /\ call[r].at = "ordering"
  /\ ~Retryable(err) \/ tries[r] + 1 = MaxTries
  /\ call' = [call EXCEPT ![r].at = "threw"]
  /\ tries' = [tries EXCEPT ![r] = 0]
  /\ UNCHANGED <<status, orders, attempts, txns, history, job>>

\* A permanent error, or the last attempt.
GatewayGivesUp(r, err) ==
  /\ ~Retryable(err) \/ tries[r] + 1 = MaxTries
  /\ Pay!GatewayOrderRefused(r)
  /\ tries' = [tries EXCEPT ![r] = 0]

GatewayCall(r) ==
  \/ GatewayAnswers(r)
  \/ \E err \in Errors : GatewayRetries(r, err) \/ GatewayGivesUp(r, err)

\* The rest of createPayment.
DatabaseCall(r) ==
  /\ \/ Pay!BeginCreate(r) \/ Pay!BeginCreateError(r)
     \/ Pay!PersistOrder(r) \/ Pay!PersistOrderError(r)
     \/ Pay!FailCreate(r) \/ Pay!FailCreateError(r) \/ Pay!Respond(r)
  /\ UNCHANGED tries

-----------------------------------------------------------------------------
(* The controller *)

\* createPayment runs inside the claim.
CreateRuns(r) ==
  /\ at[r] = "working"
  /\ GatewayCall(r) \/ DatabaseCall(r)
  /\ UNCHANGED vars

\* An error answered with the intent all the same.
CreateEnds_Swallows(r) ==
  /\ at[r] = "working" /\ call[r].at \in {"returned", "threw"}
  /\ Goto(r, "completing")
  /\ UNCHANGED <<record, row, seen, answer, payVars, tries>>

\* An error that ends the request without releasing its key.
CreateEnds_KeepsKey(r) ==
  /\ at[r] = "working"
  /\ \/ call[r].at = "returned" /\ Goto(r, "completing")
     \/ call[r].at = "threw" /\ Goto(r, "failed")
  /\ UNCHANGED <<record, row, seen, answer, payVars, tries>>

\* create: a result is completed, an error releases the key.
CreateEnds(r) ==
  /\ Work(r)
  /\ \/ call[r].at = "returned" /\ at'[r] = "completing"
     \/ call[r].at = "threw" /\ at'[r] = "releasing"
  /\ UNCHANGED <<payVars, tries>>

\* The process dies, and createPayment with it.
Dies(r) ==
  /\ Crash(r)
  /\ \/ Pay!CrashCreate(r)
     \/ ~Pay!CreateInProgress(r) /\ UNCHANGED payVars
  /\ tries' = [tries EXCEPT ![r] = 0]

KeyOnly(r) == (KeyStep(r) \/ StatementError(r)) /\ UNCHANGED <<payVars, tries>>

FlowStep(r) == KeyOnly(r) \/ CreateRuns(r) \/ CreateEnds(r)

\* A webhook, /verify, /failures or a sweep at work on some intent.
WorkerRuns(w) ==
  /\ Pay!Begin(w) \/ Pay!JobStep(w) \/ Pay!Rollback(w)
  /\ UNCHANGED <<vars, tries>>

FlowNext ==
  \/ \E k \in Keys : Age(k) /\ UNCHANGED <<payVars, tries>>
  \/ \E r \in Requests : FlowStep(r) \/ Dies(r)
  \/ \E w \in Workers : WorkerRuns(w)

FlowSpec == FlowInit /\ [][FlowNext]_flowVars

\* Handlers run on, the gateway and the database answer or refuse, clients
\* re-send, and the clock does not stop.
FlowFairSpec ==
  /\ FlowSpec
  /\ \A r \in Requests : WF_flowVars(FlowStep(r))
  /\ \A k \in Keys : WF_flowVars(Age(k) /\ UNCHANGED <<payVars, tries>>)

-----------------------------------------------------------------------------

\* The key's side and the createPayment calls keep their types (the tables have
\* those of PaymentService, which the flow implements): neither loop of retries
\* goes past its bound.
FlowTypeOK ==
  /\ TypeOK
  /\ call \in [Requests -> [at : Pay!CallPoints, tries : 0 .. Pay!PersistAttempts - 1]]
  /\ tries \in [Requests -> 0 .. MaxTries - 1]

\* docs/api.md (retry with the same key is safe): a 201, replayed or not, names an
\* intent that is stored with its order, by a call that returned.  It may have moved
\* on since; but createPayment never gave it up: if it is FAILED, the gateway has
\* spoken of a payment of its order.
AnsweredWasCreated ==
  \A r \in Requests : answer[r] # Nobody =>
    LET i == answer[r] IN
    /\ call[i].at = "returned" /\ i \in orders /\ status[i] # Pay!NoState
    /\ status[i] = "FAILED" => \E p \in Pay!PaymentsOf(i) : Pay!Recorded(p)

\* i has its row, and its order is in a customer's hands or may yet get there: its
\* request is at work, or some 201 names it.
Live(i) ==
  /\ status[i] # Pay!NoState
  /\ at[i] \in {"working", "completing"} \/ \E r \in Requests : answer[r] = i

\* A key has one intent that can be paid or was: others are of requests that died
\* or failed and are named by no answer, whatever died, failed or was retried
\* between the two tables.
OneLiveIntentPerKey ==
  \A i, j \in Requests :
    KeyOf[i] = KeyOf[j] /\ Live(i) /\ Live(j) => i = j

\* A request that has its key gets an answer: the retries of createPayment end.
EveryCallEnds ==
  \A r \in Requests : at[r] = "working" ~> at[r] # "working"

\* The middleware sees of createPayment what Idempotency assumes.
FlowImplementsIdempotency == Spec

\* createPayment runs as PaymentService says, once per claim.
FlowImplementsService == Pay!Spec
==============================================================================

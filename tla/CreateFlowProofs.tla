-------------------------- MODULE CreateFlowProofs --------------------------
(***************************************************************************)
(* POST /payments from end to end, for any number of requests, keys and     *)
(* bodies.  The composition refines its two parts; and together they keep   *)
(* what neither promises alone: an answered key names an intent created in  *)
(* full, and no key has two intents in use.                                 *)
(***************************************************************************)
EXTENDS CreateFlow, Sequences, IdempotencyProofs

-----------------------------------------------------------------------------
(* Refinement *)

\* A step of the flow is a step of the middleware, or one it does not see.
LEMMA FlowStepIsKeyStep ==
  ASSUME [FlowNext]_flowVars
  PROVE  [Next]_vars
<1>1. ASSUME NEW k \in Keys, Age(k)
      PROVE  [Next]_vars
  BY <1>1 DEF Next
<1>2. ASSUME NEW r \in Requests, FlowStep(r) \/ Dies(r)
      PROVE  [Next]_vars
  BY <1>2 DEF FlowStep, KeyOnly, CreateRuns, CreateEnds, Dies, Next, Step
<1>3. CASE UNCHANGED flowVars
  BY <1>3 DEF flowVars, vars
<1> QED
  BY <1>1, <1>2, <1>3 DEF FlowNext, WorkerRuns

\* The controller and createPayment end a claim the way the middleware expects.
THEOREM FlowRefinesIdempotency == FlowSpec => FlowImplementsIdempotency
<1>1. FlowInit => Init
  BY DEF FlowInit
<1>2. [FlowNext]_flowVars => [Next]_vars
  BY FlowStepIsKeyStep
<1> QED
  BY <1>1, <1>2, PTL DEF FlowSpec, FlowImplementsIdempotency, Spec

\* A step of the flow is a step of the request's createPayment call, or of a worker,
\* or leaves the payment side alone.
LEMMA FlowStepIsServiceStep ==
  ASSUME [FlowNext]_flowVars
  PROVE  [Pay!Next]_(Pay!vars)
<1>1. CASE UNCHANGED payVars
  BY <1>1 DEF payVars, Pay!vars
<1>2. ASSUME NEW r \in Requests, CreateRuns(r), ~UNCHANGED payVars
      PROVE  Pay!CreateStep(r)
  BY <1>2 DEF CreateRuns, GatewayCall, DatabaseCall, GatewayAnswers, GatewayRetries,
              GatewayGivesUp, Pay!CreateStep
<1>3. ASSUME NEW r \in Requests, Dies(r), ~UNCHANGED payVars
      PROVE  Pay!CreateStep(r)
  BY <1>3 DEF Dies, Pay!CreateStep
<1>4. ASSUME NEW r \in Requests, Pay!CreateStep(r)
      PROVE  Pay!Next
  BY <1>4 DEF Pay!Next
<1>5. CASE UNCHANGED flowVars
  BY <1>1, <1>5 DEF flowVars, payVars
<1>6. ASSUME NEW w \in Workers, WorkerRuns(w)
      PROVE  Pay!Next
  BY <1>6 DEF WorkerRuns, Pay!Next
<1> QED
  BY <1>1, <1>2, <1>3, <1>4, <1>5, <1>6 DEF FlowNext, FlowStep, KeyOnly, CreateEnds

\* Inside the claims, createPayment behaves as PaymentService specifies.
THEOREM FlowRefinesService == FlowSpec => FlowImplementsService
<1>1. FlowInit => Pay!Init
  BY DEF FlowInit
<1>2. [FlowNext]_flowVars => [Pay!Next]_(Pay!vars)
  BY FlowStepIsServiceStep
<1> QED
  BY <1>1, <1>2, PTL DEF FlowSpec, FlowImplementsService, Pay!Spec

-----------------------------------------------------------------------------
(* createPayment and the workers *)

Calls == [at : Pay!CallPoints, tries : Nat]

CallTypes ==
  /\ call \in [Requests -> Calls]
  /\ status \in [Requests -> Pay!States \cup {Pay!NoState}]
  /\ orders \subseteq Requests

\* The gateway has spoken of a payment of i's order.
HeardOf(i) == \E p \in Pay!PaymentsOf(i) : Pay!Recorded(p)

\* An intent has its row from the first step of its call, and is FAILED only by its
\* call or by its gateway; a call that returns has stored the order.
CallKnown(i) ==
  /\ call[i].at = "none" => status[i] = Pay!NoState
  /\ call[i].at \in {"ordering", "persisting", "responding"} => status[i] # Pay!NoState
  /\ call[i].at \in {"responding", "returned"} => i \in orders
  /\ i \in orders => status[i] # Pay!NoState
  /\ status[i] = "FAILED" => call[i].at = "threw" \/ HeardOf(i)

CallsKnown == \A i \in Requests : CallKnown(i)

\* Rows of payment_attempts have their three columns.
Shaped(A) ==
  /\ A = [k \in Requests |-> A[k]]
  /\ \A k \in Requests : \A a \in A[k] :
       a = [num |-> a.num, pay |-> a.pay, status |-> a.status]

\* A worker has locked an intent with an order; an outcome is of that order.
JobKnown(w) ==
  LET j == job[w] IN
  j # NoJob =>
    /\ j = [op |-> j.op, intent |-> j.intent, pay |-> j.pay, gst |-> j.gst,
            read |-> j.read, next |-> j.next]
    /\ j.intent \in orders
    /\ j.op = "apply" => j.pay \in Pay!PaymentsOf(j.intent)

JobsKnown ==
  /\ job = [w \in Workers |-> job[w]]
  /\ \A w \in Workers : JobKnown(w)

PayKnown == CallTypes /\ CallsKnown /\ Shaped(attempts) /\ JobsKnown

\* A call moves alone, keeps what is known of it, and is over when it returns.
LEMMA CallMoves ==
  ASSUME PayKnown, NEW r \in Requests, Pay!CreateStep(r)
  PROVE  /\ PayKnown'
         /\ \A i \in Requests \ {r} : call'[i] = call[i]
         /\ call[r].at # "returned"
<1>1. attempts' = attempts /\ job' = job /\ orders \subseteq orders'
  BY DEF Pay!CreateStep, Pay!BeginCreate, Pay!InsertIntent, Pay!BeginCreateError,
         Pay!GatewayOrderCreated, Pay!GatewayOrderRefused,
         Pay!PersistOrder, Pay!PersistOrderError, Pay!InsertOrder, Pay!FailCreate,
         Pay!WriteCreateFailed, Pay!FailCreateError, Pay!Respond, Pay!CrashCreate,
         Pay!storeVars
<1>2. Shaped(attempts)' /\ JobsKnown'
  BY <1>1 DEF PayKnown, Shaped, JobsKnown, JobKnown
<1>3. \A i : HeardOf(i)' <=> HeardOf(i)
  BY <1>1 DEF HeardOf, Pay!Recorded
<1> SUFFICES /\ CallTypes' /\ CallsKnown'
             /\ \A i \in Requests \ {r} : call'[i] = call[i]
             /\ call[r].at # "returned"
  BY <1>2 DEF PayKnown
<1> USE DEF PayKnown, CallTypes, CallsKnown, CallKnown, Pay!Goto, Pay!SetStatus,
            Pay!storeVars, Pay!NoState
<1>4. CASE Pay!BeginCreate(r) \/ Pay!BeginCreateError(r)
  BY <1>3, <1>4 DEF Pay!BeginCreate, Pay!BeginCreateError,
                    Pay!InsertIntent, Calls, Pay!CallPoints, Pay!States
<1>5. CASE Pay!GatewayOrderCreated(r) \/ Pay!GatewayOrderRefused(r)
  BY <1>3, <1>5 DEF Pay!GatewayOrderCreated, Pay!GatewayOrderRefused, Calls,
                    Pay!CallPoints
<1>6. CASE Pay!PersistOrder(r)
  BY <1>3, <1>6 DEF Pay!PersistOrder, Pay!InsertOrder, Calls, Pay!CallPoints
<1>7. CASE Pay!PersistOrderError(r)
  <2>1. /\ call[r] \in Calls /\ call[r].at = "persisting"
        /\ status' = status /\ orders' \in {orders, orders \cup {r}}
    BY <1>7 DEF Pay!PersistOrderError, Pay!InsertOrder
  <2>2. \E c \in Calls : call' = [call EXCEPT ![r] = c] /\ c.at \in {"persisting", "failing"}
    <3>1. CASE Pay!Goto(r, "failing")
      <4>1. [at |-> "failing", tries |-> 0] \in Calls
        BY DEF Calls, Pay!CallPoints
      <4> QED
        BY <3>1, <4>1
    <3>2. CASE call' = [call EXCEPT ![r].tries = @ + 1]
      <4> DEFINE c == [call[r] EXCEPT !.tries = @ + 1]
      <4>1. c \in Calls /\ c.at = "persisting"
        BY <2>1 DEF Calls
      <4>2. call' = [call EXCEPT ![r] = c]
        BY <3>2
      <4> QED
        BY <4>1, <4>2
    <3> QED
      BY <1>7, <3>1, <3>2 DEF Pay!PersistOrderError
  <2> QED
    BY <1>3, <2>1, <2>2
<1>8. CASE Pay!FailCreate(r)
  BY <1>3, <1>8 DEF Pay!FailCreate, Pay!WriteCreateFailed, Calls, Pay!CallPoints, Pay!States
<1>9. CASE Pay!FailCreateError(r) \/ Pay!Respond(r) \/ Pay!CrashCreate(r)
  BY <1>3, <1>9 DEF Pay!FailCreateError, Pay!Respond, Pay!CrashCreate,
              Pay!CreateInProgress, Calls, Pay!CallPoints
<1> QED
  BY <1>4, <1>5, <1>6, <1>7, <1>8, <1>9 DEF Pay!CreateStep

\* An upsert keeps every payment on record, and records its own.
LEMMA UpsertRecords ==
  ASSUME Shaped(attempts), NEW i \in Requests, NEW p, NEW st, NEW n,
         attempts' = Pay!Upsert(i, p, st, n)
  PROVE  /\ Shaped(attempts)'
         /\ \A q : Pay!Recorded(q) => Pay!Recorded(q)'
         /\ Pay!Recorded(p)'
<1>1. CASE Pay!Recorded(p)
  <2> DEFINE C(a) == IF a.pay = p THEN [a EXCEPT !.status = st] ELSE a
  <2>1. attempts' = [k \in Requests |-> {C(a) : a \in attempts[k]}]
    BY <1>1 DEF Pay!Upsert
  <2>2. ASSUME NEW k \in Requests, NEW a \in attempts[k]
        PROVE  /\ C(a) \in attempts'[k] /\ C(a).pay = a.pay
               /\ C(a) = [num |-> C(a).num, pay |-> C(a).pay, status |-> C(a).status]
    <3>1. a = [num |-> a.num, pay |-> a.pay, status |-> a.status]
      BY <2>2 DEF Shaped
    <3>2. [a EXCEPT !.status = st] = [num |-> a.num, pay |-> a.pay, status |-> st]
      BY <3>1
    <3> QED
      BY <2>1, <3>1, <3>2
  <2>3. \A k \in Requests : \A b \in attempts'[k] : \E a \in attempts[k] : b = C(a)
    BY <2>1
  <2>4. attempts' = [k \in Requests |-> attempts'[k]]
    BY <2>1
  <2> HIDE DEF C
  <2>5. \A q : Pay!Recorded(q) => Pay!Recorded(q)'
    BY <2>2 DEF Pay!Recorded
  <2> QED
    BY <1>1, <2>2, <2>3, <2>4, <2>5 DEF Shaped
<1>2. CASE ~Pay!Recorded(p)
  <2> DEFINE b == [num |-> n, pay |-> p, status |-> st]
  <2>1. attempts' = [attempts EXCEPT ![i] = @ \cup {b}]
    BY <1>2 DEF Pay!Upsert
  <2>2. b = [num |-> b.num, pay |-> b.pay, status |-> b.status] /\ b.pay = p
    OBVIOUS
  <2> HIDE DEF b
  <2> QED
    BY <2>1, <2>2 DEF Shaped, Pay!Recorded
<1> QED
  BY <1>1, <1>2

\* What the workers may do to the tables without disturbing what is known: move the
\* status of one intent that has its order, to FAILED only when the gateway has
\* spoken of its payment.
LEMMA WorkerFrame ==
  ASSUME PayKnown, NEW i \in orders, NEW to \in Pay!States,
         status' \in {status, [status EXCEPT ![i] = to]}, UNCHANGED <<orders, call>>,
         status' # status /\ to = "FAILED" => HeardOf(i)',
         Shaped(attempts)', JobsKnown',
         \A q : Pay!Recorded(q) => Pay!Recorded(q)'
  PROVE  PayKnown'
<1>1. \A k : HeardOf(k) => HeardOf(k)'
  BY DEF HeardOf, Pay!PaymentsOf
<1>2. CallTypes'
  BY DEF PayKnown, CallTypes
<1>3. ASSUME NEW k \in Requests PROVE CallKnown(k)'
  <2>1. CallKnown(k) /\ (k = i => status[k] # Pay!NoState)
    BY DEF PayKnown, CallsKnown, CallKnown
  <2>2. status'[k] = status[k] \/ (k = i /\ status'[k] = to /\ status' # status)
    BY DEF PayKnown, CallTypes
  <2>3. to # Pay!NoState
    BY DEF Pay!States, Pay!NoState
  <2> QED
    BY <1>1, <2>1, <2>2, <2>3 DEF CallKnown
<1> QED
  BY <1>2, <1>3 DEF PayKnown, CallsKnown

\* A worker moves no call, and keeps what is known.
LEMMA WorkerMoves ==
  ASSUME PayKnown, NEW w \in Workers, Pay!Begin(w) \/ Pay!JobStep(w) \/ Pay!Rollback(w)
  PROVE  PayKnown' /\ call' = call
<1> DEFINE j == job[w]
           i == j.intent
<1>1. ASSUME UNCHANGED <<status, orders, attempts, call>>, JobsKnown'
      PROVE  PayKnown'
  <2>1. \A k : HeardOf(k)' <=> HeardOf(k)
    BY <1>1 DEF HeardOf, Pay!Recorded
  <2> QED
    BY <1>1, <2>1 DEF PayKnown, CallTypes, CallsKnown, CallKnown, Shaped
<1>2. CASE Pay!Begin(w)
  <2>1. PICK op \in {"apply", "report", "expire"}, k \in Requests,
             p \in Payments \cup {NoPay}, gs \in Pay!GatewayStatuses :
          /\ k \in orders
          /\ op = "apply" => p \in Pay!PaymentsOf(k)
          /\ Pay!Lock(w, op, k, p, gs)
    BY <1>2 DEF Pay!Begin, Pay!BeginApply, Pay!BeginReport, Pay!BeginExpire,
                Pay!PaymentsOf, Pay!GatewayStatuses
  <2> DEFINE new == [op |-> op, intent |-> k, pay |-> p, gst |-> gs,
                     read |-> status[k], next |-> 0]
  <2>2. /\ new = [op |-> new.op, intent |-> new.intent, pay |-> new.pay,
                  gst |-> new.gst, read |-> new.read, next |-> new.next]
        /\ new.intent = k /\ new.op = op /\ new.pay = p
    OBVIOUS
  <2>3. job' = [job EXCEPT ![w] = new] /\ UNCHANGED <<status, orders, attempts, call>>
    BY <2>1 DEF Pay!Lock, Pay!storeVars
  <2> HIDE DEF new
  <2>4. JobsKnown'
    BY <2>1, <2>2, <2>3 DEF PayKnown, JobsKnown, JobKnown
  <2> QED
    BY <1>1, <2>3, <2>4
<1>3. CASE Pay!CountAttempts(w)
  <2>1. PICK n : job' = [job EXCEPT ![w] = [j EXCEPT !.next = n]]
    BY <1>3 DEF Pay!CountAttempts
  <2>2. j # NoJob /\ UNCHANGED <<status, orders, attempts, call>>
    BY <1>3 DEF Pay!CountAttempts, Pay!HasJob, Pay!storeVars
  <2> DEFINE new == [j EXCEPT !.next = n]
  <2>3. j = [op |-> j.op, intent |-> j.intent, pay |-> j.pay, gst |-> j.gst,
             read |-> j.read, next |-> j.next]
    BY <2>2 DEF PayKnown, JobsKnown, JobKnown
  <2>4. /\ new = [op |-> new.op, intent |-> new.intent, pay |-> new.pay,
                  gst |-> new.gst, read |-> new.read, next |-> new.next]
        /\ new.intent = j.intent /\ new.op = j.op /\ new.pay = j.pay
    BY <2>3
  <2>5. job' = [job EXCEPT ![w] = new]
    BY <2>1
  <2> HIDE DEF new
  <2>6. JobsKnown'
    BY <2>2, <2>4, <2>5 DEF PayKnown, JobsKnown, JobKnown
  <2> QED
    BY <1>1, <2>2, <2>6
<1>4. ASSUME Pay!EndJob(w), j # NoJob, orders' = orders
      PROVE  /\ JobsKnown' /\ call' = call
             /\ i \in orders /\ i \in Requests
             /\ j.op = "apply" => j.pay \in Pay!PaymentsOf(i)
  BY <1>4 DEF Pay!EndJob, PayKnown, CallTypes, JobsKnown, JobKnown
<1>5. CASE Pay!CommitNothing(w) \/ Pay!Rollback(w)
  <2>1. Pay!EndJob(w) /\ j # NoJob /\ UNCHANGED <<status, orders, attempts>>
    BY <1>5 DEF Pay!CommitNothing, Pay!Rollback, Pay!HasJob, Pay!Counted, Pay!storeVars
  <2> QED
    BY <1>1, <1>4, <2>1
<1>6. CASE Pay!CommitMismatch(w)
  <2>1. /\ Pay!EndJob(w) /\ j # NoJob /\ UNCHANGED <<status, orders>>
        /\ attempts' = Pay!Upsert(i, j.pay, "MISMATCHED", j.next)
    BY <1>6 DEF Pay!CommitMismatch, Pay!WriteMismatch, Pay!HasJob, Pay!Counted
  <2>2. Shaped(attempts)' /\ \A q : Pay!Recorded(q) => Pay!Recorded(q)'
    BY <1>4, <2>1, UpsertRecords DEF PayKnown
  <2>3. "PENDING" \in Pay!States
    BY DEF Pay!States
  <2> QED
    BY <1>4, <2>1, <2>2, <2>3, WorkerFrame
<1>7. CASE Pay!CommitProgress(w) \/ Pay!CommitSettlement(w)
  <2>1. PICK to \in Pay!States, st \in {"PROCESSING", "FAILED", "SUCCEEDED"} :
          /\ Pay!EndJob(w) /\ j # NoJob /\ j.op = "apply" /\ orders' = orders
          /\ status' = [status EXCEPT ![i] = to]
          /\ attempts' = Pay!Upsert(i, j.pay, st, j.next)
    BY <1>7 DEF Pay!CommitProgress, Pay!CommitSettlement, Pay!WriteProgress,
                Pay!WriteSettlement, Pay!HasJob, Pay!Counted, Pay!SetStatus,
                Pay!TargetState, Pay!States, Pay!AssertValidTransition, Pay!Ignored,
                Pay!NoState
  <2>2. PICK k \in Requests : k = i /\ k \in orders
    BY <1>4, <2>1
  <2>3. PICK p \in Pay!PaymentsOf(k) : p = j.pay
    BY <1>4, <2>1, <2>2
  <2>4. /\ Shaped(attempts)' /\ Pay!Recorded(p)'
        /\ \A q : Pay!Recorded(q) => Pay!Recorded(q)'
    BY <2>1, <2>2, <2>3, UpsertRecords DEF PayKnown
  <2>5. HeardOf(k)'
    BY <2>3, <2>4 DEF HeardOf, Pay!PaymentsOf
  <2>6. JobsKnown' /\ call' = call /\ status' = [status EXCEPT ![k] = to]
    BY <1>4, <2>1, <2>2
  <2> QED
    BY <2>1, <2>2, <2>4, <2>5, <2>6, WorkerFrame
<1>8. CASE Pay!CommitReport(w)
  <2> DEFINE b == [num |-> j.next, pay |-> j.pay, status |-> "CLIENT_REPORTED_FAILURE"]
  <2>1. /\ Pay!EndJob(w) /\ j # NoJob /\ UNCHANGED <<status, orders>>
        /\ attempts' = [attempts EXCEPT ![i] = @ \cup {b}]
    BY <1>8 DEF Pay!CommitReport, Pay!WriteReport, Pay!HasJob, Pay!Counted
  <2>2. b = [num |-> b.num, pay |-> b.pay, status |-> b.status]
    OBVIOUS
  <2>3. "PENDING" \in Pay!States
    BY DEF Pay!States
  <2> HIDE DEF b
  <2>4. Shaped(attempts)' /\ \A q : Pay!Recorded(q) => Pay!Recorded(q)'
    BY <1>4, <2>1, <2>2 DEF PayKnown, Shaped, Pay!Recorded
  <2> QED
    BY <1>4, <2>1, <2>3, <2>4, WorkerFrame
<1>9. CASE Pay!CommitExpiry(w)
  <2>1. /\ Pay!EndJob(w) /\ j # NoJob /\ UNCHANGED <<orders, attempts>>
        /\ status' = [status EXCEPT ![i] = "EXPIRED"]
    BY <1>9 DEF Pay!CommitExpiry, Pay!WriteExpiry, Pay!HasJob, Pay!SetStatus
  <2>2. Shaped(attempts)' /\ \A q : Pay!Recorded(q) => Pay!Recorded(q)'
    BY <2>1 DEF PayKnown, Shaped, Pay!Recorded
  <2>3. "EXPIRED" \in Pay!States
    BY DEF Pay!States
  <2> QED
    BY <1>4, <2>1, <2>2, <2>3, WorkerFrame
<1>10. Pay!CountAttempts(w) => call' = call
  BY DEF Pay!CountAttempts
<1>11. Pay!Begin(w) => call' = call
  BY DEF Pay!Begin, Pay!BeginApply, Pay!BeginReport, Pay!BeginExpire, Pay!Lock
<1>12. Pay!EndJob(w) => call' = call
  BY DEF Pay!EndJob
<1>13. call' = call
  BY <1>10, <1>11, <1>12
     DEF Pay!JobStep, Pay!CommitMismatch, Pay!CommitProgress, Pay!CommitSettlement,
         Pay!CommitReport, Pay!CommitExpiry, Pay!CommitNothing, Pay!Rollback
<1> QED
  BY <1>2, <1>3, <1>5, <1>6, <1>7, <1>8, <1>9, <1>13 DEF Pay!JobStep

-----------------------------------------------------------------------------
(* The two parts together *)

\* Points before a request's claim, and ends without one.
Before == {"new", "looking", "reclaiming", "conflict", "replayed", "rejected", "broken"}

FlowInv ==
  /\ PayKnown
  /\ \A r \in Requests :
       /\ at[r] \in Before => call[r].at = "none"
       /\ at[r] = "completing" => call[r].at = "returned"
       /\ at[r] = "created" => answer[r] = r
       /\ answer[r] # Nobody => call[answer[r]].at = "returned"
  /\ \A k \in Keys :
       record[k] # NoRecord /\ record[k].status = "COMPLETED" /\ record[k].pay # Nobody
         => call[record[k].pay].at = "returned" /\ KeyOf[record[k].pay] = k

\* A step of createPayment, with or without the death of its request.
LEMMA CallStepInv ==
  ASSUME TypeOK, FlowInv, NEW r \in Requests, Pay!CreateStep(r),
         UNCHANGED <<record, answer>>,
         at[r] \in Claiming, at[r] # "completing",
         at' = at \/ at' = [at EXCEPT ![r] = "crashed"]
  PROVE  FlowInv'
<1>1. /\ PayKnown'
      /\ \A i \in Requests \ {r} : call'[i] = call[i]
      /\ call[r].at # "returned"
  BY CallMoves DEF FlowInv
<1>2. \A i \in Requests : call[i].at = "returned" => call'[i].at = "returned"
  BY <1>1
<1>3. ASSUME NEW s \in Requests
      PROVE  /\ at'[s] \in Before => call'[s].at = "none"
             /\ at'[s] = "completing" => call'[s].at = "returned"
             /\ at'[s] = "created" => answer'[s] = s
             /\ answer'[s] # Nobody => call'[answer'[s]].at = "returned"
  BY <1>1, <1>2 DEF FlowInv, TypeOK, Before, Claiming
<1>4. ASSUME NEW k \in Keys, record'[k] # NoRecord, record'[k].status = "COMPLETED",
             record'[k].pay # Nobody
      PROVE  call'[record'[k].pay].at = "returned" /\ KeyOf[record'[k].pay] = k
  BY <1>2, <1>4 DEF FlowInv, TypeOK, Records
<1> QED
  BY <1>1, <1>3, <1>4 DEF FlowInv

\* A statement on the key's row, the clock, and the end of a claim leave the calls
\* alone: what they write is of a call that has returned.
LEMMA RowStepInv ==
  ASSUME TypeOK, FlowInv, PayKnown', call' = call,
         \A k \in Keys :
           record'[k] # NoRecord /\ record'[k].status = "COMPLETED" =>
             \/ record'[k].pay = Nobody
             \/ call[record'[k].pay].at = "returned" /\ KeyOf[record'[k].pay] = k,
         \A r \in Requests :
           /\ at'[r] \in Before => at[r] \in Before
           /\ at'[r] = "completing" => call[r].at = "returned"
           /\ at'[r] = "created" => answer'[r] = r
           /\ answer'[r] # Nobody => call[answer'[r]].at = "returned"
  PROVE  FlowInv'
BY DEF FlowInv

\* Tables and jobs that stay as they are are as known as they were.
LEMMA PayFrame ==
  ASSUME PayKnown, UNCHANGED payVars
  PROVE  PayKnown'
<1>1. \A k : HeardOf(k)' <=> HeardOf(k)
  BY DEF HeardOf, Pay!Recorded, payVars
<1> QED
  BY <1>1 DEF PayKnown, CallTypes, CallsKnown, CallKnown, Shaped, JobsKnown, JobKnown,
              payVars

\* The middleware's statements.
LEMMA KeyStepInv ==
  ASSUME TypeOK, FlowInv, UNCHANGED payVars, NEW r \in Requests,
         KeyStep(r) \/ StatementError(r) \/ (Crash(r) /\ UNCHANGED call)
  PROVE  FlowInv'
<1> USE IdempotencyAssumption, NoRecordAssumption
<1> USE DEF payVars, Goto, Answer, Mine, SetRecord, InProgress, Before
<1>0. /\ KeyOf[r] \in Keys
      /\ \A k \in Keys : record[k] # NoRecord => record[k] \in Records
  BY DEF TypeOK
<1>p. PayKnown' /\ call' = call
  BY PayFrame DEF FlowInv
<1>1. CASE Claim(r)
  <2> DEFINE new == [id |-> r, since |-> r, hash |-> BodyOf[r], stale |-> FALSE,
                     status |-> "IN_PROGRESS", pay |-> Nobody]
  <2>1. new.status = "IN_PROGRESS" /\ record' = [record EXCEPT ![KeyOf[r]] = new]
    BY <1>1 DEF Claim
  <2> HIDE DEF new
  <2> QED
    BY <1>0, <1>1, <2>1, <1>p, RowStepInv DEF Claim, TypeOK, FlowInv
<1>2. CASE ClaimTaken(r) \/ LookEmpty(r) \/ LookInProgress(r) \/ ReclaimLost(r)
           \/ Resend(r) \/ StatementError(r) \/ Crash(r)
  BY <1>2, <1>p, RowStepInv DEF ClaimTaken, LookEmpty, LookInProgress, ReclaimLost, Resend,
                          StatementError, Crash, Claiming, TypeOK, FlowInv
<1>3. CASE LookCompleted(r)
  BY <1>0, <1>3, <1>p, RowStepInv DEF LookCompleted, TypeOK, FlowInv
<1>4. CASE Reclaim(r)
  <2> DEFINE new == [Mine(r) EXCEPT !.since = r, !.hash = BodyOf[r],
                       !.status = "IN_PROGRESS", !.pay = Nobody, !.stale = FALSE]
  <2>1. Mine(r) \in Records
    BY <1>0, <1>4 DEF Reclaim, StillStale
  <2>2. new.status = "IN_PROGRESS"
    BY <2>1 DEF Records
  <2>3. record' = [record EXCEPT ![KeyOf[r]] = new]
    BY <1>4 DEF Reclaim
  <2> HIDE DEF new
  <2> QED
    BY <1>0, <1>4, <2>2, <2>3, <1>p, RowStepInv DEF Reclaim, TypeOK, FlowInv
<1>5. CASE Complete(r)
  <2>1. call[r].at = "returned"
    BY <1>5 DEF Complete, FlowInv
  <2>2. ASSUME NEW k \in Keys, record'[k] # NoRecord, record'[k].status = "COMPLETED"
        PROVE  \/ record'[k].pay = Nobody
               \/ call[record'[k].pay].at = "returned" /\ KeyOf[record'[k].pay] = k
    <3>1. CASE record'[k] = record[k]
      BY <2>2, <3>1 DEF FlowInv
    <3>2. CASE Owns(r) /\ SetRecord(r, [Mine(r) EXCEPT !.status = "COMPLETED", !.pay = r])
      <4> DEFINE new == [Mine(r) EXCEPT !.status = "COMPLETED", !.pay = r]
      <4>1. Mine(r) \in Records
        BY <1>0, <3>2 DEF Owns
      <4>2. new.pay = r
        BY <4>1 DEF Records
      <4>3. record' = [record EXCEPT ![KeyOf[r]] = new]
        BY <3>2
      <4> HIDE DEF new
      <4>4. record'[k] = record[k] \/ (k = KeyOf[r] /\ record'[k] = new)
        BY <4>3 DEF TypeOK
      <4> QED
        BY <2>1, <3>1, <4>2, <4>4
    <3> QED
      BY <1>5, <3>1, <3>2 DEF Complete, StoreResponse
  <2> QED
    BY <1>5, <2>1, <2>2, <1>p, RowStepInv DEF Complete, TypeOK, FlowInv
<1>6. CASE Release(r)
  <2>1. record' = record \/ record' = [record EXCEPT ![KeyOf[r]] = NoRecord]
    BY <1>6 DEF Release
  <2> QED
    BY <1>0, <1>6, <2>1, <1>p, RowStepInv DEF Release, TypeOK, FlowInv
<1> QED
  BY <1>1, <1>2, <1>3, <1>4, <1>5, <1>6 DEF KeyStep

\* Every step of the flow keeps the two parts in step.
LEMMA FlowStepInv ==
  ASSUME TypeOK, FlowInv, [FlowNext]_flowVars
  PROVE  FlowInv'
<1> USE IdempotencyAssumption, NoRecordAssumption
<1>1. ASSUME NEW k \in Keys, Age(k), UNCHANGED payVars
      PROVE  FlowInv'
  <2> DEFINE new == [record[k] EXCEPT !.stale = TRUE]
  <2>1. record[k] \in Records /\ record[k].status = "IN_PROGRESS"
    BY <1>1 DEF Age, InProgress, TypeOK
  <2>2. new.status = "IN_PROGRESS"
    BY <2>1 DEF Records
  <2>3. record' = [record EXCEPT ![k] = new] /\ UNCHANGED <<at, answer>>
    BY <1>1 DEF Age
  <2> HIDE DEF new
  <2> QED
    BY <1>1, <2>2, <2>3, PayFrame, RowStepInv DEF payVars, TypeOK, FlowInv
<1>2. ASSUME NEW r \in Requests, CreateEnds(r)
      PROVE  FlowInv'
  BY <1>2, PayFrame, RowStepInv DEF CreateEnds, Work, Goto, payVars, Before, TypeOK,
                                    FlowInv
<1>3. ASSUME NEW r \in Requests, CreateRuns(r)
      PROVE  FlowInv'
  <2>1. UNCHANGED payVars \/ Pay!CreateStep(r)
    BY <1>3 DEF CreateRuns, GatewayCall, DatabaseCall, GatewayAnswers, GatewayRetries,
                GatewayGivesUp, Pay!CreateStep
  <2>2. CASE UNCHANGED payVars
    BY <1>3, <2>2, PayFrame, RowStepInv DEF CreateRuns, vars, payVars, Before, FlowInv
  <2>3. CASE Pay!CreateStep(r)
    BY <1>3, <2>3, CallStepInv DEF CreateRuns, vars, Claiming
  <2> QED
    BY <2>1, <2>2, <2>3
<1>4. ASSUME NEW r \in Requests, Dies(r)
      PROVE  FlowInv'
  <2>1. CASE UNCHANGED payVars
    BY <1>4, <2>1, KeyStepInv DEF Dies, payVars
  <2>2. CASE Pay!CrashCreate(r)
    <3>1. at[r] # "completing"
      BY <2>2 DEF Pay!CrashCreate, Pay!CreateInProgress, FlowInv
    <3> QED
      BY <1>4, <2>2, <3>1, CallStepInv DEF Dies, Crash, Goto, Pay!CreateStep
  <2> QED
    BY <1>4, <2>1, <2>2 DEF Dies
<1>5. CASE UNCHANGED flowVars
  <2>1. UNCHANGED payVars /\ UNCHANGED <<record, at, answer>>
    BY <1>5 DEF flowVars, payVars
  <2> QED
    BY <2>1, PayFrame, RowStepInv DEF payVars, Before, FlowInv
<1>6. ASSUME NEW w \in Workers, WorkerRuns(w)
      PROVE  FlowInv'
  <2>1. PayKnown' /\ call' = call
    BY <1>6, WorkerMoves DEF WorkerRuns, FlowInv
  <2> QED
    BY <1>6, <2>1, RowStepInv DEF WorkerRuns, vars, Before, FlowInv
<1> QED
  BY <1>1, <1>2, <1>3, <1>4, <1>5, <1>6, KeyStepInv DEF FlowNext, FlowStep, KeyOnly

\* What the two tables say of a request is in step in every reachable state.
THEOREM FlowInvariance == FlowSpec => []FlowInv
<1>1. FlowInit => FlowInv
  <2> SUFFICES ASSUME FlowInit PROVE FlowInv
    OBVIOUS
  <2>1. call = [i \in Requests |-> [at |-> "none", tries |-> 0]]
    BY DEF FlowInit, Pay!Init
  <2>2. /\ status = [i \in Requests |-> Pay!NoState] /\ orders = {}
        /\ attempts = [i \in Requests |-> {}] /\ job = [w \in Workers |-> NoJob]
    BY DEF FlowInit, Pay!Init, Pay!StoreInit
  <2>3. [at |-> "none", tries |-> 0] \in Calls
    BY DEF Calls, Pay!CallPoints
  <2>4. CallTypes /\ CallsKnown
    BY <2>1, <2>2, <2>3 DEF CallTypes, CallsKnown, CallKnown, Pay!NoState
  <2>5. Shaped(attempts) /\ JobsKnown
    BY <2>2 DEF Shaped, JobsKnown, JobKnown
  <2> QED
    BY <2>1, <2>4, <2>5 DEF FlowInit, Init, FlowInv, PayKnown, Before
<1>2. TypeOK /\ FlowInv /\ [FlowNext]_flowVars => FlowInv'
  BY FlowStepInv
<1>3. FlowSpec => []TypeOK
  BY FlowRefinesIdempotency, OneReclaimPerClaim, PTL DEF FlowImplementsIdempotency
<1> QED
  BY <1>1, <1>2, <1>3, PTL DEF FlowSpec

\* A 201, replayed or not, names an intent that was created in full, and that only
\* its gateway can have moved to FAILED, whatever failed, died or was retried, however
\* slow the requests were, and whatever webhooks, reports and sweeps did meanwhile.
THEOREM FlowAnswersWereCreated == FlowSpec => []AnsweredWasCreated
<1>1. TypeOK /\ FlowInv => AnsweredWasCreated
  BY IdempotencyAssumption
     DEF TypeOK, FlowInv, PayKnown, CallsKnown, CallKnown, HeardOf, AnsweredWasCreated
<1>2. FlowSpec => []TypeOK
  BY FlowRefinesIdempotency, OneReclaimPerClaim, PTL DEF FlowImplementsIdempotency
<1> QED
  BY <1>1, <1>2, FlowInvariance, PTL

\* The end-to-end flow gives one outcome per key.
THEOREM FlowOneAnswerPerKey ==
  ASSUME SlowClaims = FALSE
  PROVE  FlowSpec => []OneAnswerPerKey
BY FlowRefinesIdempotency, OneOutcomePerKey, PTL DEF FlowImplementsIdempotency

\* The end-to-end flow makes every key a register written once.
THEOREM FlowImplementsKeyOutcome ==
  ASSUME SlowClaims = FALSE
  PROVE  FlowSpec => KeyOutcomeSpec
BY FlowRefinesIdempotency, ImplementsKeyOutcome, PTL DEF FlowImplementsIdempotency

\* At any moment a key has at most one intent whose order is, or may yet be, in a
\* customer's hands, for any number of requests that race, fail, die and retry.
THEOREM FlowOneLiveIntent ==
  ASSUME SlowClaims = FALSE
  PROVE  FlowSpec => []OneLiveIntentPerKey
<1>1. ASSUME FlowInv, IdempotencyInv, NEW i \in Requests, NEW j \in Requests,
             KeyOf[i] = KeyOf[j], Live(i), Live(j)
      PROVE  i = j
  <2>1. ASSUME NEW q \in Requests, Live(q)
        PROVE  \/ /\ Mine(q) # NoRecord
                  /\ Mine(q).status = "IN_PROGRESS" /\ Mine(q).since = q
               \/ /\ Mine(q) # NoRecord /\ Mine(q).status = "COMPLETED"
                  /\ Mine(q).pay = q
    <3>1. CASE at[q] \in {"working", "completing"}
      BY <1>1, <3>1 DEF IdempotencyInv, Owned, InProgress, Mine, Claiming
    <3>2. ASSUME NEW r \in Requests, answer[r] = q
          PROVE  Mine(q) # NoRecord /\ Mine(q).status = "COMPLETED" /\ Mine(q).pay = q
      <4>1. /\ Mine(r) # NoRecord /\ Mine(r).status = "COMPLETED" /\ Mine(r).pay = q
            /\ q # Nobody /\ KeyOf[r] \in Keys
        BY <1>1, <3>2, IdempotencyAssumption DEF IdempotencyInv, AnswersAreStored
      <4>2. KeyOf[q] = KeyOf[r]
        BY <1>1, <4>1 DEF FlowInv, Mine
      <4> QED
        BY <4>1, <4>2 DEF Mine
    <3> QED
      BY <2>1, <3>1, <3>2 DEF Live
  <2> QED
    BY <1>1, <2>1 DEF Mine
<1>2. FlowInv /\ IdempotencyInv => OneLiveIntentPerKey
  BY <1>1 DEF OneLiveIntentPerKey
<1>3. FlowSpec => []IdempotencyInv
  BY FlowRefinesIdempotency, IdempotencyInvariance, PTL DEF FlowImplementsIdempotency
<1> QED
  BY <1>2, <1>3, FlowInvariance, PTL

-----------------------------------------------------------------------------
(* Types *)

\* createPayment counts its attempts, and stays at its points.
LEMMA CallTypesStay ==
  ASSUME NEW r \in Requests, Pay!CreateStep(r),
         call \in [Requests -> [at : Pay!CallPoints, tries : 0 .. Pay!PersistAttempts - 1]]
  PROVE  call' \in [Requests -> [at : Pay!CallPoints, tries : 0 .. Pay!PersistAttempts - 1]]
<1> DEFINE Counted == [at : Pay!CallPoints, tries : 0 .. Pay!PersistAttempts - 1]
<1>1. \A point \in Pay!CallPoints : [at |-> point, tries |-> 0] \in Counted
  BY DEF Pay!PersistAttempts
<1>2. ASSUME NEW point \in Pay!CallPoints, Pay!Goto(r, point)
      PROVE  call' \in [Requests -> Counted]
  BY <1>1, <1>2 DEF Pay!Goto
<1>3. CASE Pay!PersistOrderError(r) /\ call[r].tries + 1 # Pay!PersistAttempts
  <2> DEFINE c == [call[r] EXCEPT !.tries = @ + 1]
  <2>0. /\ call[r] \in Counted /\ call[r].at \in Pay!CallPoints
        /\ call[r].tries \in 0 .. 2 /\ call[r].tries + 1 # 3
    BY <1>3 DEF Pay!PersistAttempts
  <2>1. c \in Counted
    BY <2>0 DEF Pay!PersistAttempts
  <2>2. call' = [call EXCEPT ![r] = c]
    BY <1>3 DEF Pay!PersistOrderError
  <2> HIDE DEF c
  <2> QED
    BY <2>1, <2>2
<1>4. CASE ~(Pay!PersistOrderError(r) /\ call[r].tries + 1 # Pay!PersistAttempts)
  <2>1. \E point \in Pay!CallPoints : Pay!Goto(r, point)
    BY <1>4 DEF Pay!CreateStep, Pay!BeginCreate, Pay!BeginCreateError,
         Pay!GatewayOrderCreated, Pay!GatewayOrderRefused,
         Pay!PersistOrder, Pay!PersistOrderError, Pay!FailCreate,
         Pay!FailCreateError, Pay!Respond, Pay!CrashCreate, Pay!CallPoints
  <2> QED
    BY <1>2, <2>1
<1> QED
  BY <1>3, <1>4

\* Types of the key's side and of the calls; and no gateway call is tried more than
\* MaxTries times, whatever it ends in.
THEOREM FlowTypes == FlowSpec => []FlowTypeOK
<1> DEFINE Types ==
      /\ call \in [Requests -> [at : Pay!CallPoints, tries : 0 .. Pay!PersistAttempts - 1]]
      /\ tries \in [Requests -> 0 .. MaxTries - 1]
<1>1. FlowInit => Types
  <2>1. [at |-> "none", tries |-> 0] \in
          [at : Pay!CallPoints, tries : 0 .. Pay!PersistAttempts - 1]
    BY DEF Pay!CallPoints, Pay!PersistAttempts
  <2> QED
    BY <2>1, FlowAssumption DEF FlowInit, Pay!Init
<1>2. ASSUME Types, [FlowNext]_flowVars
      PROVE  Types'
  <2>1. call' \in [Requests -> [at : Pay!CallPoints, tries : 0 .. Pay!PersistAttempts - 1]]
    <3>1. CASE call' = call
      BY <1>2, <3>1
    <3>2. ASSUME NEW r \in Requests, Pay!CreateStep(r)
          PROVE  call' \in [Requests -> [at : Pay!CallPoints, tries : 0 .. Pay!PersistAttempts - 1]]
      BY <1>2, <3>2, CallTypesStay
    <3>3. ASSUME NEW w \in Workers, WorkerRuns(w)
          PROVE  call' = call
      BY <3>3 DEF WorkerRuns, Pay!Begin, Pay!BeginApply, Pay!BeginReport,
           Pay!BeginExpire, Pay!Lock, Pay!JobStep, Pay!CountAttempts,
           Pay!CommitMismatch, Pay!CommitProgress, Pay!CommitSettlement,
           Pay!CommitReport, Pay!CommitExpiry, Pay!CommitNothing, Pay!Rollback,
           Pay!EndJob
    <3> QED
      BY <1>2, <3>1, <3>2, <3>3
         DEF FlowNext, FlowStep, KeyOnly, CreateRuns, CreateEnds, Dies, GatewayCall,
             DatabaseCall, GatewayAnswers, GatewayRetries, GatewayGivesUp,
             Pay!CreateStep, flowVars, payVars
  <2>2. tries' \in [Requests -> 0 .. MaxTries - 1]
    <3>1. ASSUME NEW r \in Requests, NEW err \in Errors, GatewayRetries(r, err)
          PROVE  tries' \in [Requests -> 0 .. MaxTries - 1]
      <4>1. tries[r] \in 0 .. MaxTries - 1 /\ tries[r] + 1 < MaxTries
        BY <1>2, <3>1 DEF GatewayRetries
      <4>2. tries[r] + 1 \in 0 .. MaxTries - 1
        BY <4>1, FlowAssumption
      <4> QED
        BY <1>2, <3>1, <4>2 DEF GatewayRetries
    <3>2. ASSUME NEW r \in Requests, tries' = [tries EXCEPT ![r] = 0]
          PROVE  tries' \in [Requests -> 0 .. MaxTries - 1]
      BY <1>2, <3>2, FlowAssumption
    <3>3. CASE UNCHANGED tries
      BY <1>2, <3>3
    <3> QED
      BY <1>2, <3>1, <3>2, <3>3
         DEF FlowNext, FlowStep, KeyOnly, CreateRuns, CreateEnds, Dies, GatewayCall,
             DatabaseCall, GatewayAnswers, GatewayGivesUp, WorkerRuns, flowVars
  <2> QED
    BY <2>1, <2>2
<1>3. FlowSpec => []TypeOK
  BY FlowRefinesIdempotency, OneReclaimPerClaim, PTL DEF FlowImplementsIdempotency
<1>4. TypeOK /\ Types => FlowTypeOK
  BY DEF FlowTypeOK
<1> HIDE DEF Types
<1> QED
  BY <1>1, <1>2, <1>3, <1>4, PTL DEF FlowSpec
==============================================================================

------------------------ MODULE PaymentServiceProofs ------------------------
(***************************************************************************)
(* The concurrent service implements the serial one: every step of          *)
(* PaymentService is a step of PaymentStore or leaves the tables alone,      *)
(* and a lost commit acknowledgement adds one kind of step, FailLate.  The   *)
(* safety theorems of PaymentStoreProofs then hold of the service, for any   *)
(* number of workers.                                                       *)
(***************************************************************************)
EXTENDS PaymentService, PaymentStoreProofs

-----------------------------------------------------------------------------
(* The inductive invariant *)

\* An open transaction is on a stored order, an outcome is of a payment of that
\* order, and only an expiry may be on an order that nobody was given.
JobInv ==
  /\ job \in [Workers -> Jobs \cup {NoJob}]
  /\ \A w \in Workers :
       job[w] # NoJob =>
         /\ job[w].intent \in orders
         /\ job[w].op # "expire" => call[job[w].intent].at = "returned"
         /\ job[w].op = "apply" => job[w].pay \in PaymentsOf(job[w].intent)

Calls == [at : CallPoints, tries : 0 .. PersistAttempts - 1]

\* Until createPayment has stored the order nobody else touches the intent, but
\* for a sweep that expires it by an order stored without createPayment knowing;
\* and only who was given the order makes attempts at it.
Undisturbed(i) ==
  /\ call[i].at = "none" => status[i] = NoState /\ i \notin orders
  /\ call[i].at = "ordering" => status[i] = "PENDING" /\ i \notin orders
  /\ call[i].at \in {"persisting", "failing"} =>
       /\ status[i] = "PENDING" \/ (status[i] = "EXPIRED" /\ i \in orders)
       /\ AckLoss = FALSE => i \notin orders
  /\ call[i].at # "returned" => attempts[i] = {}

CallInv ==
  /\ call \in [Intents -> Calls]
  /\ \A i \in Intents : Undisturbed(i)

ServiceInv == StoreInv /\ JobInv /\ CallInv /\ NoStaleRead

\* No call and no open transaction at the start.
LEMMA ServiceInitInv ==
  ASSUME Init PROVE ServiceInv
<1>1. StoreInv
  BY StoreInitInv DEF Init
<1>2. JobInv /\ NoStaleRead
  BY DEF Init, JobInv, NoStaleRead
<1>3. CallInv
  BY DEF Init, StoreInit, CallInv, Calls, Undisturbed, CallPoints, PersistAttempts
<1> QED
  BY <1>1, <1>2, <1>3 DEF ServiceInv

-----------------------------------------------------------------------------
(* Every step is a serial transaction *)

\* The disjuncts of StoreNext, as facts to conclude it from.
LEMMA StoreNextIntro ==
  ASSUME NEW i \in Intents,
         \/ InsertIntent(i)
         \/ status[i] = "PENDING" /\ InsertOrder(i)
         \/ FailIntent(i)
         \/ \E p \in PaymentsOf(i), gs \in GatewayStatuses : ApplyOutcome(i, p, gs)
         \/ \E p \in Payments \cup {NoPay} : ReportFailure(i, p)
         \/ Expire(i)
  PROVE  StoreNext
BY Zenon DEF StoreNext

\* What is known of an open transaction.
LEMMA JobFacts ==
  ASSUME ServiceInv, NEW w \in Workers, job[w] # NoJob
  PROVE  /\ job[w] \in Jobs
         /\ job[w].intent \in Intents /\ job[w].intent \in orders
         /\ job[w].gst \in GatewayStatuses
         /\ job[w].pay \in Payments \cup {NoPay}
         /\ job[w].read = status[job[w].intent]
         /\ job[w].next # 0 => job[w].next = NextAttemptNumber(job[w].intent)
         /\ job[w].op = "apply" => job[w].pay \in PaymentsOf(job[w].intent)
BY DEF ServiceInv, JobInv, NoStaleRead, Jobs

\* A COMMIT writes what a serial transaction reading the row now would write.
LEMMA CommitIsSerial ==
  ASSUME ServiceInv, NEW w \in Workers,
         \/ CommitMismatch(w) \/ CommitProgress(w) \/ CommitSettlement(w)
         \/ CommitReport(w) \/ CommitExpiry(w)
  PROVE  StoreNext
<1> DEFINE j == job[w]
<1>1. j # NoJob
  BY DEF CommitMismatch, CommitProgress, CommitSettlement, CommitReport,
         CommitExpiry, Counted, HasJob
<1>2. /\ j.intent \in Intents /\ j.intent \in orders
      /\ j.gst \in GatewayStatuses /\ j.pay \in Payments \cup {NoPay}
      /\ j.read = status[j.intent]
      /\ j.next # 0 => j.next = NextAttemptNumber(j.intent)
      /\ j.op = "apply" => j.pay \in PaymentsOf(j.intent)
  BY <1>1, JobFacts
<1>3. CASE CommitMismatch(w) \/ CommitProgress(w) \/ CommitSettlement(w)
  <2>1. j.op = "apply" /\ j.next = NextAttemptNumber(j.intent)
    BY <1>2, <1>3 DEF CommitMismatch, CommitProgress, CommitSettlement, Counted,
                      HasJob
  <2>2. ApplyOutcome(j.intent, j.pay, j.gst)
    BY <1>2, <1>3, <2>1, Zenon
       DEF CommitMismatch, CommitProgress, CommitSettlement, ApplyOutcome
  <2> QED
    BY <1>2, <2>1, <2>2, StoreNextIntro
<1>4. CASE CommitReport(w)
  <2>1. j.op = "report" /\ j.next = NextAttemptNumber(j.intent)
    BY <1>2, <1>4 DEF CommitReport, Counted, HasJob
  <2>2. ReportFailure(j.intent, j.pay)
    BY <1>2, <1>4, <2>1, Zenon DEF CommitReport, ReportFailure
  <2> QED
    BY <1>2, <2>1, <2>2, StoreNextIntro
<1>5. CASE CommitExpiry(w)
  <2>1. Expire(j.intent)
    BY <1>2, <1>5, Zenon DEF CommitExpiry, Expire
  <2> QED
    BY <1>2, <2>1, StoreNextIntro
<1> QED
  BY <1>3, <1>4, <1>5

\* A lost acknowledgement lets createPayment give up late.
GivesUpLate ==
  AckLoss = TRUE /\ \E i \in Intents : FailCreate(i) /\ FailLate(i)

\* Every step of the service is a serial transaction or leaves the tables alone,
\* or is a createPayment that gives up late.
LEMMA StepIsSerial ==
  ASSUME ServiceInv, [Next]_vars
  PROVE  [StoreNext]_storeVars \/ GivesUpLate
<1> USE DEF GivesUpLate
<1>1. CASE UNCHANGED vars
  BY <1>1 DEF vars, storeVars
<1>2. ASSUME NEW i \in Intents, CreateStep(i)
      PROVE  [StoreNext]_storeVars \/ GivesUpLate
  <2>1. CASE BeginCreate(i) \/ InsertIntent(i)
    BY <2>1, StoreNextIntro DEF BeginCreate
  <2>2. CASE call[i].at = "persisting" /\ InsertOrder(i)
    <3>1. CASE status[i] = "PENDING"
      BY <2>2, <3>1, StoreNextIntro
    <3>2. CASE i \in orders
      BY <2>2, <3>2 DEF InsertOrder, storeVars
    <3> QED
      BY <2>2, <3>1, <3>2 DEF ServiceInv, CallInv, Undisturbed
  <2>3. CASE FailCreate(i)
    <3>1. /\ WriteCreateFailed(i) /\ attempts[i] = {}
          /\ \/ status[i] = "PENDING"
             \/ status[i] = "EXPIRED" /\ i \in orders
          /\ AckLoss = FALSE => i \notin orders
      BY <2>3 DEF FailCreate, ServiceInv, CallInv, Undisturbed
    <3>2. CASE i \notin orders
      <4>1. FailIntent(i)
        BY <3>1, <3>2 DEF FailIntent
      <4> QED
        BY <4>1, StoreNextIntro
    <3>3. CASE i \in orders
      BY <2>3, <3>1, <3>3, ServiceAssumption DEF FailLate
    <3> QED
      BY <3>2, <3>3
  <2>4. CASE \/ BeginCreateError(i) /\ UNCHANGED storeVars
             \/ GatewayOrderCreated(i) \/ GatewayOrderRefused(i)
             \/ PersistOrder(i) \/ PersistOrderError(i) \/ FailCreateError(i)
             \/ Respond(i) \/ CrashCreate(i)
    BY <2>2, <2>4 DEF BeginCreateError, GatewayOrderCreated, GatewayOrderRefused, PersistOrder,
       PersistOrderError, FailCreateError, Respond, CrashCreate
  <2> QED
    BY <1>2, <2>1, <2>3, <2>4 DEF CreateStep, BeginCreateError
<1>3. ASSUME NEW w \in Workers, Begin(w) \/ JobStep(w) \/ Rollback(w)
      PROVE  [StoreNext]_storeVars \/ GivesUpLate
  <2>1. CASE \/ CommitMismatch(w) \/ CommitProgress(w) \/ CommitSettlement(w)
             \/ CommitReport(w) \/ CommitExpiry(w)
    BY <2>1, CommitIsSerial
  <2>2. CASE Begin(w) \/ CountAttempts(w) \/ CommitNothing(w) \/ Rollback(w)
    BY <2>2 DEF Begin, BeginApply, BeginReport, BeginExpire, Lock, CountAttempts,
                CommitNothing, Rollback
  <2> QED
    BY <1>3, <2>1, <2>2 DEF JobStep
<1> QED
  BY <1>1, <1>2, <1>3 DEF Next

\* What the step is in the two specifications of the tables.
LEMMA StepIsLossy ==
  ASSUME ServiceInv, [Next]_vars
  PROVE  [LossyStoreNext]_storeVars
BY StepIsSerial DEF GivesUpLate, LossyStoreNext

LEMMA StepIsStoreStep ==
  ASSUME AckLoss = FALSE, ServiceInv, [Next]_vars
  PROVE  [StoreNext]_storeVars
BY StepIsSerial DEF GivesUpLate

-----------------------------------------------------------------------------
(* The row lock protects what was read *)

\* MAX(attempt_number) + 1 depends on the numbers of its intent's attempts alone.
LEMMA NextFrame ==
  ASSUME NEW i, Numbers(i)' = Numbers(i)
  PROVE  NextAttemptNumber(i)' = NextAttemptNumber(i)
BY DEF NextAttemptNumber

\* A number is taken by a row.
LEMMA NoNumbers ==
  ASSUME NEW i, Numbers(i)' = Numbers(i), attempts[i] = {}
  PROVE  attempts'[i] = {}
BY DEF Numbers

\* The end of a transaction that numbered its own intent's attempts only.
LEMMA EndKeepsReads ==
  ASSUME ServiceInv, NEW w \in Workers, job[w] # NoJob, EndJob(w),
         \A i \in Intents \ {job[w].intent} :
           status'[i] = status[i] /\ Numbers(i)' = Numbers(i)
  PROVE  NoStaleRead'
<1> SUFFICES ASSUME NEW v \in Workers, job'[v] # NoJob
             PROVE  /\ \A u \in Workers \ {v} :
                         job'[u] # NoJob => job'[u].intent # job'[v].intent
                    /\ job'[v].read = status'[job'[v].intent]
                    /\ job'[v].next # 0 =>
                         job'[v].next = (NextAttemptNumber(job[v].intent))'
  BY DEF NoStaleRead
<1>1. v # w /\ job'[v] = job[v]
  BY DEF EndJob, ServiceInv, JobInv
<1>2. \A u \in Workers : job'[u] # NoJob => job'[u] = job[u]
  BY DEF EndJob, ServiceInv, JobInv
<1>3. job[v].intent \in Intents /\ job[v].intent # job[w].intent
  BY <1>1 DEF ServiceInv, JobInv, NoStaleRead, Jobs
<1>4. /\ status'[job[v].intent] = status[job[v].intent]
      /\ NextAttemptNumber(job[v].intent)' = NextAttemptNumber(job[v].intent)
  BY <1>1, <1>3, NextFrame
<1> QED
  BY <1>1, <1>2, <1>4 DEF ServiceInv, NoStaleRead

\* createPayment writes the intent only when no worker holds its lock.
LEMMA CreateKeepsReads ==
  ASSUME ServiceInv, NEW i \in Intents, UNCHANGED job,
         attempts' = attempts,
         \A k \in Intents \ {i} : status'[k] = status[k],
         status'[i] = status[i] \/ RowFree(i)
  PROVE  NoStaleRead'
<1> SUFFICES ASSUME NEW v \in Workers, job[v] # NoJob
             PROVE  /\ job[v].read = status'[job[v].intent]
                    /\ NextAttemptNumber(job[v].intent)'
                         = NextAttemptNumber(job[v].intent)
  BY DEF ServiceInv, NoStaleRead
<1>1. /\ job[v].intent \in Intents /\ job[v].read = status[job[v].intent]
      /\ \A k : Numbers(k)' = Numbers(k)
  BY DEF ServiceInv, JobInv, NoStaleRead, Jobs, Numbers
<1>2. status'[job[v].intent] = status[job[v].intent]
  BY <1>1 DEF RowFree
<1> QED
  BY <1>1, <1>2, NextFrame

\* An outcome may write a row of another intent's attempts, one that a report had
\* named its payment in, but numbers none there.
LEMMA OutcomeNumbers ==
  ASSUME ServiceInv, NEW w \in Workers,
         CommitMismatch(w) \/ CommitProgress(w) \/ CommitSettlement(w)
  PROVE  \A i \in Intents \ {job[w].intent} : Numbers(i)' = Numbers(i)
<1> DEFINE j == job[w]
<1>1. j # NoJob /\ j.op = "apply" /\ j.next # 0
  BY DEF CommitMismatch, CommitProgress, CommitSettlement, Counted, HasJob
<1>2. /\ j.intent \in Intents /\ j.pay \in PaymentsOf(j.intent)
      /\ j.next = NextAttemptNumber(j.intent)
  BY <1>1, JobFacts
<1>3. \E st \in {"MISMATCHED", "PROCESSING", "FAILED", "SUCCEEDED"} :
        attempts' = Upsert(j.intent, j.pay, st, j.next)
  BY DEF CommitMismatch, CommitProgress, CommitSettlement, WriteMismatch,
         WriteProgress, WriteSettlement, TargetState, Ignored, NoState
<1> HIDE DEF j
<1>4. PICK st \in AttemptStatuses :
        attempts' = Upsert(j.intent, j.pay, st, NextAttemptNumber(j.intent))
  BY <1>2, <1>3 DEF AttemptStatuses
<1>5. Upserted(attempts, attempts', j.intent, j.pay, st)
  BY <1>2, <1>4, UpsertInv DEF ServiceInv
<1> QED
  BY <1>5 DEF Upserted, Numbers, j

\* A commit writes the status of its own intent only, and numbers attempts of that
\* intent only.
LEMMA CommitWrites ==
  ASSUME ServiceInv, NEW w \in Workers, JobStep(w), ~CountAttempts(w)
  PROVE  /\ job[w] # NoJob /\ EndJob(w)
         /\ orders' = orders
         /\ \A i \in Intents \ {job[w].intent} :
              status'[i] = status[i] /\ Numbers(i)' = Numbers(i)
<1>1. /\ job[w] # NoJob /\ EndJob(w)
      /\ orders' = orders
      /\ \A i \in Intents \ {job[w].intent} : status'[i] = status[i]
  BY DEF JobStep, CommitMismatch, CommitProgress, CommitSettlement, CommitReport,
         CommitExpiry, CommitNothing, Counted, HasJob, WriteMismatch,
         WriteProgress, WriteSettlement, WriteReport, WriteExpiry, SetStatus,
         storeVars, ServiceInv, StoreInv, StoreTypeOK
<1>2. CASE CommitMismatch(w) \/ CommitProgress(w) \/ CommitSettlement(w)
  BY <1>1, <1>2, OutcomeNumbers
<1>3. CASE CommitReport(w) \/ CommitExpiry(w) \/ CommitNothing(w)
  <2>1. \A i \in Intents \ {job[w].intent} : attempts'[i] = attempts[i]
    BY <1>3 DEF CommitReport, WriteReport, CommitExpiry, WriteExpiry, CommitNothing,
                storeVars, ServiceInv, StoreInv, StoreTypeOK
  <2> QED
    BY <1>1, <2>1 DEF Numbers
<1> QED
  BY <1>2, <1>3 DEF JobStep

\* What SELECT ... FOR UPDATE returns is what the table holds.
LEMMA LockKeeps ==
  ASSUME ServiceInv, NEW w \in Workers, NEW op \in {"apply", "report", "expire"},
         NEW i \in orders, NEW p \in Payments \cup {NoPay},
         NEW gs \in GatewayStatuses, op = "apply" => p \in PaymentsOf(i),
         op # "expire" => call[i].at = "returned",
         Lock(w, op, i, p, gs)
  PROVE  JobInv' /\ NoStaleRead'
<1> DEFINE j == [op |-> op, intent |-> i, pay |-> p, gst |-> gs,
                 read |-> status[i], next |-> 0]
<1>1. i \in Intents /\ status[i] \in States \cup {NoState}
  BY DEF ServiceInv, StoreInv, StoreTypeOK
<1>2. j \in Jobs
  BY <1>1 DEF Jobs, PaymentsOf
<1>3. /\ j.intent = i /\ j.pay = p /\ j.op = op /\ j.read = status[i] /\ j.next = 0
      /\ job' = [job EXCEPT ![w] = j] /\ job[w] = NoJob /\ RowFree(i)
      /\ UNCHANGED <<storeVars, call>>
  BY DEF Lock
<1> HIDE DEF j
<1>4. job'[w] = j /\ \A v \in Workers \ {w} : job'[v] = job[v]
  BY <1>3 DEF ServiceInv, JobInv
<1>5. JobInv'
  BY <1>2, <1>3, <1>4 DEF ServiceInv, JobInv, storeVars, PaymentsOf
<1>6. NoStaleRead'
  <2> SUFFICES ASSUME NEW v \in Workers, job'[v] # NoJob
               PROVE  /\ \A u \in Workers \ {v} :
                           job'[u] # NoJob => job'[u].intent # job'[v].intent
                      /\ job'[v].read = status'[job'[v].intent]
                      /\ job'[v].next # 0 =>
                           job'[v].next = (NextAttemptNumber(job[v].intent))'
    BY DEF NoStaleRead
  <2>1. CASE v = w
    BY <1>3, <1>4, <2>1 DEF RowFree, storeVars
  <2>2. CASE v # w
    <3>1. job'[v] = job[v] /\ job[v].intent # i
      BY <1>3, <1>4, <2>2 DEF RowFree
    <3>2. NextAttemptNumber(job[v].intent)' = NextAttemptNumber(job[v].intent)
      BY <1>3, <3>1, NextFrame DEF storeVars, Numbers
    <3> QED
      BY <1>3, <1>4, <3>1, <3>2 DEF ServiceInv, NoStaleRead, storeVars
  <2> QED
    BY <2>1, <2>2
<1> QED
  BY <1>5, <1>6

\* What MAX(attempt_number) returns is what the table holds.
LEMMA CountKeeps ==
  ASSUME ServiceInv, NEW w \in Workers, CountAttempts(w)
  PROVE  JobInv' /\ NoStaleRead'
<1> DEFINE n == NextAttemptNumber(job[w].intent)
           j == [job[w] EXCEPT !.next = n]
<1>1. /\ job[w] # NoJob /\ job[w] \in Jobs /\ job' = [job EXCEPT ![w] = j]
      /\ UNCHANGED <<storeVars, call>>
  BY DEF CountAttempts, HasJob, ServiceInv, JobInv
<1>2. n \in Nat
  <2>1. Numbered(job[w].intent)
    BY <1>1 DEF Jobs, ServiceInv, StoreInv, TableOK, Numbered
  <2>2. Cardinality(attempts[job[w].intent]) \in Nat
        /\ n = Cardinality(attempts[job[w].intent]) + 1
    BY <2>1, NextIsSuccessor
  <2> QED
    BY <2>2
<1>3. /\ j \in Jobs /\ j.op = job[w].op /\ j.intent = job[w].intent
      /\ j.pay = job[w].pay /\ j.read = job[w].read /\ j.next = n
  BY <1>1, <1>2 DEF Jobs
<1>4. job'[w] = j /\ \A v \in Workers \ {w} : job'[v] = job[v]
  BY <1>1 DEF ServiceInv, JobInv
<1> HIDE DEF j
<1>5. JobInv'
  BY <1>1, <1>3, <1>4 DEF ServiceInv, JobInv, storeVars, PaymentsOf
<1>6. \A i : NextAttemptNumber(i)' = NextAttemptNumber(i)
  BY <1>1, NextFrame DEF storeVars, Numbers
<1>7. NoStaleRead'
  <2> SUFFICES ASSUME NEW v \in Workers, job'[v] # NoJob
               PROVE  /\ \A u \in Workers \ {v} :
                           job'[u] # NoJob => job'[u].intent # job'[v].intent
                      /\ job'[v].read = status'[job'[v].intent]
                      /\ job'[v].next # 0 =>
                           job'[v].next = (NextAttemptNumber(job[v].intent))'
    BY DEF NoStaleRead
  <2>1. job[v] # NoJob /\ job'[v].intent = job[v].intent /\ job'[v].read = job[v].read
    BY <1>1, <1>3, <1>4
  <2>2. \A u \in Workers : job'[u] # NoJob =>
           job[u] # NoJob /\ job'[u].intent = job[u].intent
    BY <1>1, <1>3, <1>4
  <2>3. job'[v].next # 0 => job'[v].next = NextAttemptNumber(job[v].intent)
    BY <1>3, <1>4, <2>1 DEF ServiceInv, NoStaleRead
  <2>4. (NextAttemptNumber(job[v].intent))' = NextAttemptNumber(job'[v].intent)
    BY <1>1 DEF NextAttemptNumber, Numbers, storeVars
  <2> QED
    BY <1>1, <2>1, <2>2, <2>3, <2>4 DEF ServiceInv, NoStaleRead, storeVars
<1> QED
  BY <1>5, <1>7

\* The open transactions that remain are as they were.
LEMMA EndKeepsJobs ==
  ASSUME ServiceInv, NEW w \in Workers, EndJob(w), orders' = orders
  PROVE  JobInv'
BY DEF EndJob, ServiceInv, JobInv, PaymentsOf

\* A step of createPayment of intent i concerns the call of i alone.
LEMMA CallFrame ==
  ASSUME ServiceInv, NEW i \in Intents, NEW c \in Calls,
         call' = [call EXCEPT ![i] = c],
         \A k \in Intents \ {i} : /\ status'[k] = status[k]
                                  /\ attempts'[k] = attempts[k]
                                  /\ k \in orders' <=> k \in orders,
         Undisturbed(i)'
  PROVE  CallInv'
BY DEF ServiceInv, CallInv, Undisturbed

\* What moving on one call of createPayment does to the calls.
LEMMA GotoFacts ==
  ASSUME CallInv, NEW i \in Intents, NEW point \in CallPoints, Goto(i, point)
  PROVE  \E c \in Calls : /\ call' = [call EXCEPT ![i] = c] /\ call'[i] = c
                          /\ c.at = point
<1> DEFINE c == [at |-> point, tries |-> 0]
<1>1. c \in Calls /\ c.at = point
  BY DEF Calls, PersistAttempts
<1>2. call' = [call EXCEPT ![i] = c] /\ call'[i] = c
  BY DEF Goto, CallInv
<1> QED
  BY <1>1, <1>2

\* Each step of createPayment leaves its call where the tables say it is.
LEMMA CreateKeepsCalls ==
  ASSUME ServiceInv, NEW i \in Intents, CreateStep(i)
  PROVE  CallInv'
<1>1. CallInv /\ call[i] \in Calls /\ Undisturbed(i)
  BY DEF ServiceInv, CallInv
<1>2. /\ attempts' = attempts
      /\ \A k \in Intents \ {i} :
           status'[k] = status[k] /\ (k \in orders' <=> k \in orders)
  BY DEF CreateStep, BeginCreate, BeginCreateError,
         GatewayOrderCreated, GatewayOrderRefused,
         PersistOrder, PersistOrderError, FailCreate, FailCreateError, Respond,
         CrashCreate, InsertIntent, InsertOrder, WriteCreateFailed, SetStatus,
         storeVars, ServiceInv, StoreInv, StoreTypeOK
<1>3. CASE BeginCreate(i)
  <2>1. PICK c \in Calls : /\ call' = [call EXCEPT ![i] = c] /\ call'[i] = c
                           /\ c.at = "ordering"
    BY <1>1, <1>3, GotoFacts DEF BeginCreate, CallPoints
  <2>2. status'[i] = "PENDING" /\ i \notin orders' /\ attempts'[i] = {}
    BY <1>1, <1>2, <1>3, <2>1 DEF BeginCreate, InsertIntent, SetStatus, Undisturbed,
                            ServiceInv, StoreInv, StoreTypeOK
  <2>3. Undisturbed(i)'
    BY <2>1, <2>2 DEF Undisturbed
  <2> QED
    BY <1>2, <2>1, <2>3, CallFrame
<1>4. CASE GatewayOrderCreated(i)
  <2>1. PICK c \in Calls : /\ call' = [call EXCEPT ![i] = c] /\ call'[i] = c
                           /\ c.at = "persisting"
    BY <1>1, <1>4, GotoFacts DEF GatewayOrderCreated, CallPoints
  <2>2. Undisturbed(i)'
    BY <1>1, <1>4, <2>1 DEF GatewayOrderCreated, Undisturbed, storeVars
  <2> QED
    BY <1>2, <2>1, <2>2, CallFrame
<1>5. CASE GatewayOrderRefused(i)
  <2>1. PICK c \in Calls : /\ call' = [call EXCEPT ![i] = c] /\ call'[i] = c
                           /\ c.at = "failing"
    BY <1>1, <1>5, GotoFacts DEF GatewayOrderRefused, CallPoints
  <2>2. Undisturbed(i)'
    BY <1>1, <1>5, <2>1 DEF GatewayOrderRefused, Undisturbed, storeVars
  <2> QED
    BY <1>2, <2>1, <2>2, CallFrame
<1>6. CASE PersistOrderError(i)
  <2>1. /\ call[i].at = "persisting" /\ UNCHANGED <<status, attempts>>
        /\ i \in orders => i \in orders'
        /\ AckLoss = FALSE => orders' = orders
    BY <1>6 DEF PersistOrderError, InsertOrder, storeVars
  <2>2. CASE call[i].tries + 1 = PersistAttempts
    <3>1. PICK c \in Calls :
             call' = [call EXCEPT ![i] = c] /\ call'[i] = c /\ c.at = "failing"
      BY <1>1, <1>6, <2>2, GotoFacts DEF PersistOrderError, CallPoints
    <3>2. Undisturbed(i)'
      BY <1>1, <2>1, <3>1 DEF Undisturbed
    <3> QED
      BY <1>2, <3>1, <3>2, CallFrame
  <2>3. CASE call[i].tries + 1 # PersistAttempts
    <3> DEFINE c == [call[i] EXCEPT !.tries = @ + 1]
    <3>1. c \in Calls /\ c.at = "persisting"
      BY <1>1, <2>1, <2>3 DEF Calls, PersistAttempts
    <3>2. call' = [call EXCEPT ![i] = c] /\ call'[i] = c
      BY <1>1, <1>6, <2>3 DEF PersistOrderError, CallInv
    <3>3. Undisturbed(i)'
      BY <1>1, <2>1, <3>1, <3>2 DEF Undisturbed
    <3> QED
      BY <1>2, <3>1, <3>2, <3>3, CallFrame
  <2> QED
    BY <2>2, <2>3
<1>7. CASE \/ BeginCreateError(i) \/ PersistOrder(i) \/ FailCreate(i)
           \/ FailCreateError(i) \/ Respond(i)
           \/ CrashCreate(i)
  <2>1. /\ \E point \in {"responding", "returned", "threw", "crashed"} :
             Goto(i, point)
        /\ call[i].at # "returned"
    BY <1>7 DEF BeginCreateError, PersistOrder, FailCreate,
                FailCreateError, Respond, CrashCreate, CreateInProgress
  <2>2. PICK point \in {"responding", "returned", "threw", "crashed"}, c \in Calls :
           /\ call' = [call EXCEPT ![i] = c] /\ call'[i] = c /\ c.at = point
    BY <1>1, <2>1, GotoFacts DEF CallPoints
  <2>3. Undisturbed(i)'
    BY <1>1, <1>2, <2>1, <2>2 DEF Undisturbed
  <2> QED
    BY <1>2, <2>2, <2>3, CallFrame
<1> QED
  BY <1>3, <1>4, <1>5, <1>6, <1>7 DEF CreateStep

\* A worker that at most expires an intent nobody was given disturbs no call.
LEMMA WorkerKeepsCalls ==
  ASSUME ServiceInv, call' = call, orders' = orders, NEW i \in orders,
         call[i].at # "returned" =>
           status'[i] \in {status[i], "EXPIRED"} /\ attempts'[i] = attempts[i],
         \A k \in Intents \ {i} :
           status'[k] = status[k] /\ Numbers(k)' = Numbers(k)
  PROVE  CallInv'
<1> SUFFICES ASSUME NEW k \in Intents PROVE Undisturbed(k)'
  BY DEF ServiceInv, CallInv
<1>1. Undisturbed(k)
  BY DEF ServiceInv, CallInv
<1>2. CASE k = i
  BY <1>1, <1>2 DEF Undisturbed
<1>3. CASE k # i
  <2>1. status'[k] = status[k] /\ (attempts[k] = {} => attempts'[k] = {})
    BY <1>3, NoNumbers
  <2> QED
    BY <1>1, <2>1 DEF Undisturbed
<1> QED
  BY <1>2, <1>3

\* A call that has returned or thrown takes no further step.
LEMMA EndedStays ==
  ASSUME ServiceInv, NEW i \in Intents, CreateStep(i), NEW k \in Intents,
         call[k].at \in {"returned", "threw"}
  PROVE  call'[k] = call[k]
<1>1. i # k
  BY DEF CreateStep, BeginCreate, BeginCreateError,
         GatewayOrderCreated, GatewayOrderRefused,
         PersistOrder, PersistOrderError, FailCreate, FailCreateError, Respond,
         CrashCreate, CreateInProgress
<1>2. \E c : call' = [call EXCEPT ![i] = c]
  BY DEF CreateStep, BeginCreate, BeginCreateError,
         GatewayOrderCreated, GatewayOrderRefused,
         PersistOrder, PersistOrderError, FailCreate, FailCreateError, Respond,
         CrashCreate, Goto
<1> QED
  BY <1>1, <1>2 DEF ServiceInv, CallInv

\* A step of createPayment keeps the part of the invariant about workers.
LEMMA CreateKeepsJobs ==
  ASSUME ServiceInv, NEW i \in Intents, CreateStep(i)
  PROVE  JobInv' /\ NoStaleRead'
<1>1. /\ job' = job /\ attempts' = attempts /\ orders \subseteq orders'
      /\ \A k \in Intents \ {i} : status'[k] = status[k]
  BY DEF CreateStep, BeginCreate, BeginCreateError,
         GatewayOrderCreated, GatewayOrderRefused,
         PersistOrder, PersistOrderError, FailCreate, FailCreateError, Respond,
         CrashCreate, InsertIntent, InsertOrder, WriteCreateFailed, SetStatus,
         storeVars, ServiceInv, StoreInv, StoreTypeOK
<1>2. JobInv'
  <2>1. \A k \in Intents : call[k].at = "returned" => call'[k].at = "returned"
    BY EndedStays
  <2> QED
    BY <1>1, <2>1 DEF ServiceInv, JobInv, Jobs, PaymentsOf
<1>3. status'[i] = status[i] \/ RowFree(i)
  <2>1. CASE BeginCreate(i) \/ BeginCreateError(i)
    <3>1. i \notin orders
      BY <2>1 DEF BeginCreate, BeginCreateError, ServiceInv, CallInv, Undisturbed
    <3> QED
      BY <3>1 DEF RowFree, ServiceInv, JobInv
  <2>2. CASE FailCreate(i)
    BY <2>2 DEF FailCreate
  <2>3. CASE ~BeginCreate(i) /\ ~BeginCreateError(i) /\ ~FailCreate(i)
    BY <2>3 DEF CreateStep, GatewayOrderCreated, GatewayOrderRefused, PersistOrder,
                PersistOrderError, FailCreateError, Respond, CrashCreate,
                InsertOrder, storeVars
  <2> QED
    BY <2>1, <2>2, <2>3
<1> QED
  BY <1>1, <1>2, <1>3, CreateKeepsReads

\* A step of a worker keeps the part of the invariant about workers.
LEMMA WorkerKeeps ==
  ASSUME ServiceInv, NEW w \in Workers, Begin(w) \/ JobStep(w) \/ Rollback(w)
  PROVE  JobInv' /\ CallInv' /\ NoStaleRead'
<1>1. CASE Begin(w)
  <2>1. PICK op \in {"apply", "report", "expire"}, i \in orders,
             p \in Payments \cup {NoPay}, gs \in GatewayStatuses :
          /\ op = "apply" => p \in PaymentsOf(i)
          /\ op # "expire" => call[i].at = "returned"
          /\ Lock(w, op, i, p, gs)
    BY <1>1 DEF Begin, BeginApply, BeginReport, BeginExpire, PaymentsOf,
                GatewayStatuses
  <2>2. JobInv' /\ NoStaleRead'
    BY <2>1, LockKeeps
  <2>3. CallInv'
    BY <2>1 DEF Lock, storeVars, ServiceInv, CallInv, Undisturbed
  <2> QED
    BY <2>2, <2>3
<1>2. CASE CountAttempts(w)
  <2>1. CallInv'
    BY <1>2 DEF CountAttempts, storeVars, ServiceInv, CallInv, Undisturbed
  <2> QED
    BY <1>2, <2>1, CountKeeps
<1>3. CASE (JobStep(w) /\ ~CountAttempts(w)) \/ Rollback(w)
  <2>1. /\ job[w] # NoJob /\ EndJob(w) /\ orders' = orders
        /\ \A i \in Intents \ {job[w].intent} :
             status'[i] = status[i] /\ Numbers(i)' = Numbers(i)
    BY <1>3, CommitWrites DEF Rollback, storeVars, Numbers
  <2>2. /\ job[w].intent \in orders /\ call' = call
        /\ job[w].op # "expire" => call[job[w].intent].at = "returned"
    BY <2>1 DEF ServiceInv, JobInv, EndJob
  <2>3. ASSUME job[w].op = "expire"
        PROVE  /\ status'[job[w].intent] \in {status[job[w].intent], "EXPIRED"}
               /\ attempts' = attempts
    BY <1>3, <2>3 DEF JobStep, CommitMismatch, CommitProgress, CommitSettlement,
       CommitReport, CommitExpiry, CommitNothing, Rollback, Counted, HasJob,
       WriteExpiry, SetStatus, storeVars, ServiceInv, StoreInv, StoreTypeOK
  <2>4. CallInv'
    BY <2>1, <2>2, <2>3, WorkerKeepsCalls
  <2> QED
    BY <2>1, <2>4, EndKeepsReads, EndKeepsJobs
<1> QED
  BY <1>1, <1>2, <1>3

\* The invariant is inductive.
LEMMA ServiceStepInv ==
  ASSUME ServiceInv, [Next]_vars
  PROVE  ServiceInv'
<1>1. StoreInv'
  BY StepIsLossy, LossyStepInv DEF ServiceInv
<1>2. JobInv' /\ CallInv' /\ NoStaleRead'
  <2>1. CASE UNCHANGED vars
    <3>1. JobInv'
      BY <2>1 DEF vars, ServiceInv, JobInv, PaymentsOf
    <3>2. CallInv'
      BY <2>1 DEF vars, ServiceInv, CallInv, Undisturbed
    <3>3. NoStaleRead'
      BY <2>1 DEF vars, ServiceInv, NoStaleRead, NextAttemptNumber, Numbers
    <3> QED
      BY <3>1, <3>2, <3>3
  <2>2. CASE Next
    BY <2>2, CreateKeepsJobs, CreateKeepsCalls, WorkerKeeps DEF Next
  <2> QED
    BY <2>1, <2>2
<1> QED
  BY <1>1, <1>2 DEF ServiceInv

-----------------------------------------------------------------------------
(* Theorems of the concurrent service *)

\* Every reachable state of the service satisfies the invariant: the tables are
\* sound and every open transaction still knows the row it locked, whether or not
\* acknowledgements are lost.
THEOREM ServiceInvariance == Spec => []ServiceInv
<1>1. Init => ServiceInv
  BY ServiceInitInv
<1>2. ServiceInv /\ [Next]_vars => ServiceInv'
  BY ServiceStepInv
<1> QED
  BY <1>1, <1>2, PTL DEF Spec

\* Types of the tables, of the createPayment calls and of the open transactions.
THEOREM ServiceTypeOK == Spec => []TypeOK
<1>1. ServiceInv => TypeOK
  BY DEF ServiceInv, StoreInv, JobInv, CallInv, Calls, TypeOK
<1> QED
  BY <1>1, ServiceInvariance, PTL

\* SELECT ... FOR UPDATE gives exclusive access: what a worker read is what it
\* writes over, for any number of workers.
THEOREM ServiceNoStaleRead == Spec => []NoStaleRead
<1>1. ServiceInv => NoStaleRead
  BY DEF ServiceInv
<1> QED
  BY <1>1, ServiceInvariance, PTL

\* The transactions of the service are serializable: the tables change as if
\* one transaction ran at a time.
THEOREM ServiceImplementsStore ==
  ASSUME AckLoss = FALSE
  PROVE  Spec => StoreSpec
<1>1. Init => StoreInit
  BY DEF Init
<1>2. ServiceInv /\ [Next]_vars => [StoreNext]_storeVars
  BY StepIsStoreStep
<1> QED
  BY <1>1, <1>2, ServiceInvariance, PTL DEF Spec, StoreSpec

\* Lost acknowledgements add one behaviour to that and no other: an UPDATE to
\* FAILED by a createPayment that does not know its order was stored.
THEOREM ServiceImplementsLossyStore == Spec => LossyStoreSpec
<1>1. Init => StoreInit
  BY DEF Init
<1>2. ServiceInv /\ [Next]_vars => [LossyStoreNext]_storeVars
  BY StepIsLossy
<1> QED
  BY <1>1, <1>2, ServiceInvariance, PTL DEF Spec, LossyStoreSpec

\* No intent is paid twice, or by a wrong amount, however many workers apply
\* outcomes to it and whatever acknowledgements are lost.
THEOREM ServiceSettledOnce == Spec => []SettledOnce
BY ServiceImplementsLossyStore, LossyStoreSafety, PTL

\* MAX(attempt_number) + 1, a statement of its own, leaves no gap and no repeat.
THEOREM ServiceAttemptsNumbered == Spec => []AttemptsNumbered
BY ServiceImplementsLossyStore, LossyStoreSafety, PTL

\* Recorded attempts stay, whatever is reported or upserted after them.
THEOREM ServiceAttemptsArePermanent == Spec => AttemptsArePermanent
BY ServiceImplementsLossyStore, LossyAttemptsArePermanent, PTL

\* A paid intent stays paid, and paid once.
THEOREM ServicePaidIsFinal == Spec => PaidIsFinal
BY ServiceImplementsLossyStore, LossyPaidIsFinal, PTL

\* The audit trail is legal and ends at the status; its only break is FAILED
\* written over EXPIRED.
THEOREM ServiceHistoryIsLegal == Spec => []HistoryIsLegal
BY ServiceImplementsLossyStore, LossyStoreSafety, PTL

\* Only the customer of an order that was given out pays it.
LEMMA PaidIsGivenOut ==
  ASSUME ServiceInv, [Next]_vars, NEW k \in Intents,
         status[k] # "COMPLETED", status'[k] = "COMPLETED"
  PROVE  call[k].at = "returned"
<1> USE DEF SetStatus, ServiceInv, StoreInv, StoreTypeOK
<1>1. CASE UNCHANGED vars
  BY <1>1 DEF vars
<1>2. ASSUME NEW i \in Intents, CreateStep(i) PROVE FALSE
  BY <1>2 DEF CreateStep, BeginCreate, BeginCreateError,
         GatewayOrderCreated, GatewayOrderRefused,
     PersistOrder, PersistOrderError, FailCreate, FailCreateError, Respond,
     CrashCreate, InsertIntent, InsertOrder, WriteCreateFailed, storeVars
<1>3. ASSUME NEW w \in Workers, Begin(w) \/ JobStep(w) \/ Rollback(w)
      PROVE  call[k].at = "returned"
  <2>1. CASE CommitSettlement(w)
    <3>1. /\ job[w] # NoJob /\ job[w].op = "apply"
          /\ SetStatus(job[w].intent, "COMPLETED")
      BY <2>1 DEF CommitSettlement, Counted, HasJob, WriteSettlement
    <3>2. job[w].intent = k
      BY <3>1
    <3> QED
      BY <3>1, <3>2 DEF JobInv
  <2>2. CASE CommitProgress(w)
    <3>1. PICK to \in {"PROCESSING", "FAILED"} : SetStatus(job[w].intent, to)
      BY <2>2 DEF CommitProgress, WriteProgress, Ignored, TargetState, NoState
    <3> QED
      BY <3>1
  <2>3. CASE CommitExpiry(w)
    BY <2>3 DEF CommitExpiry, WriteExpiry
  <2>4. CASE \/ Begin(w) \/ CountAttempts(w) \/ CommitMismatch(w) \/ CommitReport(w)
             \/ CommitNothing(w) \/ Rollback(w)
    BY <2>4 DEF Begin, BeginApply, BeginReport, BeginExpire, Lock, CountAttempts,
       CommitMismatch, WriteMismatch, CommitReport, WriteReport, CommitNothing,
       Rollback, storeVars
  <2> QED
    BY <1>3, <2>1, <2>2, <2>3, <2>4 DEF JobStep
<1> QED
  BY <1>1, <1>2, <1>3 DEF Next

\* A createPayment call that has thrown takes no further step.
LEMMA ThrewStays ==
  ASSUME ServiceInv, [Next]_vars, NEW k \in Intents, call[k].at = "threw"
  PROVE  call'[k].at = "threw"
<1>1. ASSUME NEW i \in Intents, CreateStep(i) PROVE call'[k] = call[k]
  BY <1>1, EndedStays
<1>2. ASSUME NEW w \in Workers, Begin(w) \/ JobStep(w) \/ Rollback(w)
      PROVE  call' = call
  BY <1>2 DEF Begin, BeginApply, BeginReport, BeginExpire, Lock, JobStep,
     CountAttempts, CommitMismatch, CommitProgress, CommitSettlement, CommitReport,
     CommitExpiry, CommitNothing, Rollback, EndJob
<1> QED
  BY <1>1, <1>2 DEF Next, vars

WasExpired(i) == \E n \in 1 .. Len(history[i]) : history[i][n].to = "EXPIRED"

\* The inductive form of ExpiredIsNeverPaid: what overwrites EXPIRED is FAILED,
\* by a createPayment that throws and so gave nobody an order to pay.
Buried(i) ==
  WasExpired(i) => \/ status[i] = "EXPIRED"
                   \/ status[i] = "FAILED" /\ call[i].at = "threw"

\* No row of a history is lost or changed when rows are appended to it, and the
\* new rows are those appended.
LEMMA AppendedRows ==
  ASSUME NEW S, NEW h \in Seq(S), NEW e \in Seq(S), NEW n \in 1 .. Len(h \o e)
  PROVE  \/ n \in 1 .. Len(h) /\ (h \o e)[n] = h[n]
         \/ \E m \in 1 .. Len(e) : (h \o e)[n] = e[m]
<1>1. Len(h) \in Nat /\ Len(e) \in Nat /\ Len(h \o e) = Len(h) + Len(e)
  OBVIOUS
<1>2. CASE n \in 1 .. Len(h)
  BY <1>1, <1>2
<1>3. CASE n \notin 1 .. Len(h)
  <2>1. n - Len(h) \in 1 .. Len(e) /\ (h \o e)[n] = e[n - Len(h)]
    BY <1>1, <1>3
  <2> QED
    BY <2>1
<1> QED
  BY <1>2, <1>3

\* No step digs an expired intent up.
LEMMA BuriedStays ==
  ASSUME ServiceInv, [Next]_vars, NEW k \in Intents, Buried(k)
  PROVE  Buried(k)'
<1> DEFINE h == history[k]
<1>0. /\ h \in Seq(HistoryRows) /\ status[k] \in States \cup {NoState}
      /\ history \in [Intents -> Seq(HistoryRows)]
      /\ status \in [Intents -> States \cup {NoState}]
  BY DEF ServiceInv, StoreInv, StoreTypeOK, HistoryRows
<1> HIDE DEF h
<1>1. ASSUME NEW e \in Seq(HistoryRows), history'[k] = h \o e,
             \A m \in 1 .. Len(e) : e[m].to # "EXPIRED", WasExpired(k)'
      PROVE  WasExpired(k)
  <2>1. PICK n \in 1 .. Len(h \o e) : (h \o e)[n].to = "EXPIRED"
    BY <1>1 DEF WasExpired
  <2>2. n \in 1 .. Len(h) /\ (h \o e)[n] = h[n]
    BY <1>0, <1>1, <2>1, AppendedRows
  <2> QED
    BY <2>1, <2>2 DEF WasExpired, h
<1>2. CASE [StoreNext]_storeVars
  <2>1. CASE status'[k] = status[k] /\ history'[k] = history[k]
    BY <2>1, ThrewStays DEF Buried, WasExpired
  <2>2. CASE /\ status[k] = NoState
             /\ history'[k] = history[k]
                  \o <<Edge(NoState, "CREATED"), Edge("CREATED", "PENDING")>>
    <3> DEFINE e == <<Edge(NoState, "CREATED"), Edge("CREATED", "PENDING")>>
    <3>1. e \in Seq(HistoryRows) /\ \A m \in 1 .. Len(e) : e[m].to # "EXPIRED"
      BY DEF Edge, HistoryRows, States, NoState
    <3> HIDE DEF e
    <3>2. history'[k] = h \o e
      BY <2>2 DEF e, h
    <3>3. ~WasExpired(k)
      BY <2>2 DEF Buried, NoState
    <3> QED
      BY <1>1, <3>1, <3>2, <3>3 DEF Buried
  <2>3. ASSUME NEW to \in {"PROCESSING", "FAILED", "EXPIRED"},
               ~IsTerminal(status[k]), CanTransition(status[k], to),
               status'[k] = to, history'[k] = history[k] \o <<Edge(status[k], to)>>
        PROVE  Buried(k)'
    <3> DEFINE e == <<Edge(status[k], to)>>
    <3>1. e \in Seq(HistoryRows) /\ \A m \in 1 .. Len(e) : e[m].to = to
      BY <1>0 DEF Edge, HistoryRows, States
    <3> HIDE DEF e
    <3>2. history'[k] = h \o e
      BY <2>3 DEF e, h
    <3>3. ~WasExpired(k)
      BY <2>3 DEF Buried, IsTerminal, TerminalStates, CanTransition
    <3> QED
      BY <1>1, <2>3, <3>1, <3>2, <3>3 DEF Buried
  <2>4. CASE /\ ~IsTerminal(status[k]) /\ status'[k] = "COMPLETED"
             /\ history'[k] = history[k]
                  \o <<Edge(status[k], "SUCCEEDED"), Edge("SUCCEEDED", "COMPLETED")>>
    <3> DEFINE e == <<Edge(status[k], "SUCCEEDED"), Edge("SUCCEEDED", "COMPLETED")>>
    <3>1. e \in Seq(HistoryRows) /\ \A m \in 1 .. Len(e) : e[m].to # "EXPIRED"
      BY <1>0 DEF Edge, HistoryRows, States
    <3> HIDE DEF e
    <3>2. history'[k] = h \o e
      BY <2>4 DEF e, h
    <3>3. call[k].at = "returned"
      BY <2>4, PaidIsGivenOut DEF IsTerminal, TerminalStates
    <3>4. ~WasExpired(k)
      BY <2>4, <3>3 DEF Buried, IsTerminal, TerminalStates
    <3> QED
      BY <1>1, <3>1, <3>2, <3>4 DEF Buried
  <2> QED
    BY <1>2, <2>1, <2>2, <2>3, <2>4, TrailStep DEF ServiceInv
<1>3. ASSUME NEW i \in Intents, FailCreate(i)
      PROVE  Buried(k)'
  <2>1. CASE i = k
    <3>1. status'[k] = "FAILED" /\ call'[k].at = "threw"
      BY <1>0, <1>3, <2>1 DEF FailCreate, WriteCreateFailed, SetStatus, Goto,
                              ServiceInv, CallInv
    <3> QED
      BY <3>1 DEF Buried
  <2>2. CASE i # k
    <3>1. status'[k] = status[k] /\ history'[k] = history[k]
      BY <1>0, <1>3, <2>2 DEF FailCreate, WriteCreateFailed, SetStatus, Record
    <3> QED
      BY <3>1, ThrewStays DEF Buried, WasExpired
  <2> QED
    BY <2>1, <2>2
<1> QED
  BY <1>2, <1>3, StepIsSerial DEF GivesUpLate

\* Once expired, never paid, though a lost acknowledgement may have FAILED written
\* over EXPIRED and FAILED is a status that a capture moves on from.
THEOREM ServiceExpiredIsNeverPaid == Spec => []ExpiredIsNeverPaid
<1> DEFINE AllBuried == \A i \in Intents : Buried(i)
<1>1. Init => AllBuried
  BY DEF Init, StoreInit, Buried, WasExpired
<1>2. ServiceInv /\ AllBuried /\ [Next]_vars => AllBuried'
  BY BuriedStays
<1>3. ServiceInv /\ AllBuried => ExpiredIsNeverPaid
  BY DEF Buried, WasExpired, ExpiredIsNeverPaid, ServiceInv, StoreInv, Settled
<1> HIDE DEF AllBuried
<1> QED
  BY <1>1, <1>2, <1>3, ServiceInvariance, PTL DEF Spec

\* With every acknowledgement received the audit trail has no hole, whichever
\* worker wrote which of its rows.
THEOREM ServiceHistoryTellsStatus ==
  ASSUME AckLoss = FALSE
  PROVE  Spec => []HistoryTellsStatus
BY ServiceImplementsStore, StoreSafety, PTL

\* No worker, however late, changes a terminal status or its transactions.
THEOREM ServiceTerminalIsFinal ==
  ASSUME AckLoss = FALSE
  PROVE  Spec => TerminalIsFinal
BY ServiceImplementsStore, StoreTerminalIsFinal, PTL

\* The concurrent service keeps the promise made to the merchant.
THEOREM ServiceImplementsLifecycle ==
  ASSUME AckLoss = FALSE
  PROVE  Spec => LifecycleSpec
BY ServiceImplementsStore, StoreImplementsLifecycle, PTL
-----------------------------------------------------------------------------
(* Two faults orphan an intent, and no other *)

\* Nobody makes the intent of a call that has thrown PENDING again.
LEMMA NotReopened ==
  ASSUME ServiceInv, [Next]_vars, NEW k \in Intents,
         call[k].at = "threw", status[k] # "PENDING"
  PROVE  status'[k] # "PENDING"
<1>1. CASE UNCHANGED vars
  BY <1>1 DEF vars
<1>2. ASSUME NEW i \in Intents, CreateStep(i) PROVE status'[k] = status[k]
  <2>1. i # k
    BY <1>2 DEF CreateStep, BeginCreate, BeginCreateError,
       GatewayOrderCreated, GatewayOrderRefused, PersistOrder, PersistOrderError,
       FailCreate, FailCreateError, Respond, CrashCreate, CreateInProgress
  <2> QED
    BY <1>2, <2>1 DEF CreateStep, BeginCreate, BeginCreateError,
       GatewayOrderCreated, GatewayOrderRefused, PersistOrder, PersistOrderError,
       FailCreate, FailCreateError, Respond, CrashCreate, InsertIntent, InsertOrder,
       WriteCreateFailed, SetStatus, storeVars, ServiceInv, StoreInv, StoreTypeOK
<1>3. ASSUME NEW w \in Workers, Begin(w) \/ JobStep(w) \/ Rollback(w)
      PROVE  status'[k] # "PENDING"
  <2>1. CASE CommitProgress(w)
    <3>1. PICK to \in {"PROCESSING", "FAILED"} : SetStatus(job[w].intent, to)
      BY <2>1 DEF CommitProgress, WriteProgress, Ignored, TargetState, NoState
    <3> QED
      BY <3>1 DEF SetStatus, ServiceInv, StoreInv, StoreTypeOK
  <2>2. CASE CommitSettlement(w) \/ CommitExpiry(w)
    BY <2>2 DEF CommitSettlement, WriteSettlement, CommitExpiry, WriteExpiry,
                SetStatus, ServiceInv, StoreInv, StoreTypeOK
  <2>3. CASE \/ Begin(w) \/ CountAttempts(w) \/ CommitMismatch(w) \/ CommitReport(w)
             \/ CommitNothing(w) \/ Rollback(w)
    BY <2>3 DEF Begin, BeginApply, BeginReport, BeginExpire, Lock, CountAttempts,
       CommitMismatch, WriteMismatch, CommitReport, WriteReport, CommitNothing,
       Rollback, storeVars
  <2> QED
    BY <1>3, <2>1, <2>2, <2>3 DEF JobStep
<1> QED
  BY <1>1, <1>2, <1>3 DEF Next

\* An answer is composed of an order that is stored; an error leaves an order, or no
\* intent, or one that is PENDING no longer.
Explained(i) ==
  /\ call[i].at = "responding" => i \in orders
  /\ call[i].at = "threw" => i \in orders \/ status[i] # "PENDING"

\* The first COMMIT of createPayment takes effect and its answer is lost.
BeginCreateLost(i) == BeginCreateError(i) /\ InsertIntent(i)

\* Every step keeps an intent explained, but for a FAILED transaction that fails and
\* a first transaction whose answer is lost.
LEMMA ExplainedStays ==
  ASSUME ServiceInv, [Next]_vars, NEW k \in Intents, Explained(k),
         ~FailCreateError(k), ~BeginCreateLost(k)
  PROVE  Explained(k)'
<1>1. CASE UNCHANGED vars
  BY <1>1 DEF vars, Explained
<1>2. orders \subseteq orders'
  <2>1. ASSUME NEW i \in Intents, CreateStep(i) PROVE orders \subseteq orders'
    BY <2>1 DEF CreateStep, BeginCreate, BeginCreateError,
       GatewayOrderCreated, GatewayOrderRefused, PersistOrder, PersistOrderError,
       FailCreate, FailCreateError, Respond, CrashCreate, InsertIntent, InsertOrder,
       WriteCreateFailed, storeVars
  <2>2. ASSUME NEW w \in Workers, Begin(w) \/ JobStep(w) \/ Rollback(w)
        PROVE  orders' = orders
    BY <2>2 DEF Begin, BeginApply, BeginReport, BeginExpire, Lock, JobStep,
       CountAttempts, CommitMismatch, CommitProgress, CommitSettlement,
       CommitReport, CommitExpiry, CommitNothing, Rollback, WriteMismatch,
       WriteProgress, WriteSettlement, WriteReport, WriteExpiry, storeVars
  <2> QED
    BY <1>1, <2>1, <2>2 DEF Next, vars
<1>3. CASE call'[k] = call[k]
  BY <1>2, <1>3, NotReopened DEF Explained
<1>4. ASSUME NEW i \in Intents, CreateStep(i) PROVE Explained(k)'
  <2>1. CASE i # k
    <3>1. call'[k] = call[k]
      BY <1>4, <2>1 DEF CreateStep, BeginCreate, BeginCreateError,
         GatewayOrderCreated,
         GatewayOrderRefused, PersistOrder, PersistOrderError, FailCreate,
         FailCreateError, Respond, CrashCreate, Goto, ServiceInv, CallInv
    <3> QED
      BY <1>3, <3>1
  <2>2. CASE i = k /\ (PersistOrder(k) \/ Respond(k))
    <3>1. k \in orders'
      BY <2>2, <1>2 DEF PersistOrder, InsertOrder, Respond, Explained
    <3> QED
      BY <3>1 DEF Explained
  <2>3. CASE i = k /\ FailCreate(k)
    <3>1. status'[k] = "FAILED" /\ call'[k].at = "threw"
      BY <2>3 DEF FailCreate, WriteCreateFailed, SetStatus, Goto, ServiceInv,
                  CallInv, StoreInv, StoreTypeOK
    <3> QED
      BY <3>1 DEF Explained, NoState
  <2>4. CASE i = k /\ BeginCreateError(k)
    <3>1. status'[k] = NoState
      BY <2>4 DEF BeginCreateError, BeginCreateLost, storeVars, ServiceInv, CallInv, Undisturbed
    <3>2. call'[k].at = "threw"
      BY <2>4 DEF BeginCreateError, Goto, ServiceInv, CallInv
    <3> QED
      BY <3>1, <3>2 DEF Explained, NoState
  <2>5. CASE i = k /\ \/ BeginCreate(k) \/ GatewayOrderCreated(k)
                      \/ GatewayOrderRefused(k) \/ PersistOrderError(k)
                      \/ CrashCreate(k)
    <3>1. call'[k].at \notin {"responding", "threw"}
      BY <2>5 DEF BeginCreate, GatewayOrderCreated, GatewayOrderRefused,
         PersistOrderError, CrashCreate, Goto, ServiceInv, CallInv, Calls
    <3> QED
      BY <3>1 DEF Explained
  <2> QED
    BY <1>4, <2>1, <2>2, <2>3, <2>4, <2>5 DEF CreateStep
<1>5. ASSUME NEW w \in Workers, Begin(w) \/ JobStep(w) \/ Rollback(w)
      PROVE  call' = call
  BY <1>5 DEF Begin, BeginApply, BeginReport, BeginExpire, Lock, JobStep,
     CountAttempts, CommitMismatch, CommitProgress, CommitSettlement, CommitReport,
     CommitExpiry, CommitNothing, Rollback, EndJob
<1> QED
  BY <1>1, <1>3, <1>4, <1>5 DEF Next

\* No COMMIT of a first transaction is unanswered, and no FAILED transaction fails.
NoOrphaningFault ==
  [][\A i \in Intents : ~BeginCreateLost(i) /\ ~FailCreateError(i)]_vars

\* createPayment's own promise holds as long as its first transaction is answered and
\* its FAILED transaction goes through: those two faults are the only ways to an
\* orphaned PENDING, with any other acknowledgement lost, crashes and other workers.
THEOREM ServiceOrphansByTwoFaultsOnly ==
  Spec /\ NoOrphaningFault => []ErrorLeavesNoOrphan
<1> DEFINE AllExplained == \A i \in Intents : Explained(i)
<1>1. Init => AllExplained
  BY DEF Init, Explained
<1>2. /\ ServiceInv /\ AllExplained /\ [Next]_vars
      /\ [\A i \in Intents : ~BeginCreateLost(i) /\ ~FailCreateError(i)]_vars
      => AllExplained'
  <2>1. CASE UNCHANGED vars
    BY <2>1 DEF vars, Explained
  <2>2. CASE \A i \in Intents : ~BeginCreateLost(i) /\ ~FailCreateError(i)
    BY <2>2, ExplainedStays
  <2> QED
    BY <2>1, <2>2
<1>3. AllExplained => ErrorLeavesNoOrphan
  BY DEF Explained, ErrorLeavesNoOrphan
<1> HIDE DEF AllExplained
<1> QED
  BY <1>1, <1>2, <1>3, ServiceInvariance, PTL DEF Spec, NoOrphaningFault
==============================================================================

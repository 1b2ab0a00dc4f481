------------------------ MODULE ConnectionPoolProofs ------------------------
(***************************************************************************)
(* The service behind a connection pool is the service: waiting for a       *)
(* client only delays its steps.  What is proved of PaymentService holds    *)
(* behind a pool of any size, and the pool never hands out more clients     *)
(* than it has.                                                             *)
(***************************************************************************)
EXTENDS ConnectionPool, PaymentServiceProofs

\* Workers that hold a client.
Holders == {w \in Workers : phase[w] \in {"locking", "open"}}

-----------------------------------------------------------------------------
(* The pool changes nothing but the pace *)

\* A pool step is a step of the service, or one of the pool's own.
LEMMA PoolStepIsServiceStep ==
  ASSUME [PoolNext]_poolVars
  PROVE  [Next]_vars
<1>1. ASSUME NEW i \in Intents, Checkout(i) \/ PoolCreate(i)
      PROVE  [Next]_vars
  BY <1>1 DEF Checkout, PoolCreate, Next
<1>2. ASSUME NEW w \in Workers,
             Ask(w) \/ Connect(w) \/ LockRow(w) \/ GiveUp(w) \/ PoolStep(w) \/ Abort(w)
      PROVE  [Next]_vars
  BY <1>2 DEF Ask, Connect, LockRow, GiveUp, PoolStep, Abort, Next
<1>3. CASE UNCHANGED poolVars
  BY <1>3 DEF poolVars, vars
<1> QED
  BY <1>1, <1>2, <1>3 DEF PoolNext

\* The service behind the pool implements the service without one.
THEOREM PoolImplementsService == PoolSpec => Spec
<1>1. PoolInit => Init
  BY DEF PoolInit
<1>2. [PoolNext]_poolVars => [Next]_vars
  BY PoolStepIsServiceStep
<1> QED
  BY <1>1, <1>2, PTL DEF PoolSpec, Spec

\* No payment is settled twice because its handlers waited in line.
THEOREM PoolSettledOnce == PoolSpec => []SettledOnce
BY PoolImplementsService, ServiceSettledOnce, PTL

\* The tables behind the pool change by serial transactions and late failures.
THEOREM PoolImplementsLossyStore == PoolSpec => LossyStoreSpec
BY PoolImplementsService, ServiceImplementsLossyStore, PTL

\* A paid intent stays paid, however long its other handlers wait.
THEOREM PoolPaidIsFinal == PoolSpec => PaidIsFinal
BY PoolImplementsService, ServicePaidIsFinal, PTL

\* The audit trail stays legal.
THEOREM PoolHistoryIsLegal == PoolSpec => []HistoryIsLegal
BY PoolImplementsService, ServiceHistoryIsLegal, PTL

\* An outcome that waits behind an expiry does not pay the expired intent.
THEOREM PoolExpiredIsNeverPaid == PoolSpec => []ExpiredIsNeverPaid
BY PoolImplementsService, ServiceExpiredIsNeverPaid, PTL

-----------------------------------------------------------------------------
(* Clients *)

\* A worker has an open transaction exactly while it is past its row lock, and
\* the clients that are out are no more than the pool has.
PoolInv ==
  /\ phase \in [Workers -> Phases]
  /\ wants \in [Workers -> Intents]
  /\ calling \in SUBSET Intents
  /\ Cardinality(Holders) + Cardinality(calling) <= PoolMax
  /\ \A w \in Workers : job[w] # NoJob <=> phase[w] = "open"

\* The finitely many workers and intents of one process have finitely many
\* clients.
LEMMA ClientsAreFinite ==
  ASSUME PoolInv
  PROVE  /\ IsFiniteSet(Holders) /\ Cardinality(Holders) \in Nat
         /\ IsFiniteSet(calling) /\ Cardinality(calling) \in Nat
<1>1. Holders \subseteq Workers \cup Intents /\ calling \subseteq Workers \cup Intents
  BY DEF Holders, PoolInv
<1> QED
  BY <1>1, PoolAssumption, FS_Subset, FS_CardinalityType

\* A worker that keeps, gains or gives back its client, while calling is as it was.
LEMMA MoveKeepsBound ==
  ASSUME PoolInv, NEW w \in Workers, NEW to \in Phases,
         Move(w, to), UNCHANGED calling,
         to \in {"locking", "open"} => w \in Holders \/ ClientFree
  PROVE  Cardinality(Holders') + Cardinality(calling') <= PoolMax
<1>1. /\ IsFiniteSet(Holders) /\ Cardinality(Holders) \in Nat
      /\ Cardinality(calling) \in Nat
  BY ClientsAreFinite
<1>2. CASE to \in {"locking", "open"}
  <2>1. Holders' = Holders \cup {w}
    BY <1>2 DEF Holders, Move, PoolInv
  <2>2. CASE w \in Holders
    <3>1. Holders' = Holders
      BY <2>1, <2>2
    <3> QED
      BY <3>1 DEF PoolInv
  <2>3. CASE w \notin Holders
    <3>1. Cardinality(Holders') = Cardinality(Holders) + 1
      BY <1>1, <2>1, <2>3, FS_AddElement
    <3>2. Cardinality(Holders) + Cardinality(calling) < PoolMax
      BY <1>2, <2>3 DEF ClientFree, Holders
    <3> QED
      BY <1>1, <3>1, <3>2, PoolAssumption
  <2> QED
    BY <2>2, <2>3
<1>3. CASE to \notin {"locking", "open"}
  <2>1. Holders' = Holders \ {w}
    BY <1>3 DEF Holders, Move, PoolInv
  <2>2. Cardinality(Holders') <= Cardinality(Holders) /\ Cardinality(Holders') \in Nat
    BY <1>1, <2>1, FS_Subset, FS_CardinalityType
  <2> QED
    BY <1>1, <2>2, PoolAssumption DEF PoolInv
<1> QED
  BY <1>2, <1>3

\* createPayment opens no worker's transaction and ends none.
LEMMA CreateLeavesJobs ==
  ASSUME NEW i \in Intents, CreateStep(i)
  PROVE  UNCHANGED job
BY DEF CreateStep, BeginCreate, BeginCreateError,
       GatewayOrderCreated, GatewayOrderRefused, PersistOrder, PersistOrderError,
       FailCreate, FailCreateError, Respond, CrashCreate

\* A transaction is one worker's.
LEMMA WorkerJobs ==
  ASSUME NEW w \in Workers, job \in [Workers -> Jobs \cup {NoJob}],
         Begin(w) \/ JobStep(w) \/ Rollback(w)
  PROVE  \A v \in Workers \ {w} : job'[v] = job[v]
BY DEF Begin, BeginApply, BeginReport, BeginExpire, Lock, JobStep, CountAttempts,
       CommitMismatch, CommitProgress, CommitSettlement, CommitReport, CommitExpiry,
       CommitNothing, Rollback, EndJob

\* The open transaction follows the phase.
LEMMA PoolJobs ==
  ASSUME PoolInv, TypeOK, [PoolNext]_poolVars
  PROVE  \A w \in Workers : job'[w] # NoJob <=> phase'[w] = "open"
<1> USE NoJobAssumption
<1>1. ASSUME NEW i \in Intents, Checkout(i) \/ PoolCreate(i)
      PROVE  UNCHANGED <<job, phase>>
  BY <1>1, CreateLeavesJobs DEF Checkout, PoolCreate, vars
<1>2. ASSUME NEW w \in Workers, Ask(w) \/ Connect(w) \/ GiveUp(w)
      PROVE  \A v \in Workers : job'[v] # NoJob <=> phase'[v] = "open"
  BY <1>2 DEF Ask, Connect, GiveUp, Move, PoolInv, vars
<1>3. ASSUME NEW w \in Workers, LockRow(w) \/ PoolStep(w) \/ Abort(w)
      PROVE  \A v \in Workers : job'[v] # NoJob <=> phase'[v] = "open"
  <2>1. \A v \in Workers \ {w} : job'[v] = job[v] /\ phase'[v] = phase[v]
    BY <1>3, WorkerJobs DEF LockRow, PoolStep, Abort, Move, PoolInv, TypeOK
  <2>2. CASE LockRow(w)
    <3>0. PICK op \in {"apply", "report", "expire"}, i \in Intents,
               p \in Payments \cup {NoPay}, gs \in GatewayStatuses :
            Lock(w, op, i, p, gs)
      BY <2>2, Zenon DEF LockRow, Begin, BeginApply, BeginReport, BeginExpire,
                         PaymentsOf, GatewayStatuses
    <3>1. job'[w] # NoJob
      BY <3>0 DEF Lock, TypeOK, StoreTypeOK, Jobs
    <3> QED
      BY <2>1, <2>2, <3>1 DEF LockRow, Move, PoolInv
  <2>3. CASE PoolStep(w)
    BY <2>1, <2>3 DEF PoolStep, Move, PoolInv
  <2>4. CASE Abort(w)
    <3>1. job'[w] = NoJob
      BY <2>4 DEF Abort, Rollback, EndJob, TypeOK
    <3> QED
      BY <2>1, <2>4, <3>1 DEF Abort, Move, PoolInv
  <2> QED
    BY <1>3, <2>2, <2>3, <2>4
<1>4. CASE UNCHANGED poolVars
  BY <1>4 DEF poolVars, PoolInv
<1> QED
  BY <1>1, <1>2, <1>3, <1>4 DEF PoolNext, PoolInv

\* No step hands out a client that the pool does not have.
LEMMA PoolClients ==
  ASSUME PoolInv, [PoolNext]_poolVars
  PROVE  Cardinality(Holders') + Cardinality(calling') <= PoolMax
<1>0. /\ IsFiniteSet(Holders) /\ Cardinality(Holders) \in Nat
      /\ IsFiniteSet(calling) /\ Cardinality(calling) \in Nat
  BY ClientsAreFinite
<1>1. ASSUME NEW i \in Intents, Checkout(i)
      PROVE  Cardinality(Holders') + Cardinality(calling') <= PoolMax
  <2>1. Holders' = Holders /\ calling' = calling \cup {i} /\ i \notin calling
    BY <1>1 DEF Checkout, Holders
  <2>2. Cardinality(calling') = Cardinality(calling) + 1
    BY <1>0, <2>1, FS_AddElement
  <2>3. Cardinality(Holders) + Cardinality(calling) < PoolMax
    BY <1>1 DEF Checkout, ClientFree, Holders
  <2> QED
    BY <1>0, <2>1, <2>2, <2>3, PoolAssumption
<1>2. ASSUME NEW i \in Intents, PoolCreate(i)
      PROVE  Cardinality(Holders') + Cardinality(calling') <= PoolMax
  <2>1. Holders' = Holders /\ calling' = calling \ {i}
    BY <1>2 DEF PoolCreate, Holders
  <2>2. Cardinality(calling') <= Cardinality(calling) /\ Cardinality(calling') \in Nat
    BY <1>0, <2>1, FS_Subset, FS_CardinalityType
  <2> QED
    BY <1>0, <2>1, <2>2, PoolAssumption DEF PoolInv
<1>3. ASSUME NEW w \in Workers,
             Ask(w) \/ Connect(w) \/ LockRow(w) \/ GiveUp(w) \/ PoolStep(w) \/ Abort(w)
      PROVE  Cardinality(Holders') + Cardinality(calling') <= PoolMax
  <2>1. \E to \in Phases :
          /\ Move(w, to) /\ UNCHANGED calling
          /\ to \in {"locking", "open"} => w \in Holders \/ ClientFree
    BY <1>3, Zenon DEF Ask, Connect, LockRow, GiveUp, PoolStep, Abort, Phases, Holders
  <2> QED
    BY <2>1, MoveKeepsBound
<1>4. CASE UNCHANGED poolVars
  BY <1>4 DEF poolVars, PoolInv, Holders
<1> QED
  BY <1>1, <1>2, <1>3, <1>4 DEF PoolNext

\* The bookkeeping of the pool holds in every reachable state.
THEOREM PoolInvariance == PoolSpec => []PoolInv
<1>1. PoolInit => PoolInv
  <2> SUFFICES ASSUME PoolInit PROVE PoolInv
    OBVIOUS
  <2>1. Holders = {} /\ calling = {}
    BY DEF PoolInit, Holders
  <2>2. Cardinality(Holders) + Cardinality(calling) <= PoolMax
    BY <2>1, FS_EmptySet, PoolAssumption
  <2> QED
    BY <2>1, <2>2 DEF PoolInit, Init, PoolInv, Phases
<1>2. PoolInv /\ TypeOK /\ [PoolNext]_poolVars => PoolInv'
  <2> SUFFICES ASSUME PoolInv, TypeOK, [PoolNext]_poolVars PROVE PoolInv'
    OBVIOUS
  <2>1. /\ phase' \in [Workers -> Phases] /\ wants' \in [Workers -> Intents]
        /\ calling' \in SUBSET Intents
    BY DEF PoolInv, TypeOK, StoreTypeOK, PoolNext, poolVars, Checkout, PoolCreate,
           Ask, Connect, LockRow, GiveUp, PoolStep, Abort, Move, Phases
  <2> QED
    BY <2>1, PoolClients, PoolJobs DEF PoolInv
<1> QED
  BY <1>1, <1>2, PoolImplementsService, ServiceTypeOK, PTL DEF PoolSpec

\* The pool's bookkeeping is right, for any number of workers and of clients:
\* types, a bound on the clients that are out, and no client in the pool whose
\* transaction is still open.
THEOREM PoolTypes == PoolSpec => []PoolTypeOK
<1>1. PoolInv /\ TypeOK => PoolTypeOK
  BY DEF PoolInv, PoolTypeOK, Holders
<1> QED
  BY <1>1, PoolInvariance, PoolImplementsService, ServiceTypeOK, PTL

\* With all clients out there is a holder, and when none of the holders has its
\* row, no transaction is open and every row is free.
LEMMA NoCircle ==
  ASSUME PoolInv
  PROVE  NobodyDeadlocks
<1> SUFFICES ASSUME ~ClientFree, \A w \in Workers : phase[w] # "open"
             PROVE  \/ \E w \in Workers : phase[w] = "locking" /\ RowFree(wants[w])
                    \/ \E i \in calling : RowFree(i)
  BY DEF NobodyDeadlocks, PoolInv
<1>1. \A i : RowFree(i)
  BY DEF RowFree, PoolInv
<1>2. Holders # {} \/ calling # {}
  <2> SUFFICES ASSUME Holders = {}, calling = {} PROVE ClientFree
    OBVIOUS
  <2>1. {w \in Workers : phase[w] \in {"locking", "open"}} = {}
    BY DEF Holders
  <2>2. Cardinality({}) = 0
    BY FS_EmptySet
  <2> QED
    BY <2>1, <2>2, PoolAssumption DEF ClientFree
<1> QED
  BY <1>1, <1>2 DEF Holders

\* Clients and row locks never wait for each other in a circle, for any number of
\* workers, of intents and of clients.
THEOREM PoolNobodyDeadlocks == PoolSpec => []NobodyDeadlocks
BY NoCircle, PoolInvariance, PTL
==============================================================================

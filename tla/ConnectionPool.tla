--------------------------- MODULE ConnectionPool ---------------------------
(***************************************************************************)
(* PaymentService with the connection pool of config/database.js: every     *)
(* transaction checks one client out, waits for its row lock with that      *)
(* client in hand, and runs all its statements on it; release is in a       *)
(* finally.  A checkout waits, with no timeout, while all clients are out.  *)
(***************************************************************************)
EXTENDS PaymentService

CONSTANT PoolMax        \* databasePoolMax

ASSUME PoolAssumption == PoolMax \in Nat \ {0} /\ IsFiniteSet(Workers \cup Intents)

VARIABLES phase,        \* phase[w]: where worker w is between its requests
          wants,        \* wants[w]: the intent of its request
          calling       \* intents whose createPayment holds a client

poolVars == <<status, orders, attempts, txns, history, call, job,
              phase, wants, calling>>

\* No request, in line for a client, in line for the row, past the row lock.
Phases == {"idle", "waiting", "locking", "open"}

PoolInit ==
  /\ Init
  /\ phase = [w \in Workers |-> "idle"]
  /\ wants \in [Workers -> Intents]
  /\ calling = {}

\* One client too many is handed out.
ClientFree_OneMore ==
  Cardinality({w \in Workers : phase[w] \in {"locking", "open"}})
    + Cardinality(calling) <= PoolMax

\* pool.connect has a client to give.
ClientFree ==
  Cardinality({w \in Workers : phase[w] \in {"locking", "open"}})
    + Cardinality(calling) < PoolMax

Move(w, point) == phase' = [phase EXCEPT ![w] = point]

-----------------------------------------------------------------------------
(* createPayment *)

\* The points of createPayment that run a transaction.
Transacting(i) == call[i].at \in {"none", "persisting", "failing"}

Checkout(i) ==
  /\ Transacting(i) /\ i \notin calling
  /\ ClientFree
  /\ calling' = calling \cup {i}
  /\ UNCHANGED <<vars, phase, wants>>

\* A step of createPayment: transactions need their client and give it back,
\* whether they commit or throw; the final read is a query on the pool.
PoolCreate(i) ==
  /\ CreateStep(i)
  /\ \/ CrashCreate(i)
     \/ /\ Transacting(i) => i \in calling
        /\ call[i].at = "responding" => ClientFree
  /\ calling' = calling \ {i}
  /\ UNCHANGED <<phase, wants>>

-----------------------------------------------------------------------------
(* Workers *)

\* A webhook, /verify, sweep or failure report reaches its transaction.
Ask(w) ==
  /\ phase[w] = "idle"
  /\ \E i \in orders : wants' = [wants EXCEPT ![w] = i]
  /\ Move(w, "waiting")
  /\ UNCHANGED <<vars, calling>>

Connect(w) ==
  /\ phase[w] = "waiting"
  /\ ClientFree
  /\ Move(w, "locking")
  /\ UNCHANGED <<vars, wants, calling>>

\* SELECT ... FOR UPDATE returns.
LockRow(w) ==
  /\ phase[w] = "locking"
  /\ Begin(w) /\ job'[w].intent = wants[w]
  /\ Move(w, "open")
  /\ UNCHANGED <<wants, calling>>

\* BEGIN or the lock statement throws.
GiveUp(w) ==
  /\ phase[w] = "locking"
  /\ Move(w, "idle")
  /\ UNCHANGED <<vars, wants, calling>>

\* A repository call inside the transaction that leaves out its executor, and
\* so asks the pool for a second client.
PoolStep_NoExecutor(w) ==
  /\ phase[w] = "open"
  /\ JobStep(w)
  /\ job[w].next = 0 /\ job'[w] # NoJob => ClientFree
  /\ Move(w, IF job'[w] = NoJob THEN "idle" ELSE "open")
  /\ UNCHANGED <<wants, calling>>

\* The transaction's statements run on its client, which goes back at its end.
PoolStep(w) ==
  /\ phase[w] = "open"
  /\ JobStep(w)
  /\ Move(w, IF job'[w] = NoJob THEN "idle" ELSE "open")
  /\ UNCHANGED <<wants, calling>>

\* The client goes back although ROLLBACK has failed, its transaction open.
Abort_LeavesOpen(w) ==
  /\ phase[w] = "open"
  /\ Move(w, "idle")
  /\ UNCHANGED <<vars, wants, calling>>

Abort(w) ==
  /\ phase[w] = "open"
  /\ Rollback(w)
  /\ Move(w, "idle")
  /\ UNCHANGED <<wants, calling>>

-----------------------------------------------------------------------------

PoolNext ==
  \/ \E i \in Intents : Checkout(i) \/ PoolCreate(i)
  \/ \E w \in Workers :
       Ask(w) \/ Connect(w) \/ LockRow(w) \/ GiveUp(w) \/ PoolStep(w) \/ Abort(w)

PoolSpec == PoolInit /\ [][PoolNext]_poolVars

\* The database answers every statement.  Who waits for a client or for a row is
\* served in turn: pg-pool and PostgreSQL keep queues, so a checkout or a lock
\* that is possible again and again is granted in the end.
PoolFairSpec ==
  /\ PoolSpec
  /\ \A i \in Intents :
       /\ SF_poolVars(call[i].at # "none" /\ Checkout(i))
       /\ SF_poolVars(call[i].at # "none" /\ PoolCreate(i))
  /\ \A w \in Workers :
       SF_poolVars(Connect(w)) /\ SF_poolVars(LockRow(w)) /\ WF_poolVars(PoolStep(w))

-----------------------------------------------------------------------------

\* Types; no more clients are out than the pool has; and a client is in the pool
\* again only when its transaction has ended.
PoolTypeOK ==
  /\ TypeOK
  /\ phase \in [Workers -> Phases]
  /\ wants \in [Workers -> Intents]
  /\ calling \subseteq Intents
  /\ Cardinality({w \in Workers : phase[w] \in {"locking", "open"}})
       + Cardinality(calling) <= PoolMax
  /\ \A w \in Workers : job[w] # NoJob <=> phase[w] = "open"

\* Clients and rows are never waited for in a circle: whenever somebody waits for
\* one or the other, a client is free, or some transaction has both its client
\* and its row, or some holder of a client finds its row free.  (That whoever has
\* both goes on to its end is EveryRequestIsServed.)
NobodyDeadlocks ==
  \/ \A w \in Workers : phase[w] \notin {"waiting", "locking"}
  \/ ClientFree
  \/ \E w \in Workers : job[w] # NoJob /\ phase[w] = "open"
  \/ \E w \in Workers : phase[w] = "locking" /\ RowFree(wants[w])
  \/ \E i \in calling : RowFree(i)

\* No row lock is held for ever, whatever early return its transaction takes.
LocksAreReleased ==
  \A i \in Intents : ~RowFree(i) ~> RowFree(i)

\* Nobody waits for ever: with all clients out and their holders in line for one
\* row, every request gets its client, its row and its end, and every
\* createPayment call an answer.
EveryRequestIsServed ==
  /\ \A w \in Workers : phase[w] = "waiting" ~> phase[w] = "idle"
  /\ \A i \in Intents : CreateInProgress(i) ~> ~CreateInProgress(i)
==============================================================================

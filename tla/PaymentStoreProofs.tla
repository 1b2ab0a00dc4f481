------------------------- MODULE PaymentStoreProofs -------------------------
(***************************************************************************)
(* Proofs about the serial specification of the payment tables.            *)
(***************************************************************************)
EXTENDS PaymentStore, FiniteSetTheorems, TLAPS

-----------------------------------------------------------------------------
(* The transactions, written as the parameters they are called with. *)

\* A step of the serial specification is one of eight transactions on one
\* intent, reading the current row; the form every proof below splits on.
LEMMA StoreNextCases ==
  ASSUME StoreNext
  PROVE  \E i \in Intents :
           \/ InsertIntent(i)
           \/ status[i] = "PENDING" /\ InsertOrder(i)
           \/ FailIntent(i)
           \/ \E p \in PaymentsOf(i), gs \in GatewayStatuses :
                i \in orders /\ WriteMismatch(i, p, gs, status[i], NextAttemptNumber(i))
           \/ \E p \in PaymentsOf(i), gs \in GatewayStatuses :
                i \in orders /\ WriteProgress(i, p, gs, status[i], NextAttemptNumber(i))
           \/ \E p \in PaymentsOf(i), gs \in GatewayStatuses :
                i \in orders /\ WriteSettlement(i, p, gs, status[i], NextAttemptNumber(i))
           \/ \E p \in Payments \cup {NoPay} :
                i \in orders /\ WriteReport(i, p, NextAttemptNumber(i))
           \/ i \in orders /\ WriteExpiry(i, status[i])
BY Zenon DEF StoreNext, ApplyOutcome, ReportFailure, Expire

-----------------------------------------------------------------------------
(* Attempt rows *)

\* AttemptsNumbered in the form that is inductive: a finite set of rows numbered
\* 1..k, one row per number.
NumberedRows(S) ==
  /\ IsFiniteSet(S)
  /\ {a.num : a \in S} = 1 .. Cardinality(S)
  /\ \A a, b \in S : a.num = b.num => a = b

Numbered(i) == NumberedRows(attempts[i])

\* In the table A a gateway payment has one row at most, under one intent.
UniquePayments(A) ==
  \A i, k \in Intents : \A a \in A[i], b \in A[k] :
    a.pay = b.pay /\ a.pay # NoPay => i = k /\ a = b

\* MAX(attempt_number) + 1 is the number of rows plus one when the rows are
\* numbered without a gap.
LEMMA NextIsSuccessor ==
  ASSUME NEW i, Numbered(i)
  PROVE  /\ Cardinality(attempts[i]) \in Nat
         /\ NextAttemptNumber(i) = Cardinality(attempts[i]) + 1
<1> DEFINE k == Cardinality(attempts[i])
<1>1. k \in Nat
  BY FS_CardinalityType DEF Numbered, NumberedRows
<1>2. Numbers(i) = 1 .. k
  BY DEF Numbered, NumberedRows, Numbers
<1> HIDE DEF k
<1>3. k \in Numbers(i) \cup {0} /\ \A n \in Numbers(i) : n <= k
  BY <1>1, <1>2
<1>4. ASSUME NEW m \in Numbers(i) \cup {0}, \A n \in Numbers(i) : n <= m
      PROVE  m = k
  <2>1. m \in Nat /\ m <= k
    BY <1>1, <1>2
  <2>2. CASE k = 0
    BY <2>1, <2>2
  <2>3. CASE k # 0
    <3>1. k \in Numbers(i)
      BY <1>1, <1>2, <2>3
    <3> QED
      BY <1>1, <1>4, <2>1, <3>1
  <2> QED
    BY <2>2, <2>3
<1>5. (CHOOSE m \in Numbers(i) \cup {0} : \A n \in Numbers(i) : n <= m) = k
  BY <1>3, <1>4, Zenon
<1>6. NextAttemptNumber(i) = 1 + k
  BY <1>5, Zenon DEF NextAttemptNumber
<1> QED
  BY <1>1, <1>6 DEF k

\* Inserting a row with the next number keeps the rows numbered.
LEMMA InsertRow ==
  ASSUME NEW S \in SUBSET AttemptRows, NumberedRows(S),
         NEW r \in AttemptRows, r.num = Cardinality(S) + 1
  PROVE  NumberedRows(S \cup {r})
<1> DEFINE k == Cardinality(S)
           T == S \cup {r}
<1>1. k \in Nat
  BY FS_CardinalityType DEF NumberedRows
<1>2. {a.num : a \in S} = 1 .. k
  BY DEF NumberedRows
<1>3. \A a \in S : a.num \in 1 .. k
  BY <1>2
<1>4. \A a \in S : a.num # r.num
  BY <1>1, <1>3
<1>5. r \notin S
  BY <1>4
<1>6. IsFiniteSet(T) /\ Cardinality(T) = k + 1
  BY <1>5, FS_AddElement DEF NumberedRows
<1>7. {a.num : a \in T} = 1 .. (k + 1)
  <2>1. {a.num : a \in T} = {a.num : a \in S} \cup {k + 1}
    OBVIOUS
  <2> QED
    BY <1>1, <1>2, <2>1
<1>8. \A a, b \in T : a.num = b.num => a = b
  BY <1>4 DEF NumberedRows
<1> QED
  BY <1>6, <1>7, <1>8 DEF NumberedRows

\* Changing the status of a row keeps the rows numbered.
LEMMA UpdateRow ==
  ASSUME NEW S \in SUBSET AttemptRows, NumberedRows(S),
         NEW a \in S, NEW st \in AttemptStatuses
  PROVE  NumberedRows((S \ {a}) \cup {[a EXCEPT !.status = st]})
<1> DEFINE c == [a EXCEPT !.status = st]
           R == S \ {a}
           T == R \cup {c}
<1>1. /\ Cardinality(S) \in Nat
      /\ IsFiniteSet(R) /\ Cardinality(R) = Cardinality(S) - 1
  BY FS_CardinalityType, FS_RemoveElement DEF NumberedRows
<1>2. c.num = a.num
  BY DEF AttemptRows
<1>3. c \notin R
  BY <1>2 DEF NumberedRows
<1>4. IsFiniteSet(T) /\ Cardinality(T) = Cardinality(S)
  BY <1>1, <1>3, FS_AddElement
<1>5. {b.num : b \in T} = {b.num : b \in S}
  BY <1>2
<1>6. \A b, d \in T : b.num = d.num => b = d
  BY <1>2 DEF NumberedRows
<1> QED
  BY <1>4, <1>5, <1>6 DEF NumberedRows

\* A table of attempts that satisfies what AttemptsNumbered says.
TableOK(A) ==
  /\ A \in [Intents -> SUBSET AttemptRows]
  /\ \A i \in Intents : NumberedRows(A[i])
  /\ UniquePayments(A)

\* What an upsert of payment p with status st does to a table A, giving U: the
\* payment has a row and all its rows have the new status, other rows are as they
\* were, no row is lost or renumbered, and only intent i may get a new number.
Upserted(A, U, i, p, st) ==
  /\ \E k \in Intents : \E b \in U[k] : b.pay = p
  /\ \A k \in Intents : \A b \in U[k] : b.pay = p => b.status = st
  /\ \A k \in Intents : \A b : b.pay # p => (b \in U[k] <=> b \in A[k])
  /\ \A k \in Intents : \A a \in A[k] : \E b \in U[k] :
       /\ b.num = a.num /\ b.pay = a.pay
       /\ b.status = a.status \/ b.status = st
  /\ \A k \in Intents \ {i} : {b.num : b \in U[k]} = {a.num : a \in A[k]}

\* The conflicting half of upsertAttempt: the payment's row, wherever it is kept,
\* takes the new status.
LEMMA UpdateTable ==
  ASSUME StoreAssumption, TableOK(attempts), NEW i \in Intents,
         NEW p \in Payments, NEW st \in AttemptStatuses, NEW n, Recorded(p)
  PROVE  TableOK(Upsert(i, p, st, n)) /\ Upserted(attempts, Upsert(i, p, st, n), i, p, st)
<1> DEFINE C(a) == IF a.pay = p THEN [a EXCEPT !.status = st] ELSE a
           U == [k \in Intents |-> {C(a) : a \in attempts[k]}]
<1>1. Upsert(i, p, st, n) = U
  BY DEF Upsert
<1>2. p # NoPay
  BY DEF StoreAssumption
<1>3. \A k \in Intents : \A a \in attempts[k] :
        /\ C(a) \in AttemptRows /\ C(a).num = a.num /\ C(a).pay = a.pay
        /\ a.pay = p => C(a).status = st
        /\ a.pay # p => C(a) = a
  BY DEF TableOK, AttemptRows
<1>4. \A k \in Intents : \A a, b \in attempts[k] : C(a) = C(b) => a = b
  <2> SUFFICES ASSUME NEW k \in Intents, NEW a \in attempts[k], NEW b \in attempts[k],
                      C(a) = C(b)
               PROVE  a = b
    OBVIOUS
  <2>1. a.num = b.num
    BY <1>3
  <2> QED
    BY <2>1 DEF TableOK, NumberedRows
<1> HIDE DEF C
<1>5. \A k \in Intents : \A b \in U[k] : \E a \in attempts[k] : b = C(a)
  OBVIOUS
<1>6. \A k \in Intents : \A a \in attempts[k] : C(a) \in U[k]
  OBVIOUS
<1>7. \A k \in Intents : NumberedRows(U[k])
  <2> SUFFICES ASSUME NEW k \in Intents PROVE NumberedRows(U[k])
    OBVIOUS
  <2>1. attempts[k] \in SUBSET AttemptRows /\ NumberedRows(attempts[k])
    BY DEF TableOK
  <2>2. CASE \A a \in attempts[k] : a.pay # p
    <3>1. U[k] = attempts[k]
      BY <1>3, <1>5, <1>6, <2>2
    <3> QED
      BY <2>1, <3>1
  <2>3. CASE \E a \in attempts[k] : a.pay = p
    <3>1. PICK a \in attempts[k] : a.pay = p
      BY <2>3
    <3>2. \A b \in attempts[k] : b.pay = p => b = a
      BY <1>2, <3>1 DEF TableOK, UniquePayments
    <3>3. C(a) = [a EXCEPT !.status = st]
      BY <3>1 DEF C
    <3>4. U[k] = (attempts[k] \ {a}) \cup {C(a)}
      <4>1. \A b \in U[k] : b \in (attempts[k] \ {a}) \cup {C(a)}
        BY <1>3, <1>5, <3>2
      <4>2. \A b \in attempts[k] \ {a} : b \in U[k]
        BY <1>3, <1>6, <3>2
      <4> QED
        BY <1>6, <4>1, <4>2
    <3> QED
      BY <2>1, <3>3, <3>4, UpdateRow
  <2> QED
    BY <2>2, <2>3
<1>8. UniquePayments(U)
  <2> SUFFICES ASSUME NEW j \in Intents, NEW k \in Intents,
                      NEW a \in U[j], NEW b \in U[k],
                      a.pay = b.pay, a.pay # NoPay
               PROVE  j = k /\ a = b
    BY DEF UniquePayments
  <2>1. PICK c \in attempts[j] : a = C(c)
    BY <1>5
  <2>2. PICK d \in attempts[k] : b = C(d)
    BY <1>5
  <2>3. c.pay = d.pay /\ c.pay # NoPay
    BY <1>3, <2>1, <2>2
  <2> QED
    BY <2>1, <2>2, <2>3 DEF TableOK, UniquePayments
<1>9. U \in [Intents -> SUBSET AttemptRows]
  BY <1>3, <1>5
<1>10. \E k \in Intents : \E b \in U[k] : b.pay = p
  <2>1. PICK k \in Intents : \E a \in attempts[k] : a.pay = p
    BY DEF Recorded
  <2> QED
    BY <1>3, <1>6, <2>1
<1>11. \A k \in Intents : \A b \in U[k] : b.pay = p => b.status = st
  BY <1>3, <1>5
<1>12. \A k \in Intents : \A b : b.pay # p => (b \in U[k] <=> b \in attempts[k])
  BY <1>3, <1>5, <1>6
<1>13. \A k \in Intents : \A a \in attempts[k] : \E b \in U[k] :
         /\ b.num = a.num /\ b.pay = a.pay
         /\ b.status = a.status \/ b.status = st
  BY <1>3, <1>6
<1>14. \A k \in Intents \ {i} : {b.num : b \in U[k]} = {a.num : a \in attempts[k]}
  <2> SUFFICES ASSUME NEW k \in Intents
               PROVE  {b.num : b \in U[k]} = {a.num : a \in attempts[k]}
    OBVIOUS
  <2>1. \A b \in U[k] : \E a \in attempts[k] : b.num = a.num
    BY <1>3, <1>5
  <2>2. \A a \in attempts[k] : \E b \in U[k] : b.num = a.num
    BY <1>3, <1>6
  <2> QED
    BY <2>1, <2>2
<1> HIDE DEF U
<1> QED
  BY <1>1, <1>7, <1>8, <1>9, <1>10, <1>11, <1>12, <1>13, <1>14 DEF TableOK, Upserted

\* The inserting half, shared with a client's report: intent i gets a row with the
\* next number for a payment that has none.
LEMMA InsertTable ==
  ASSUME StoreAssumption, TableOK(attempts), NEW i \in Intents,
         NEW p \in Payments \cup {NoPay}, NEW st \in AttemptStatuses,
         p = NoPay \/ ~Recorded(p)
  PROVE  LET r == [num |-> NextAttemptNumber(i), pay |-> p, status |-> st]
             U == [attempts EXCEPT ![i] = @ \cup {r}]
         IN  /\ TableOK(U)
             /\ U[i] = attempts[i] \cup {r}
             /\ \A k \in Intents \ {i} : U[k] = attempts[k]
<1> DEFINE S == attempts[i]
           r == [num |-> NextAttemptNumber(i), pay |-> p, status |-> st]
           U == [attempts EXCEPT ![i] = S \cup {r}]
<1>1. /\ S \in SUBSET AttemptRows /\ NumberedRows(S) /\ Numbered(i)
      /\ Cardinality(S) \in Nat /\ NextAttemptNumber(i) = Cardinality(S) + 1
  BY NextIsSuccessor DEF TableOK, Numbered
<1>2. r \in AttemptRows /\ r.num = Cardinality(S) + 1 /\ r.pay = p
  BY <1>1 DEF AttemptRows
<1> HIDE DEF r
<1>3. NumberedRows(S \cup {r})
  BY <1>1, <1>2, InsertRow
<1>4. U[i] = S \cup {r} /\ \A k \in Intents \ {i} : U[k] = attempts[k]
  BY DEF TableOK
<1>5. U \in [Intents -> SUBSET AttemptRows]
  BY <1>1, <1>2 DEF TableOK
<1>6. \A k \in Intents : NumberedRows(U[k])
  BY <1>3, <1>4 DEF TableOK
<1>7. UniquePayments(U)
  <2>1. \A k \in Intents : \A a \in attempts[k] : r.pay # NoPay => a.pay # r.pay
    BY <1>2 DEF Recorded
  <2>2. \A k \in Intents : \A a \in U[k] : a \in attempts[k] \/ (k = i /\ a = r)
    BY <1>4
  <2> HIDE DEF U
  <2> QED
    BY <2>1, <2>2 DEF TableOK, UniquePayments
<1> QED
  BY <1>4, <1>5, <1>6, <1>7 DEF TableOK, r

\* What upsertAttempt does to numbered rows: they stay numbered, a payment keeps
\* its one row, and no row is lost.
LEMMA UpsertRows ==
  ASSUME StoreAssumption, TableOK(attempts), NEW i \in Intents,
         NEW p \in Payments, NEW st \in AttemptStatuses
  PROVE  LET U == Upsert(i, p, st, NextAttemptNumber(i)) IN
         TableOK(U) /\ Upserted(attempts, U, i, p, st)
<1>1. CASE Recorded(p)
  BY <1>1, UpdateTable
<1>2. CASE ~Recorded(p)
  <2> DEFINE r == [num |-> NextAttemptNumber(i), pay |-> p, status |-> st]
             U == [attempts EXCEPT ![i] = @ \cup {r}]
  <2>1. Upsert(i, p, st, NextAttemptNumber(i)) = U
    BY <1>2 DEF Upsert
  <2>2. /\ TableOK(U) /\ U[i] = attempts[i] \cup {r}
        /\ \A k \in Intents \ {i} : U[k] = attempts[k]
    BY <1>2, InsertTable
  <2>3. r.pay = p /\ r.status = st
    OBVIOUS
  <2> HIDE DEF r, U
  <2>4. \A k \in Intents : \A a \in attempts[k] : a.pay # p
    BY <1>2 DEF Recorded
  <2>5. \A k \in Intents : \A a : a \in U[k] <=> a \in attempts[k] \/ (k = i /\ a = r)
    BY <2>2
  <2>6. Upserted(attempts, U, i, p, st)
    BY <2>2, <2>3, <2>4, <2>5 DEF Upserted
  <2> QED
    BY <2>1, <2>2, <2>6
<1> QED
  BY <1>1, <1>2

-----------------------------------------------------------------------------
(* The invariants of the tables *)

\* SettledOnce of one intent, and of the attempts: those that SUCCEEDED are those
\* of the payments with a transaction.
Settled(i) ==
  IF status[i] = "COMPLETED"
  THEN \E p \in Payments \ Mismatched : OrderOf[p] = i /\ txns[i] = {p}
  ELSE txns[i] = {}

Won(A, p) == \E k \in Intents : \E a \in A[k] : a.pay = p /\ a.status = "SUCCEEDED"

WonIsPaid == \A p : Won(attempts, p) <=> \E k \in Intents : p \in txns[k]

\* HistoryIsLegal of one history h of an intent with status st.
Tells(h, st) ==
  /\ IF h = <<>> THEN st = NoState
     ELSE h[1] = Edge(NoState, "CREATED") /\ st = h[Len(h)].to
  /\ \A n \in 2 .. Len(h) :
       /\ CanTransition(h[n].from, h[n].to)
       /\ h[n].from = h[n-1].to \/ LateFailure(h, n)

Told(i) == Tells(history[i], status[i])

HistoryRows == [from : States \cup {NoState}, to : States]

StoreInv ==
  /\ StoreTypeOK
  /\ TableOK(attempts)
  /\ \A i \in Intents : Settled(i)
  /\ WonIsPaid
  /\ \A i \in Intents : Told(i)

\* Empty tables satisfy the invariant.
LEMMA StoreInitInv ==
  ASSUME StoreInit PROVE StoreInv
<1>1. StoreTypeOK
  BY DEF StoreInit, StoreTypeOK, States, NoState
<1>2. TableOK(attempts)
  <2>1. NumberedRows({})
    <3>1. IsFiniteSet({}) /\ Cardinality({}) = 0
      BY FS_EmptySet
    <3>2. {a.num : a \in {}} = 1 .. 0
      OBVIOUS
    <3> QED
      BY <3>1, <3>2 DEF NumberedRows
  <2> QED
    BY <2>1 DEF StoreInit, TableOK, UniquePayments
<1>3. (\A i \in Intents : Settled(i)) /\ WonIsPaid
  BY DEF StoreInit, Settled, NoState, WonIsPaid, Won
<1>4. \A i \in Intents : Told(i)
  BY DEF StoreInit, Told, Tells
<1> QED
  BY <1>1, <1>2, <1>3, <1>4 DEF StoreInv

\* The edges that may follow a history of an intent with status st: out of st, or
\* the failure written late.
MayFollow(st, e) ==
  /\ CanTransition(e.from, e.to)
  /\ e.from = st \/ (st = "EXPIRED" /\ e = Edge("PENDING", "FAILED"))

\* Appending an edge that may follow gives a history that tells its target.
LEMMA AppendRow ==
  ASSUME NEW h \in Seq(HistoryRows), NEW st \in States, Tells(h, st),
         NEW e \in HistoryRows, MayFollow(st, e)
  PROVE  /\ h \o <<e>> \in Seq(HistoryRows)
         /\ Tells(h \o <<e>>, e.to)
<1> DEFINE g == h \o <<e>>
<1>1. /\ CanTransition(e.from, e.to)
      /\ e.from = st \/ (st = "EXPIRED" /\ e = Edge("PENDING", "FAILED"))
  BY DEF MayFollow
<1>2. h # <<>> /\ h[1] = Edge(NoState, "CREATED") /\ st = h[Len(h)].to
  BY DEF Tells, States, NoState
<1>3. \A n \in 2 .. Len(h) :
        /\ CanTransition(h[n].from, h[n].to)
        /\ \/ h[n].from = h[n-1].to
           \/ h[n-1].to = "EXPIRED" /\ h[n] = Edge("PENDING", "FAILED")
  BY DEF Tells, LateFailure
<1>4. Len(h) \in Nat \ {0}
  BY <1>2
<1>5. /\ g \in Seq(HistoryRows) /\ Len(g) = Len(h) + 1 /\ g[Len(h) + 1] = e
      /\ \A n \in 1 .. Len(h) : g[n] = h[n]
  BY <1>4
<1> HIDE DEF g
<1>6. \A n \in 2 .. Len(g) :
        CanTransition(g[n].from, g[n].to) /\ (g[n].from = g[n-1].to \/ LateFailure(g, n))
  <2> SUFFICES ASSUME NEW n \in 2 .. Len(g)
               PROVE  CanTransition(g[n].from, g[n].to)
                      /\ (g[n].from = g[n-1].to \/ LateFailure(g, n))
    OBVIOUS
  <2>1. CASE n \in 2 .. Len(h)
    <3>1. g[n] = h[n] /\ g[n-1] = h[n-1]
      BY <1>4, <1>5, <2>1
    <3> QED
      BY <1>3, <2>1, <3>1 DEF LateFailure
  <2>2. CASE n = Len(h) + 1
    <3>1. g[n] = e /\ g[n-1].to = st
      BY <1>2, <1>4, <1>5, <2>2
    <3> QED
      BY <1>1, <3>1 DEF LateFailure
  <2> QED
    BY <1>4, <1>5, <2>1, <2>2
<1>7. g # <<>> /\ g[1] = Edge(NoState, "CREATED") /\ e.to = g[Len(g)].to
  BY <1>2, <1>4, <1>5
<1>8. Tells(g, e.to)
  BY <1>6, <1>7 DEF Tells
<1> QED
  BY <1>5, <1>8 DEF g

\* Appending a legal edge out of the status a history tells gives a history that
\* tells the edge's target.
LEMMA AppendEdge ==
  ASSUME NEW h \in Seq(HistoryRows), NEW st \in States, Tells(h, st),
         NEW to \in States, CanTransition(st, to)
  PROVE  /\ h \o <<Edge(st, to)>> \in Seq(HistoryRows)
         /\ Tells(h \o <<Edge(st, to)>>, to)
<1> DEFINE e == Edge(st, to)
<1>1. e \in HistoryRows /\ MayFollow(st, e) /\ e.to = to
  BY DEF Edge, HistoryRows, MayFollow
<1> HIDE DEF e
<1>2. h \o <<e>> \in Seq(HistoryRows) /\ Tells(h \o <<e>>, e.to)
  BY <1>1, AppendRow
<1> QED
  BY <1>1, <1>2 DEF e

\* A transaction moves one intent only, so what the invariant says of intents needs
\* to be re-established for that intent alone.  Of the attempts it may change a row
\* kept under another intent.
LEMMA Frame ==
  ASSUME StoreInv, NEW i \in Intents, StoreTypeOK',
         \A j \in Intents \ {i} : /\ status'[j] = status[j]
                                  /\ txns'[j] = txns[j]
                                  /\ history'[j] = history[j],
         TableOK(attempts)', WonIsPaid', Settled(i)', Told(i)'
  PROVE  StoreInv'
<1>1. \A j \in Intents : Settled(j)'
  BY DEF StoreInv, Settled
<1>2. \A j \in Intents : Told(j)'
  BY DEF StoreInv, Told
<1> QED
  BY <1>1, <1>2 DEF StoreInv

\* No transaction is of a payment of an intent that is not COMPLETED.
LEMMA UnpaidPayment ==
  ASSUME StoreInv, NEW i \in Intents, status[i] # "COMPLETED", NEW p \in PaymentsOf(i)
  PROVE  \A k \in Intents : p \notin txns[k]
BY DEF StoreInv, Settled, PaymentsOf

\* createPayment's first transaction keeps the invariant.
LEMMA InsertIntentInv ==
  ASSUME StoreInv, NEW i \in Intents, InsertIntent(i)
  PROVE  StoreInv'
<1> DEFINE e1 == Edge(NoState, "CREATED")
           e2 == Edge("CREATED", "PENDING")
<1> USE DEF InsertIntent, SetStatus, Record
<1>1. history[i] = <<>> /\ txns[i] = {}
  <2>1. Told(i) /\ Settled(i) /\ StoreTypeOK
    BY DEF StoreInv
  <2>2. ASSUME history[i] # <<>> PROVE history[i][Len(history[i])].to \in States
    <3>1. history[i] \in Seq(HistoryRows)
      BY <2>1 DEF StoreTypeOK, HistoryRows
    <3>2. history[i][Len(history[i])] \in HistoryRows
      BY <2>2, <3>1
    <3> QED
      BY <3>2 DEF HistoryRows
  <2>4. status[i] = NoState /\ NoState \notin States
    BY DEF States, NoState
  <2> QED
    BY <2>1, <2>2, <2>4 DEF Told, Tells, Settled, NoState
<1>2. history'[i] = <<e1, e2>>
  BY <1>1 DEF StoreInv, StoreTypeOK
<1>3. <<e1, e2>> \in Seq(HistoryRows)
  BY DEF Edge, HistoryRows, States, NoState
<1>4. Tells(<<e1, e2>>, "PENDING")
  BY DEF Tells, Edge, CanTransition
<1>5. status'[i] = "PENDING"
  BY DEF StoreInv, StoreTypeOK
<1>6. StoreTypeOK'
  <2>1. history' \in [Intents -> Seq(HistoryRows)]
    BY <1>2, <1>3 DEF StoreInv, StoreTypeOK, HistoryRows
  <2>2. status' \in [Intents -> States \cup {NoState}]
    BY DEF StoreInv, StoreTypeOK, States
  <2> QED
    BY <2>1, <2>2 DEF StoreInv, StoreTypeOK, HistoryRows
<1>7. TableOK(attempts)' /\ WonIsPaid'
  BY DEF StoreInv, TableOK, NumberedRows, UniquePayments, WonIsPaid, Won
<1>8. Settled(i)'
  BY <1>1, <1>5 DEF StoreInv, Settled
<1>9. Told(i)'
  BY <1>2, <1>4, <1>5 DEF Told
<1>10. \A j \in Intents \ {i} : /\ status'[j] = status[j]
                                /\ txns'[j] = txns[j]
                                /\ history'[j] = history[j]
  BY DEF StoreInv, StoreTypeOK
<1> QED
  BY <1>6, <1>7, <1>8, <1>9, <1>10, Frame

\* Moving an intent along one edge that may follow, to a state other than
\* COMPLETED, with its attempts and transactions as they were.
LEMMA MoveInv ==
  ASSUME StoreInv, NEW i \in Intents, NEW e \in HistoryRows,
         status[i] # NoState, status[i] # "COMPLETED", e.to # "COMPLETED",
         MayFollow(status[i], e),
         SetStatus(i, e.to), Record(i, <<e>>),
         UNCHANGED <<orders, attempts, txns>>
  PROVE  StoreInv'
<1> USE DEF SetStatus, Record
<1>1. /\ status[i] \in States /\ history[i] \in Seq(HistoryRows)
      /\ Tells(history[i], status[i]) /\ e.to \in States
  BY DEF StoreInv, StoreTypeOK, Told, HistoryRows
<1>2. /\ history'[i] \in Seq(HistoryRows)
      /\ Tells(history'[i], e.to) /\ status'[i] = e.to
  BY <1>1, AppendRow DEF StoreInv, StoreTypeOK
<1>3. StoreTypeOK'
  BY <1>1, <1>2 DEF StoreInv, StoreTypeOK, HistoryRows
<1>4. /\ Settled(i)' /\ Told(i)'
      /\ TableOK(attempts)' /\ WonIsPaid'
  BY <1>2 DEF StoreInv, TableOK, NumberedRows, UniquePayments, Settled, Told,
              WonIsPaid, Won
<1>5. \A j \in Intents \ {i} : /\ status'[j] = status[j]
                               /\ txns'[j] = txns[j]
                               /\ history'[j] = history[j]
  BY DEF StoreInv, StoreTypeOK
<1> QED
  BY <1>3, <1>4, <1>5, Frame

\* createPayment's FAILED transaction keeps the invariant, in time or late.
LEMMA WriteCreateFailedInv ==
  ASSUME StoreInv, NEW i \in Intents, status[i] \in {"PENDING", "EXPIRED"},
         WriteCreateFailed(i)
  PROVE  StoreInv'
<1> DEFINE e == Edge("PENDING", "FAILED")
<1>1. e \in HistoryRows /\ e.from = "PENDING" /\ e.to = "FAILED"
  BY DEF Edge, HistoryRows, States
<1>2. MayFollow(status[i], e)
  BY <1>1 DEF MayFollow, CanTransition
<1>3. /\ SetStatus(i, e.to) /\ Record(i, <<e>>)
      /\ UNCHANGED <<orders, attempts, txns>>
  BY <1>1 DEF WriteCreateFailed
<1> HIDE DEF e
<1> QED
  BY <1>1, <1>2, <1>3, MoveInv DEF NoState

\* expireStalePayment keeps the invariant.
LEMMA WriteExpiryInv ==
  ASSUME StoreInv, NEW i \in Intents, WriteExpiry(i, status[i])
  PROVE  StoreInv'
<1>1. CanTransition(status[i], "EXPIRED") /\ ~IsTerminal(status[i])
  BY DEF WriteExpiry, Expirable
<1>2. status[i] # NoState /\ status[i] # "COMPLETED"
  BY <1>1 DEF CanTransition, IsTerminal, TerminalStates, NoState
<1> DEFINE e == Edge(status[i], "EXPIRED")
<1>3. /\ e \in HistoryRows /\ e.to = "EXPIRED" /\ MayFollow(status[i], e)
      /\ SetStatus(i, e.to) /\ Record(i, <<e>>)
      /\ UNCHANGED <<orders, attempts, txns>>
  BY <1>1 DEF WriteExpiry, Edge, HistoryRows, States, MayFollow, StoreInv, StoreTypeOK
<1> HIDE DEF e
<1> QED
  BY <1>2, <1>3, MoveInv

\* UpsertRows where it is used: the table after an upsert, and the payments whose
\* attempt has SUCCEEDED then.
LEMMA UpsertInv ==
  ASSUME StoreInv, NEW i \in Intents, NEW p \in PaymentsOf(i),
         NEW st \in AttemptStatuses,
         attempts' = Upsert(i, p, st, NextAttemptNumber(i))
  PROVE  /\ TableOK(attempts')
         /\ Upserted(attempts, attempts', i, p, st)
         /\ \A q : q # p => (Won(attempts', q) <=> Won(attempts, q))
         /\ Won(attempts', p) <=> st = "SUCCEEDED"
<1>1. TableOK(attempts) /\ p \in Payments
  BY DEF StoreInv, PaymentsOf
<1>2. TableOK(attempts') /\ Upserted(attempts, attempts', i, p, st)
  BY <1>1, UpsertRows, StoreAssumption
<1>3. ASSUME NEW q, q # p PROVE Won(attempts', q) <=> Won(attempts, q)
  BY <1>2, <1>3 DEF Upserted, Won
<1>4. Won(attempts', p) <=> st = "SUCCEEDED"
  BY <1>2 DEF Upserted, Won
<1> QED
  BY <1>2, <1>3, <1>4

\* Refusing a capture of the wrong amount keeps the invariant.
LEMMA WriteMismatchInv ==
  ASSUME StoreInv, NEW i \in Intents, NEW p \in PaymentsOf(i), NEW gs,
         WriteMismatch(i, p, gs, status[i], NextAttemptNumber(i))
  PROVE  StoreInv'
<1>1. /\ attempts' = Upsert(i, p, "MISMATCHED", NextAttemptNumber(i))
      /\ UNCHANGED <<status, orders, txns, history>>
      /\ status[i] # "COMPLETED" /\ "MISMATCHED" \in AttemptStatuses
  BY DEF WriteMismatch, Ignored, IsTerminal, TerminalStates, AttemptStatuses
<1>2. /\ TableOK(attempts')
      /\ \A q : q # p => (Won(attempts', q) <=> Won(attempts, q))
      /\ ~Won(attempts', p)
  BY <1>1, UpsertInv
<1>3. \A k \in Intents : p \notin txns[k]
  BY <1>1, UnpaidPayment
<1>4. WonIsPaid'
  <2>1. \A q : Won(attempts', q) <=> Won(attempts, q)
    BY <1>2, <1>3 DEF StoreInv, WonIsPaid
  <2> QED
    BY <1>1, <2>1 DEF StoreInv, WonIsPaid
<1>5. StoreTypeOK'
  BY <1>1, <1>2 DEF StoreInv, StoreTypeOK, TableOK
<1> QED
  BY <1>1, <1>2, <1>4, <1>5 DEF StoreInv, Settled, Told, TableOK, NumberedRows,
                               UniquePayments

\* Moving to PROCESSING or FAILED keeps the invariant.
LEMMA WriteProgressInv ==
  ASSUME StoreInv, NEW i \in Intents, NEW p \in PaymentsOf(i), NEW gs,
         WriteProgress(i, p, gs, status[i], NextAttemptNumber(i))
  PROVE  StoreInv'
<1> DEFINE to == TargetState(gs)
<1>1. /\ to \in {"PROCESSING", "FAILED"}
      /\ status[i] \in States /\ status[i] # "COMPLETED"
      /\ CanTransition(status[i], to)
      /\ attempts' = Upsert(i, p, to, NextAttemptNumber(i))
      /\ status' = [status EXCEPT ![i] = to]
      /\ history' = [history EXCEPT ![i] = @ \o <<Edge(status[i], to)>>]
      /\ UNCHANGED <<orders, txns>>
  BY DEF WriteProgress, Ignored, IsTerminal, TerminalStates, TargetState,
         SetStatus, Record, CanTransition, States, NoState
<1> HIDE DEF to
<1>2. /\ TableOK(attempts')
      /\ \A q : q # p => (Won(attempts', q) <=> Won(attempts, q))
      /\ ~Won(attempts', p)
  BY <1>1, UpsertInv DEF AttemptStatuses
<1>3. /\ history[i] \in Seq(HistoryRows) /\ Tells(history[i], status[i])
      /\ to \in States
  BY <1>1 DEF StoreInv, StoreTypeOK, HistoryRows, Told, States
<1>4. /\ history'[i] \in Seq(HistoryRows) /\ Tells(history'[i], to)
      /\ status'[i] = to
  BY <1>1, <1>3, AppendEdge DEF StoreInv, StoreTypeOK
<1>5. StoreTypeOK'
  BY <1>1, <1>2, <1>3, <1>4 DEF StoreInv, StoreTypeOK, HistoryRows, TableOK
<1>6. \A k \in Intents : p \notin txns[k]
  BY <1>1, UnpaidPayment
<1>7. WonIsPaid'
  <2>1. \A q : Won(attempts', q) <=> Won(attempts, q)
    BY <1>2, <1>6 DEF StoreInv, WonIsPaid
  <2> QED
    BY <1>1, <2>1 DEF StoreInv, WonIsPaid
<1>8. Settled(i)' /\ Told(i)'
  BY <1>1, <1>4 DEF StoreInv, Settled, Told
<1>9. \A j \in Intents \ {i} : /\ status'[j] = status[j]
                               /\ txns'[j] = txns[j]
                               /\ history'[j] = history[j]
  BY <1>1 DEF StoreInv, StoreTypeOK
<1>10. TableOK(attempts)'
  BY <1>2 DEF TableOK, NumberedRows, UniquePayments
<1> QED
  BY <1>5, <1>7, <1>8, <1>9, <1>10, Frame

\* Recording two edges at once is recording them one after the other.
LEMMA TwoEdges ==
  ASSUME NEW h \in Seq(HistoryRows), NEW e1 \in HistoryRows, NEW e2 \in HistoryRows
  PROVE  (h \o <<e1>>) \o <<e2>> = h \o <<e1, e2>>
<1> DEFINE A == (h \o <<e1>>) \o <<e2>>
           B == h \o <<e1, e2>>
<1>1. /\ A \in Seq(HistoryRows) /\ Len(A) = Len(h) + 2
      /\ A[Len(h) + 1] = e1 /\ A[Len(h) + 2] = e2
      /\ \A n \in 1 .. Len(h) : A[n] = h[n]
  <2> DEFINE g == h \o <<e1>>
  <2>1. /\ g \in Seq(HistoryRows) /\ Len(g) = Len(h) + 1 /\ g[Len(h) + 1] = e1
        /\ \A n \in 1 .. Len(h) : g[n] = h[n]
    OBVIOUS
  <2> HIDE DEF g
  <2>2. /\ g \o <<e2>> \in Seq(HistoryRows) /\ Len(g \o <<e2>>) = Len(g) + 1
        /\ (g \o <<e2>>)[Len(g) + 1] = e2
        /\ \A n \in 1 .. Len(g) : (g \o <<e2>>)[n] = g[n]
    BY <2>1
  <2>3. Len(h) \in Nat
    OBVIOUS
  <2> QED
    BY <2>1, <2>2, <2>3 DEF g
<1>2. /\ B \in Seq(HistoryRows) /\ Len(B) = Len(h) + 2
      /\ B[Len(h) + 1] = e1 /\ B[Len(h) + 2] = e2
      /\ \A n \in 1 .. Len(h) : B[n] = h[n]
  OBVIOUS
<1> HIDE DEF A, B
<1>3. Len(h) \in Nat /\ Len(A) \in Nat /\ Len(B) \in Nat
  BY <1>1, <1>2
<1>4. \A n \in 1 .. Len(A) : A[n] = B[n]
  BY <1>1, <1>2, <1>3
<1>5. A = B
  BY <1>1, <1>2, <1>4
<1> QED
  BY <1>5 DEF A, B

\* Settling keeps the invariant: the one SUCCEEDED attempt is the transaction.
LEMMA WriteSettlementInv ==
  ASSUME StoreInv, NEW i \in Intents, NEW p \in PaymentsOf(i), NEW gs,
         WriteSettlement(i, p, gs, status[i], NextAttemptNumber(i))
  PROVE  StoreInv'
<1> DEFINE e1 == Edge(status[i], "SUCCEEDED")
           e2 == Edge("SUCCEEDED", "COMPLETED")
<1>1. /\ status[i] \in States /\ status[i] # "COMPLETED"
      /\ CanTransition(status[i], "SUCCEEDED")
      /\ p \in Payments \ Mismatched /\ OrderOf[p] = i
      /\ attempts' = Upsert(i, p, "SUCCEEDED", NextAttemptNumber(i))
      /\ status' = [status EXCEPT ![i] = "COMPLETED"]
      /\ txns' = [txns EXCEPT ![i] = @ \cup {p}]
      /\ history' = [history EXCEPT ![i] = @ \o <<e1, e2>>]
      /\ UNCHANGED orders
  BY DEF WriteSettlement, Ignored, IsMismatch, IsTerminal, TerminalStates,
         SetStatus, Record, CanTransition, States, PaymentsOf
<1>2. /\ TableOK(attempts')
      /\ \A q : q # p => (Won(attempts', q) <=> Won(attempts, q))
      /\ Won(attempts', p)
  BY <1>1, UpsertInv DEF AttemptStatuses
<1>3. /\ history[i] \in Seq(HistoryRows) /\ Tells(history[i], status[i])
      /\ "SUCCEEDED" \in States /\ "COMPLETED" \in States
      /\ CanTransition("SUCCEEDED", "COMPLETED")
  BY DEF StoreInv, StoreTypeOK, HistoryRows, Told, States, CanTransition
<1>4. /\ history[i] \o <<e1>> \in Seq(HistoryRows)
      /\ Tells(history[i] \o <<e1>>, "SUCCEEDED")
  BY <1>1, <1>3, AppendEdge
<1>5. /\ (history[i] \o <<e1>>) \o <<e2>> \in Seq(HistoryRows)
      /\ Tells((history[i] \o <<e1>>) \o <<e2>>, "COMPLETED")
  BY <1>3, <1>4, AppendEdge
<1>6. (history[i] \o <<e1>>) \o <<e2>> = history[i] \o <<e1, e2>>
  BY <1>1, <1>3, TwoEdges DEF Edge, HistoryRows
<1>7. /\ history'[i] \in Seq(HistoryRows) /\ Tells(history'[i], "COMPLETED")
      /\ status'[i] = "COMPLETED"
  BY <1>1, <1>5, <1>6 DEF StoreInv, StoreTypeOK
<1>8. txns[i] = {} /\ txns'[i] = {p}
  BY <1>1 DEF StoreInv, StoreTypeOK, Settled
<1>9. StoreTypeOK'
  BY <1>1, <1>2, <1>3, <1>7 DEF StoreInv, StoreTypeOK, HistoryRows, TableOK
<1>10. \A j \in Intents \ {i} : /\ status'[j] = status[j]
                                /\ txns'[j] = txns[j]
                                /\ history'[j] = history[j]
  BY <1>1 DEF StoreInv, StoreTypeOK
<1>11. WonIsPaid'
  <2>1. \A q : q # p => ((\E k \in Intents : q \in txns'[k])
                          <=> (\E k \in Intents : q \in txns[k]))
    BY <1>8, <1>10
  <2>2. \E k \in Intents : p \in txns'[k]
    BY <1>8
  <2> QED
    BY <1>2, <2>1, <2>2 DEF StoreInv, WonIsPaid
<1>12. Settled(i)' /\ Told(i)'
  BY <1>1, <1>7, <1>8 DEF Settled, Told
<1>13. TableOK(attempts)'
  BY <1>2 DEF TableOK, NumberedRows, UniquePayments
<1> QED
  BY <1>9, <1>10, <1>11, <1>12, <1>13, Frame

\* Recording a client's report keeps the invariant, whatever payment it names.
LEMMA WriteReportInv ==
  ASSUME StoreInv, NEW i \in Intents, NEW p \in Payments \cup {NoPay},
         WriteReport(i, p, NextAttemptNumber(i))
  PROVE  StoreInv'
<1> DEFINE r == [num |-> NextAttemptNumber(i), pay |-> p,
                 status |-> "CLIENT_REPORTED_FAILURE"]
<1>1. /\ attempts' = [attempts EXCEPT ![i] = @ \cup {r}]
      /\ UNCHANGED <<status, orders, txns, history>>
      /\ p = NoPay \/ ~Recorded(p)
  BY DEF WriteReport
<1> DEFINE U == [attempts EXCEPT ![i] = @ \cup {r}]
<1>2. /\ TableOK(U)
      /\ U[i] = attempts[i] \cup {r}
      /\ \A k \in Intents \ {i} : U[k] = attempts[k]
  <2>1. "CLIENT_REPORTED_FAILURE" \in AttemptStatuses
    BY DEF AttemptStatuses
  <2>2. TableOK(attempts) /\ (p = NoPay \/ ~Recorded(p))
    BY <1>1 DEF StoreInv
  <2> QED
    BY <2>1, <2>2, InsertTable, StoreAssumption
<1> HIDE DEF U
<1>3. r.status # "SUCCEEDED"
  OBVIOUS
<1> HIDE DEF r
<1>4. attempts' = U /\ \A q : Won(attempts', q) <=> Won(attempts, q)
  BY <1>1, <1>2, <1>3 DEF Won, U
<1>5. WonIsPaid'
  BY <1>1, <1>4 DEF StoreInv, WonIsPaid
<1>6. StoreTypeOK'
  BY <1>1, <1>2, <1>4 DEF StoreInv, StoreTypeOK, TableOK
<1>7. TableOK(attempts)'
  BY <1>2, <1>4 DEF TableOK, NumberedRows, UniquePayments
<1> QED
  BY <1>1, <1>5, <1>6, <1>7 DEF StoreInv, Settled, Told

\* The invariant says nothing of orders but their type.
LEMMA SameRowsInv ==
  ASSUME StoreInv, StoreTypeOK', UNCHANGED <<status, attempts, txns, history>>
  PROVE  StoreInv'
<1>1. TableOK(attempts)'
  BY DEF StoreInv, TableOK, NumberedRows, UniquePayments
<1>2. WonIsPaid'
  BY DEF StoreInv, WonIsPaid, Won
<1>3. \A i \in Intents : Settled(i)' /\ Told(i)'
  BY DEF StoreInv, Settled, Told
<1> QED
  BY <1>1, <1>2, <1>3 DEF StoreInv

\* Storing the order keeps the invariant.
LEMMA InsertOrderInv ==
  ASSUME StoreInv, NEW i \in Intents, InsertOrder(i)
  PROVE  StoreInv'
<1>1. StoreTypeOK' /\ UNCHANGED <<status, attempts, txns, history>>
  BY DEF InsertOrder, StoreInv, StoreTypeOK
<1> QED
  BY <1>1, SameRowsInv

\* The invariant is inductive.
LEMMA LossyStepInv ==
  ASSUME StoreInv, [LossyStoreNext]_storeVars
  PROVE  StoreInv'
<1>1. CASE StoreNext
  <2>1. PICK i \in Intents :
           \/ InsertIntent(i)
           \/ status[i] = "PENDING" /\ InsertOrder(i)
           \/ FailIntent(i)
           \/ \E p \in PaymentsOf(i), gs \in GatewayStatuses :
                i \in orders /\ WriteMismatch(i, p, gs, status[i], NextAttemptNumber(i))
           \/ \E p \in PaymentsOf(i), gs \in GatewayStatuses :
                i \in orders /\ WriteProgress(i, p, gs, status[i], NextAttemptNumber(i))
           \/ \E p \in PaymentsOf(i), gs \in GatewayStatuses :
                i \in orders /\ WriteSettlement(i, p, gs, status[i], NextAttemptNumber(i))
           \/ \E p \in Payments \cup {NoPay} :
                i \in orders /\ WriteReport(i, p, NextAttemptNumber(i))
           \/ i \in orders /\ WriteExpiry(i, status[i])
    BY <1>1, StoreNextCases, Zenon
  <2> QED
    BY <2>1, InsertIntentInv, InsertOrderInv, WriteCreateFailedInv, WriteMismatchInv,
       WriteProgressInv, WriteSettlementInv, WriteReportInv, WriteExpiryInv
       DEF FailIntent
<1>2. CASE UNCHANGED storeVars
  BY <1>2, SameRowsInv DEF storeVars, StoreInv, StoreTypeOK
<1>3. CASE \E i \in Intents : FailLate(i)
  BY <1>3, WriteCreateFailedInv DEF FailLate
<1> QED
  BY <1>1, <1>2, <1>3 DEF LossyStoreNext

\* A step of the serial specification is one of the lossy one.
LEMMA StoreStepIsLossy ==
  ASSUME [StoreNext]_storeVars
  PROVE  [LossyStoreNext]_storeVars
BY DEF LossyStoreNext

\* The invariant is inductive for the serial specification too.
LEMMA StoreStepInv ==
  ASSUME StoreInv, [StoreNext]_storeVars
  PROVE  StoreInv'
BY LossyStepInv, StoreStepIsLossy

\* Every reachable state of the tables satisfies the invariant, also when
\* acknowledgements are lost.
THEOREM LossyInvariance == LossyStoreSpec => []StoreInv
<1>1. StoreInit => StoreInv
  BY StoreInitInv
<1>2. StoreInv /\ [LossyStoreNext]_storeVars => StoreInv'
  BY LossyStepInv
<1> QED
  BY <1>1, <1>2, PTL DEF LossyStoreSpec

\* Every reachable state of the tables satisfies the invariant.
THEOREM StoreInvariance == StoreSpec => []StoreInv
<1>1. StoreInit => StoreInv
  BY StoreInitInv
<1>2. StoreInv /\ [StoreNext]_storeVars => StoreInv'
  BY StoreStepInv
<1> QED
  BY <1>1, <1>2, PTL DEF StoreSpec

\* The invariant contains the properties the runs check.
LEMMA StoreInvImplies ==
  ASSUME StoreInv
  PROVE  StoreTypeOK /\ SettledOnce /\ AttemptsNumbered /\ HistoryIsLegal
<1>1. SettledOnce
  <2> DEFINE W == {a.pay : a \in {b \in UNION {attempts[i] : i \in Intents} :
                                     b.status = "SUCCEEDED"}}
  <2>1. \A p : p \in W <=> Won(attempts, p)
    BY DEF Won
  <2>2. \A p : p \in UNION {txns[i] : i \in Intents} <=> \E k \in Intents : p \in txns[k]
    OBVIOUS
  <2>3. W = UNION {txns[i] : i \in Intents}
    BY <2>1, <2>2 DEF StoreInv, WonIsPaid
  <2> QED
    BY <2>3 DEF StoreInv, Settled, SettledOnce
<1>2. AttemptsNumbered
  BY DEF StoreInv, TableOK, NumberedRows, UniquePayments, AttemptsNumbered, Numbers
<1>3. HistoryIsLegal
  BY DEF StoreInv, Told, Tells, HistoryIsLegal
<1> QED
  BY <1>1, <1>2, <1>3 DEF StoreInv

-----------------------------------------------------------------------------
(* The audit trail *)

\* What a serial transaction does to one intent's status and trail: nothing, or
\* it opens the intent, moves it along one edge out of its status, or settles it.
LEMMA TrailStep ==
  ASSUME StoreInv, [StoreNext]_storeVars, NEW k \in Intents
  PROVE  \/ status'[k] = status[k] /\ history'[k] = history[k]
         \/ /\ status[k] = NoState /\ status'[k] = "PENDING"
            /\ history'[k] = history[k]
                 \o <<Edge(NoState, "CREATED"), Edge("CREATED", "PENDING")>>
         \/ \E to \in {"PROCESSING", "FAILED", "EXPIRED"} :
              /\ ~IsTerminal(status[k]) /\ CanTransition(status[k], to)
              /\ status'[k] = to
              /\ history'[k] = history[k] \o <<Edge(status[k], to)>>
         \/ /\ ~IsTerminal(status[k]) /\ CanTransition(status[k], "SUCCEEDED")
            /\ status'[k] = "COMPLETED"
            /\ history'[k] = history[k]
                 \o <<Edge(status[k], "SUCCEEDED"), Edge("SUCCEEDED", "COMPLETED")>>
<1>1. CASE UNCHANGED storeVars
  BY <1>1 DEF storeVars
<1>2. CASE StoreNext
  <2>1. PICK i \in Intents :
           \/ InsertIntent(i)
           \/ status[i] = "PENDING" /\ InsertOrder(i)
           \/ FailIntent(i)
           \/ \E p \in PaymentsOf(i), gs \in GatewayStatuses :
                i \in orders /\ WriteMismatch(i, p, gs, status[i], NextAttemptNumber(i))
           \/ \E p \in PaymentsOf(i), gs \in GatewayStatuses :
                i \in orders /\ WriteProgress(i, p, gs, status[i], NextAttemptNumber(i))
           \/ \E p \in PaymentsOf(i), gs \in GatewayStatuses :
                i \in orders /\ WriteSettlement(i, p, gs, status[i], NextAttemptNumber(i))
           \/ \E p \in Payments \cup {NoPay} :
                i \in orders /\ WriteReport(i, p, NextAttemptNumber(i))
           \/ i \in orders /\ WriteExpiry(i, status[i])
    BY <1>2, StoreNextCases, Zenon
  <2> USE DEF SetStatus, Record, StoreInv, StoreTypeOK
  <2>2. CASE k # i
    BY <2>1, <2>2 DEF InsertIntent, InsertOrder, FailIntent, WriteCreateFailed,
       WriteMismatch, WriteProgress, WriteSettlement, WriteReport, WriteExpiry
  <2>3. CASE k = i /\ InsertIntent(i)
    BY <2>3 DEF InsertIntent
  <2>4. CASE k = i /\ FailIntent(i)
    BY <2>4 DEF FailIntent, WriteCreateFailed, CanTransition, IsTerminal, TerminalStates
  <2>5. CASE k = i /\ \E p \in PaymentsOf(i), gs \in GatewayStatuses :
               WriteProgress(i, p, gs, status[i], NextAttemptNumber(i))
    <3>1. PICK to \in {"PROCESSING", "FAILED"} :
            /\ ~IsTerminal(status[i]) /\ CanTransition(status[i], to)
            /\ SetStatus(i, to) /\ Record(i, <<Edge(status[i], to)>>)
      BY <2>5 DEF WriteProgress, Ignored, TargetState, NoState
    <3> QED
      BY <2>5, <3>1
  <2>6. CASE k = i /\ \E p \in PaymentsOf(i), gs \in GatewayStatuses :
               WriteSettlement(i, p, gs, status[i], NextAttemptNumber(i))
    <3>1. /\ ~IsTerminal(status[i]) /\ CanTransition(status[i], "SUCCEEDED")
          /\ SetStatus(i, "COMPLETED")
          /\ Record(i, <<Edge(status[i], "SUCCEEDED"), Edge("SUCCEEDED", "COMPLETED")>>)
      BY <2>6 DEF WriteSettlement, Ignored
    <3> QED
      BY <2>6, <3>1
  <2>7. CASE k = i /\ WriteExpiry(i, status[i])
    BY <2>7 DEF WriteExpiry, Expirable
  <2> QED
    BY <2>1, <2>2, <2>3, <2>4, <2>5, <2>6, <2>7
       DEF InsertOrder, WriteMismatch, WriteReport
<1> QED
  BY <1>1, <1>2

\* Every row of h starts where the one before it ended.
Chained(h) == \A n \in 2 .. Len(h) : h[n].from = h[n-1].to

\* A row that starts at the end of a chained history, or starts it, extends it.
LEMMA ChainRow ==
  ASSUME NEW h \in Seq(HistoryRows), Chained(h), NEW e \in HistoryRows,
         h = <<>> \/ h[Len(h)].to = e.from
  PROVE  /\ h \o <<e>> \in Seq(HistoryRows) /\ Chained(h \o <<e>>)
         /\ (h \o <<e>>)[Len(h \o <<e>>)] = e
<1> DEFINE g == h \o <<e>>
<1>1. Len(h) \in Nat /\ (h # <<>> => Len(h) # 0)
  OBVIOUS
<1>2. /\ g \in Seq(HistoryRows) /\ Len(g) = Len(h) + 1 /\ g[Len(h) + 1] = e
      /\ \A n \in 1 .. Len(h) : g[n] = h[n]
  BY <1>1
<1> HIDE DEF g
<1>3. ASSUME NEW n \in 2 .. Len(g) PROVE g[n].from = g[n-1].to
  <2>1. CASE n \in 2 .. Len(h)
    BY <1>1, <1>2, <2>1 DEF Chained
  <2>2. CASE n = Len(h) + 1
    <3>1. h # <<>> /\ g[n-1] = h[Len(h)] /\ g[n] = e
      BY <1>1, <1>2, <2>2
    <3> QED
      BY <3>1
  <2> QED
    BY <1>1, <1>2, <2>1, <2>2
<1> QED
  BY <1>2, <1>3 DEF Chained, g

\* Without lost acknowledgements every row starts at the status the intent had.
LEMMA ChainStep ==
  ASSUME StoreInv, [StoreNext]_storeVars, NEW k \in Intents, Chained(history[k])
  PROVE  Chained(history'[k])
<1> DEFINE h == history[k]
<1>1. /\ h \in Seq(HistoryRows) /\ status[k] \in States \cup {NoState}
      /\ h = <<>> \/ h[Len(h)].to = status[k]
  BY DEF StoreInv, StoreTypeOK, HistoryRows, Told, Tells
<1>2. ASSUME status[k] = NoState PROVE h = <<>>
  <2>1. h # <<>> => h[Len(h)] \in HistoryRows
    BY <1>1
  <2> QED
    BY <1>1, <1>2, <2>1 DEF HistoryRows, States, NoState
<1> HIDE DEF h
<1>3. ASSUME NEW e1 \in HistoryRows, NEW e2 \in HistoryRows,
             h = <<>> \/ e1.from = status[k], e2.from = e1.to
      PROVE  Chained(h \o <<e1>>) /\ Chained(h \o <<e1, e2>>)
  <2>1. /\ h \o <<e1>> \in Seq(HistoryRows) /\ Chained(h \o <<e1>>)
        /\ (h \o <<e1>>)[Len(h \o <<e1>>)] = e1
    BY <1>1, <1>3, ChainRow DEF h
  <2>2. Chained((h \o <<e1>>) \o <<e2>>)
    BY <1>3, <2>1, ChainRow
  <2> QED
    BY <1>1, <2>1, <2>2, TwoEdges
<1>4. CASE history'[k] = h \o <<Edge(NoState, "CREATED"), Edge("CREATED", "PENDING")>>
           /\ status[k] = NoState
  <2> DEFINE e1 == Edge(NoState, "CREATED")
             e2 == Edge("CREATED", "PENDING")
  <2>1. e1 \in HistoryRows /\ e2 \in HistoryRows /\ e2.from = e1.to
    BY DEF Edge, HistoryRows, States, NoState
  <2> HIDE DEF e1, e2
  <2>2. history'[k] = h \o <<e1, e2>>
    BY <1>4 DEF e1, e2
  <2> QED
    BY <1>2, <1>3, <1>4, <2>1, <2>2
<1>5. ASSUME NEW to \in {"PROCESSING", "FAILED", "EXPIRED"},
             history'[k] = h \o <<Edge(status[k], to)>>
      PROVE  Chained(history'[k])
  <2> DEFINE e1 == Edge(status[k], to)
             e2 == Edge(to, to)
  <2>1. e1 \in HistoryRows /\ e2 \in HistoryRows /\ e2.from = e1.to
        /\ e1.from = status[k]
    BY <1>1 DEF Edge, HistoryRows, States
  <2> HIDE DEF e1, e2
  <2>2. history'[k] = h \o <<e1>>
    BY <1>5 DEF e1
  <2> QED
    BY <1>3, <2>1, <2>2
<1>6. CASE history'[k] = h \o <<Edge(status[k], "SUCCEEDED"),
                                Edge("SUCCEEDED", "COMPLETED")>>
  <2> DEFINE e1 == Edge(status[k], "SUCCEEDED")
             e2 == Edge("SUCCEEDED", "COMPLETED")
  <2>1. e1 \in HistoryRows /\ e2 \in HistoryRows /\ e2.from = e1.to
        /\ e1.from = status[k]
    BY <1>1 DEF Edge, HistoryRows, States
  <2> HIDE DEF e1, e2
  <2>2. history'[k] = h \o <<e1, e2>>
    BY <1>6 DEF e1, e2
  <2> QED
    BY <1>3, <2>1, <2>2
<1> QED
  BY <1>4, <1>5, <1>6, TrailStep DEF h

-----------------------------------------------------------------------------
(* Theorems of the serial specification *)

\* The audit trail has no hole: it leads from nothing to the status.
THEOREM StoreHistoryTellsStatus == StoreSpec => []HistoryTellsStatus
<1> DEFINE AllChained == \A i \in Intents : Chained(history[i])
<1>1. StoreInit => AllChained
  BY DEF StoreInit, Chained
<1>2. StoreInv /\ AllChained /\ [StoreNext]_storeVars => AllChained'
  BY ChainStep DEF Chained
<1>3. StoreInv /\ AllChained => HistoryTellsStatus
  BY DEF StoreInv, Told, Tells, Chained, HistoryTellsStatus
<1> HIDE DEF AllChained
<1> QED
  BY <1>1, <1>2, <1>3, StoreInvariance, PTL DEF StoreSpec

\* Types, settlement, numbering and audit trail of the tables, for any number of
\* intents and payments, whatever outcomes, reports and expiries arrive and in
\* whatever order.
THEOREM StoreSafety ==
  StoreSpec => [](StoreTypeOK /\ SettledOnce /\ AttemptsNumbered /\ HistoryTellsStatus)
BY StoreInvariance, StoreInvImplies, StoreHistoryTellsStatus, PTL

\* The same when acknowledgements are lost, but for what a failure written late
\* does to the trail.
THEOREM LossyStoreSafety ==
  LossyStoreSpec => [](StoreTypeOK /\ SettledOnce /\ AttemptsNumbered /\ HistoryIsLegal)
BY LossyInvariance, StoreInvImplies, PTL

\* What a step may do to the status and the transactions of an intent whose
\* status is terminal: nothing.
LEMMA TerminalStep ==
  ASSUME StoreInv, [StoreNext]_storeVars, NEW k \in Intents, IsTerminal(status[k])
  PROVE  status'[k] = status[k] /\ txns'[k] = txns[k]
<1> USE DEF IsTerminal, TerminalStates, CanTransition, NoState, SetStatus,
            StoreInv, StoreTypeOK
<1>1. CASE UNCHANGED storeVars
  BY <1>1 DEF storeVars
<1>2. CASE StoreNext
  <2>1. PICK i \in Intents :
           \/ InsertIntent(i)
           \/ status[i] = "PENDING" /\ InsertOrder(i)
           \/ FailIntent(i)
           \/ \E p \in PaymentsOf(i), gs \in GatewayStatuses :
                i \in orders /\ WriteMismatch(i, p, gs, status[i], NextAttemptNumber(i))
           \/ \E p \in PaymentsOf(i), gs \in GatewayStatuses :
                i \in orders /\ WriteProgress(i, p, gs, status[i], NextAttemptNumber(i))
           \/ \E p \in PaymentsOf(i), gs \in GatewayStatuses :
                i \in orders /\ WriteSettlement(i, p, gs, status[i], NextAttemptNumber(i))
           \/ \E p \in Payments \cup {NoPay} :
                i \in orders /\ WriteReport(i, p, NextAttemptNumber(i))
           \/ i \in orders /\ WriteExpiry(i, status[i])
    BY <1>2, StoreNextCases, Zenon
  <2>2. CASE k # i
    BY <2>1, <2>2 DEF InsertIntent, InsertOrder, FailIntent, WriteCreateFailed,
       WriteMismatch, WriteProgress, WriteSettlement, WriteReport, WriteExpiry
  <2>3. CASE k = i
    BY <2>1, <2>3 DEF InsertIntent, InsertOrder, FailIntent, WriteMismatch,
       WriteProgress, WriteSettlement, WriteReport, WriteExpiry, Ignored, Expirable
  <2> QED
    BY <2>2, <2>3
<1> QED
  BY <1>1, <1>2

\* CANCELLED, EXPIRED and COMPLETED are terminal.
THEOREM StoreTerminalIsFinal == StoreSpec => TerminalIsFinal
<1>1. StoreInv /\ [StoreNext]_storeVars =>
        [\A i \in Intents : IsTerminal(status[i]) =>
           status'[i] = status[i] /\ txns'[i] = txns[i]]_storeVars
  BY TerminalStep
<1> QED
  BY <1>1, StoreInvariance, PTL DEF StoreSpec, TerminalIsFinal

\* What a step does to a COMPLETED intent, also when acknowledgements are lost:
\* nothing.
LEMMA PaidStep ==
  ASSUME StoreInv, [LossyStoreNext]_storeVars, NEW k \in Intents,
         status[k] = "COMPLETED"
  PROVE  status'[k] = "COMPLETED" /\ txns'[k] = txns[k]
<1>1. CASE [StoreNext]_storeVars
  BY <1>1, TerminalStep DEF IsTerminal, TerminalStates
<1>2. CASE \E i \in Intents : FailLate(i)
  BY <1>2 DEF FailLate, WriteCreateFailed, SetStatus, StoreInv, StoreTypeOK
<1> QED
  BY <1>1, <1>2 DEF LossyStoreNext

\* A paid intent stays paid, and paid once, even when acknowledgements are lost.
THEOREM LossyPaidIsFinal == LossyStoreSpec => PaidIsFinal
<1>1. StoreInv /\ [LossyStoreNext]_storeVars =>
        [\A i \in Intents : status[i] = "COMPLETED" =>
           status'[i] = "COMPLETED" /\ txns'[i] = txns[i]]_storeVars
  BY PaidStep
<1> QED
  BY <1>1, LossyInvariance, PTL DEF LossyStoreSpec, PaidIsFinal

\* What a step does to a recorded attempt: it stays, with its number and gateway
\* payment, and what the gateway said of it does not become a client's report.
LEMMA LossyAttemptStep ==
  ASSUME StoreInv, [LossyStoreNext]_storeVars, NEW k \in Intents, NEW a \in attempts[k]
  PROVE  \E b \in attempts'[k] :
           /\ b.num = a.num /\ b.pay = a.pay
           /\ b.status = "CLIENT_REPORTED_FAILURE" => b.status = a.status
<1>1. CASE attempts' = attempts
  BY <1>1
<1>2. ASSUME NEW i \in Intents, NEW p \in PaymentsOf(i), NEW st \in AttemptStatuses,
             st # "CLIENT_REPORTED_FAILURE",
             attempts' = Upsert(i, p, st, NextAttemptNumber(i))
      PROVE  \E b \in attempts'[k] :
               /\ b.num = a.num /\ b.pay = a.pay
               /\ b.status = "CLIENT_REPORTED_FAILURE" => b.status = a.status
  <2>1. Upserted(attempts, attempts', i, p, st)
    BY <1>2, UpsertInv
  <2> QED
    BY <1>2, <2>1 DEF Upserted
<1>3. CASE \E i \in Intents : \E p \in PaymentsOf(i), gs \in GatewayStatuses :
             \/ WriteMismatch(i, p, gs, status[i], NextAttemptNumber(i))
             \/ WriteProgress(i, p, gs, status[i], NextAttemptNumber(i))
             \/ WriteSettlement(i, p, gs, status[i], NextAttemptNumber(i))
  <2>0. PICK i \in Intents : \E p \in PaymentsOf(i), gs \in GatewayStatuses :
             \/ WriteMismatch(i, p, gs, status[i], NextAttemptNumber(i))
             \/ WriteProgress(i, p, gs, status[i], NextAttemptNumber(i))
             \/ WriteSettlement(i, p, gs, status[i], NextAttemptNumber(i))
    BY <1>3
  <2>1. PICK p \in PaymentsOf(i), gs \in GatewayStatuses :
             \/ WriteMismatch(i, p, gs, status[i], NextAttemptNumber(i))
             \/ WriteProgress(i, p, gs, status[i], NextAttemptNumber(i))
             \/ WriteSettlement(i, p, gs, status[i], NextAttemptNumber(i))
    BY <2>0
  <2>2. \E st \in {"MISMATCHED", "PROCESSING", "FAILED", "SUCCEEDED"} :
          attempts' = Upsert(i, p, st, NextAttemptNumber(i))
    BY <2>1 DEF WriteMismatch, WriteProgress, WriteSettlement, TargetState,
                Ignored, NoState
  <2> QED
    BY <1>2, <2>2 DEF AttemptStatuses
<1>4. CASE \E i \in Intents : \E p \in Payments \cup {NoPay} :
             WriteReport(i, p, NextAttemptNumber(i))
  BY <1>4 DEF WriteReport, StoreInv, StoreTypeOK
<1> QED
  <2>1. CASE UNCHANGED storeVars
    BY <1>1, <2>1 DEF storeVars
  <2>2. CASE StoreNext
    BY <1>1, <1>3, <1>4, <2>2, StoreNextCases
       DEF InsertIntent, InsertOrder, FailIntent, WriteCreateFailed, WriteExpiry
  <2>3. CASE \E i \in Intents : FailLate(i)
    BY <1>1, <2>3 DEF FailLate, WriteCreateFailed
  <2> QED
    BY <2>1, <2>2, <2>3 DEF LossyStoreNext

\* The same of a step of the serial specification.
LEMMA AttemptStep ==
  ASSUME StoreInv, [StoreNext]_storeVars, NEW k \in Intents, NEW a \in attempts[k]
  PROVE  \E b \in attempts'[k] :
           /\ b.num = a.num /\ b.pay = a.pay
           /\ b.status = "CLIENT_REPORTED_FAILURE" => b.status = a.status
BY LossyAttemptStep, StoreStepIsLossy

\* The attempts of a payment are an append-only log of numbered rows, also when
\* acknowledgements are lost.
THEOREM LossyAttemptsArePermanent == LossyStoreSpec => AttemptsArePermanent
<1>1. StoreInv /\ [LossyStoreNext]_storeVars =>
        [\A i \in Intents : \A a \in attempts[i] : \E b \in attempts'[i] :
           /\ b.num = a.num /\ b.pay = a.pay
           /\ b.status = "CLIENT_REPORTED_FAILURE" => b.status = a.status]_storeVars
  BY LossyAttemptStep
<1> QED
  BY <1>1, LossyInvariance, PTL DEF LossyStoreSpec, AttemptsArePermanent

\* The attempts of a payment are an append-only log of numbered rows.
THEOREM StoreAttemptsArePermanent == StoreSpec => AttemptsArePermanent
<1>1. StoreInv /\ [StoreNext]_storeVars =>
        [\A i \in Intents : \A a \in attempts[i] : \E b \in attempts'[i] :
           /\ b.num = a.num /\ b.pay = a.pay
           /\ b.status = "CLIENT_REPORTED_FAILURE" => b.status = a.status]_storeVars
  BY AttemptStep
<1> QED
  BY <1>1, StoreInvariance, PTL DEF StoreSpec, AttemptsArePermanent

-----------------------------------------------------------------------------
(* The tables implement PaymentLifecycle *)

Phase == [i \in Intents |-> LifecyclePhase(status[i])]

\* The lifecycle seen through the mapping moves where the status moves.
LEMMA PhaseMoves ==
  ASSUME StoreTypeOK, NEW i \in Intents, NEW st, SetStatus(i, st)
  PROVE  /\ Phase' = [Phase EXCEPT ![i] = LifecyclePhase(st)]
         /\ Phase[i] = LifecyclePhase(status[i])
BY DEF StoreTypeOK, SetStatus, Phase

\* A transaction is a step of the lifecycle, or a stutter.
LEMMA LifecycleStep ==
  ASSUME StoreInv, [StoreNext]_storeVars
  PROVE  [Lifecycle!Next]_(Lifecycle!vars)
<1> USE DEF LifecyclePhase, NoState
<1>1. CASE UNCHANGED <<status, txns>>
  BY <1>1 DEF Lifecycle!vars
<1>2. CASE StoreNext /\ ~UNCHANGED <<status, txns>>
  <2>1. PICK i \in Intents :
           \/ InsertIntent(i)
           \/ FailIntent(i)
           \/ \E p \in PaymentsOf(i), gs \in GatewayStatuses :
                i \in orders /\ WriteProgress(i, p, gs, status[i], NextAttemptNumber(i))
           \/ \E p \in PaymentsOf(i), gs \in GatewayStatuses :
                i \in orders /\ WriteSettlement(i, p, gs, status[i], NextAttemptNumber(i))
           \/ i \in orders /\ WriteExpiry(i, status[i])
    BY <1>2, StoreNextCases DEF InsertOrder, WriteMismatch, WriteReport
  <2>2. StoreTypeOK /\ Settled(i)
    BY DEF StoreInv
  <2>3. CASE InsertIntent(i)
    <3>1. Lifecycle!Open(i)
      BY <2>2, <2>3, PhaseMoves DEF InsertIntent, Lifecycle!Open, Lifecycle!Move, Phase
    <3> QED
      BY <3>1 DEF Lifecycle!Next
  <2>4. CASE FailIntent(i)
    <3>1. Lifecycle!Fail(i)
      BY <2>2, <2>4, PhaseMoves
         DEF FailIntent, WriteCreateFailed, Lifecycle!Fail, Lifecycle!Move, Phase
    <3> QED
      BY <3>1 DEF Lifecycle!Next
  <2>5. CASE \E p \in PaymentsOf(i), gs \in GatewayStatuses :
               WriteProgress(i, p, gs, status[i], NextAttemptNumber(i))
    <3>1. PICK to \in {"PROCESSING", "FAILED"} :
            /\ status[i] \in {"PENDING", "PROCESSING"}
            /\ SetStatus(i, to) /\ UNCHANGED txns
      BY <2>5 DEF WriteProgress, Ignored, TargetState, CanTransition, IsTerminal,
                  TerminalStates
    <3>2. /\ Phase' = [Phase EXCEPT ![i] = LifecyclePhase(to)]
          /\ Phase[i] = "open"
      BY <2>2, <3>1, PhaseMoves
    <3>3. CASE to = "FAILED"
      <4>1. Lifecycle!Fail(i)
        BY <3>1, <3>2, <3>3 DEF Lifecycle!Fail, Lifecycle!Move, Phase
      <4> QED
        BY <4>1 DEF Lifecycle!Next
    <3>4. CASE to = "PROCESSING"
      <4>1. Phase' = Phase
        BY <3>2, <3>4 DEF Phase
      <4> QED
        BY <3>1, <4>1 DEF Lifecycle!vars, Phase
    <3> QED
      BY <3>3, <3>4
  <2>6. CASE \E p \in PaymentsOf(i), gs \in GatewayStatuses :
               WriteSettlement(i, p, gs, status[i], NextAttemptNumber(i))
    <3>1. PICK p \in PaymentsOf(i) :
            /\ p \notin Mismatched
            /\ status[i] \in {"PENDING", "PROCESSING", "FAILED"}
            /\ SetStatus(i, "COMPLETED")
            /\ txns' = [txns EXCEPT ![i] = @ \cup {p}]
      BY <2>6 DEF WriteSettlement, Ignored, IsMismatch, CanTransition, IsTerminal,
                  TerminalStates
    <3>2. /\ Phase' = [Phase EXCEPT ![i] = "paid"]
          /\ Phase[i] \in {"open", "failed"}
      BY <2>2, <3>1, PhaseMoves
    <3>3. txns[i] = {} /\ txns' = [txns EXCEPT ![i] = {p}]
      BY <2>2, <3>1 DEF Settled, StoreTypeOK
    <3>4. Lifecycle!Pay(i, p)
      BY <3>1, <3>2, <3>3 DEF Lifecycle!Pay, Lifecycle!Move, Phase, PaymentsOf
    <3> QED
      BY <3>4 DEF Lifecycle!Next, PaymentsOf
  <2>7. CASE WriteExpiry(i, status[i])
    <3>1. Lifecycle!Expire(i)
      BY <2>2, <2>7, PhaseMoves
         DEF WriteExpiry, Expirable, CanTransition, Lifecycle!Expire,
             Lifecycle!Move, Phase
    <3> QED
      BY <3>1 DEF Lifecycle!Next
  <2> QED
    BY <2>1, <2>3, <2>4, <2>5, <2>6, <2>7
<1>3. CASE UNCHANGED storeVars
  BY <1>1, <1>3 DEF storeVars
<1> QED
  BY <1>1, <1>2, <1>3

\* An intent is opened, failed, expired and paid as the merchant was promised.
THEOREM StoreImplementsLifecycle == StoreSpec => LifecycleSpec
<1>1. StoreInit => Lifecycle!Init
  BY DEF StoreInit, Lifecycle!Init, LifecyclePhase, NoState
<1>2. StoreInv /\ [StoreNext]_storeVars => [Lifecycle!Next]_(Lifecycle!vars)
  BY LifecycleStep
<1> QED
  BY <1>1, <1>2, StoreInvariance, PTL DEF StoreSpec, LifecycleSpec, Lifecycle!Spec
==============================================================================

-------------------------- MODULE PaymentViewProofs --------------------------
(***************************************************************************)
(* Why five queries without a transaction give an answer that can be        *)
(* trusted: the tables only grow, and what is terminal stays.  Everything   *)
(* an answer says (Known) remains true of the tables while the rest of it   *)
(* is read and after it was given, for any number of intents, readers and   *)
(* attempts.                                                                *)
(***************************************************************************)
EXTENDS PaymentView, PaymentStoreProofs

Nums(S) == {a.num : a \in S}

\* The payments of the SUCCEEDED attempts of S.
Winners(S) == {a.pay : a \in {b \in S : b.status = "SUCCEEDED"}}

\* The payments that have their row under an intent other than i.
FiledElsewhere(i) == {a.pay : a \in UNION {attempts[k] : k \in Intents \ {i}}}

\* The history rows of i, in no order.
Story(i) == {history[i][n] : n \in DOMAIN history[i]}

\* A set of history rows leads to st, with no beginning missing.
Explains(H, st) ==
  /\ \E e \in H : e.to = st
  /\ \A e \in H : e.from = NoState \/ \E f \in H : f.to = e.from

\* What the queries answered so far say of the tables, now.
Known(v) ==
  LET i == v.intent IN
  /\ "status" \in v.left <=> v.status = NoState
  /\ v.status # NoState => \E e \in Story(i) : e.to = v.status
  /\ IsTerminal(v.status) => status[i] = v.status
  /\ v.status = "COMPLETED" /\ "txns" \notin v.left => v.txns = txns[i]
  /\ v.status = "COMPLETED" /\ "attempts" \notin v.left =>
       /\ Winners(v.attempts) \cap PaymentsOf(i) \subseteq txns[i]
       /\ txns[i] \subseteq Winners(v.attempts) \cup FiledElsewhere(i)
  /\ "attempts" \notin v.left =>
       Nums(v.attempts) = 1 .. Cardinality(v.attempts) /\ Nums(v.attempts) \subseteq Nums(attempts[i])
  /\ "history" \notin v.left =>
       v.history \subseteq Story(i) /\ Explains(v.history, v.status)

\* Nothing is read before the intent's row.
Ordered(v) == "status" \in v.left => v.left = Queries

\* Of two answers on one intent to one client, v given and w being read.
Follows(v, w) ==
  v # NoView /\ w # NoView /\ v.intent = w.intent =>
    /\ IsTerminal(v.status) /\ w.status # NoState => w.status = v.status
    /\ v.status = "COMPLETED" /\ "txns" \notin w.left => w.txns = v.txns
    /\ "history" \notin w.left => v.history \subseteq w.history
    /\ "attempts" \notin w.left => Nums(v.attempts) \subseteq Nums(w.attempts)

ViewInv ==
  /\ StoreInv
  /\ reading \in [Readers -> Views \cup {NoView}]
  /\ shown \in [Readers -> Views \cup {NoView}]
  /\ \A c \in Readers :
       /\ \A v \in Views : v = reading[c] => Known(v) /\ Ordered(v)
       /\ \A v \in Views : v = shown[c] => Known(v) /\ v.left = {}
       /\ Follows(shown[c], reading[c])

-----------------------------------------------------------------------------
(* The tables only grow *)

\* An appended history has all the rows it had.
LEMMA AppendKeepsRows ==
  ASSUME NEW S, NEW h \in Seq(S), NEW e \in Seq(S)
  PROVE  {h[n] : n \in DOMAIN h} \subseteq {(h \o e)[n] : n \in DOMAIN (h \o e)}
<1> SUFFICES ASSUME NEW n \in DOMAIN h
             PROVE  n \in DOMAIN (h \o e) /\ (h \o e)[n] = h[n]
  OBVIOUS
<1> QED
  OBVIOUS

\* No transaction removes a history row.
LEMMA StoryGrows ==
  ASSUME StoreInv, [StoreNext]_storeVars, NEW k \in Intents
  PROVE  Story(k) \subseteq Story(k)'
<1>0. history \in [Intents -> Seq(HistoryRows)]
  BY DEF StoreInv, StoreTypeOK, HistoryRows
<1>1. CASE history' = history
  BY <1>1 DEF Story
<1>2. ASSUME NEW i \in Intents, NEW edges \in Seq(HistoryRows), Record(i, edges)
      PROVE  Story(k) \subseteq Story(k)'
  <2>1. CASE k = i
    <3>1. history'[k] = history[k] \o edges
      BY <1>0, <1>2, <2>1 DEF Record
    <3>2. history[k] \in Seq(HistoryRows)
      BY <1>0
    <3>3. {history[k][n] : n \in DOMAIN history[k]}
            \subseteq {(history[k] \o edges)[n] : n \in DOMAIN (history[k] \o edges)}
      BY <3>2, AppendKeepsRows
    <3> QED
      BY <3>1, <3>3 DEF Story
  <2>2. CASE k # i
    BY <1>0, <1>2, <2>2 DEF Record, Story
  <2> QED
    BY <2>1, <2>2
<1>3. CASE UNCHANGED storeVars
  BY <1>1, <1>3 DEF storeVars
<1>4. CASE StoreNext
  <2>1. PICK i \in Intents :
           \/ InsertIntent(i)
           \/ status[i] = "PENDING" /\ InsertOrder(i)
           \/ FailIntent(i)
           \/ \E p \in PaymentsOf(i), gs \in GatewayStatuses :
                i \in orders /\ WriteMismatch(i, p, gs, status[i], NextAttemptNumber(i))
           \/ \E p \in PaymentsOf(i), gs \in GatewayStatuses :
                i \in orders /\ WriteProgress(i, p, gs, status[i], NextAttemptNumber(i))
           \/ \E p \in PaymentsOf(i), gs \in GatewayStatuses :
                i \in orders /\ WriteSettlement(i, p, gs, status[i], NextAttemptNumber(i))
           \/ \E p \in Payments \cup {NoPay} :
                i \in orders /\ WriteReport(i, p, NextAttemptNumber(i))
           \/ i \in orders /\ WriteExpiry(i, status[i])
    BY <1>4, StoreNextCases, Zenon
  <2>2. status[i] \in States \cup {NoState}
    BY DEF StoreInv, StoreTypeOK
  <2>3. history' = history \/ \E edges \in Seq(HistoryRows) : Record(i, edges)
    <3>1. CASE InsertIntent(i)
      <4>1. <<Edge(NoState, "CREATED"), Edge("CREATED", "PENDING")>> \in Seq(HistoryRows)
        BY DEF Edge, HistoryRows, States
      <4> QED
        BY <3>1, <4>1 DEF InsertIntent
    <3>2. CASE FailIntent(i)
      <4>1. <<Edge("PENDING", "FAILED")>> \in Seq(HistoryRows)
        BY DEF Edge, HistoryRows, States
      <4> QED
        BY <3>2, <4>1 DEF FailIntent, WriteCreateFailed
    <3>3. CASE WriteExpiry(i, status[i])
      <4>1. <<Edge(status[i], "EXPIRED")>> \in Seq(HistoryRows)
        BY <2>2 DEF Edge, HistoryRows, States
      <4> QED
        BY <3>3, <4>1 DEF WriteExpiry
    <3>4. CASE \E p \in PaymentsOf(i), gs \in GatewayStatuses :
                 WriteProgress(i, p, gs, status[i], NextAttemptNumber(i))
      <4>1. PICK to \in States : Record(i, <<Edge(status[i], to)>>)
        BY <3>4 DEF WriteProgress, AssertValidTransition
      <4>2. <<Edge(status[i], to)>> \in Seq(HistoryRows)
        BY <2>2 DEF Edge, HistoryRows
      <4> QED
        BY <4>1, <4>2
    <3>5. CASE \E p \in PaymentsOf(i), gs \in GatewayStatuses :
                 WriteSettlement(i, p, gs, status[i], NextAttemptNumber(i))
      <4>1. <<Edge(status[i], "SUCCEEDED"), Edge("SUCCEEDED", "COMPLETED")>>
              \in Seq(HistoryRows)
        BY <2>2 DEF Edge, HistoryRows, States
      <4> QED
        BY <3>5, <4>1 DEF WriteSettlement
    <3> QED
      BY <2>1, <3>1, <3>2, <3>3, <3>4, <3>5 DEF InsertOrder, WriteMismatch, WriteReport
  <2> QED
    BY <1>1, <1>2, <2>3
<1> QED
  BY <1>3, <1>4

\* What a transaction does to what may have been read of one intent: a terminal
\* status and its money stay, history rows and attempt numbers are only added.
LEMMA TablesGrow ==
  ASSUME StoreInv, [StoreNext]_storeVars, NEW k \in Intents
  PROVE  /\ IsTerminal(status[k]) => status'[k] = status[k] /\ txns'[k] = txns[k]
         /\ Story(k) \subseteq Story(k)'
         /\ Nums(attempts[k]) \subseteq Nums(attempts'[k])
         /\ FiledElsewhere(k) \subseteq FiledElsewhere(k)'
<1>1. Nums(attempts[k]) \subseteq Nums(attempts'[k])
  <2> SUFFICES ASSUME NEW a \in attempts[k]
               PROVE  \E b \in attempts'[k] : b.num = a.num
    BY DEF Nums
  <2> QED
    BY AttemptStep
<1>2. FiledElsewhere(k) \subseteq FiledElsewhere(k)'
  <2> SUFFICES ASSUME NEW j \in Intents \ {k}, NEW a \in attempts[j]
               PROVE  \E b \in attempts'[j] : b.pay = a.pay
    BY DEF FiledElsewhere
  <2> QED
    BY AttemptStep
<1> QED
  BY <1>1, <1>2, StoryGrows, TerminalStep

\* What is known of the tables stays known while other transactions commit.
LEMMA KnownStays ==
  ASSUME StoreInv, [StoreNext]_storeVars, NEW v \in Views, Known(v)
  PROVE  Known(v)'
<1>1. v.intent \in Intents
  BY DEF Views
<1>2. "COMPLETED" \in TerminalStates
  BY DEF TerminalStates
<1> QED
  BY <1>1, <1>2, TablesGrow DEF Known, IsTerminal

-----------------------------------------------------------------------------
(* What the tables say at one moment *)

\* The history of a stored intent explains its status.
LEMMA StoryExplains ==
  ASSUME StoreInv, NEW i \in Intents, status[i] # NoState
  PROVE  Explains(Story(i), status[i])
<1> DEFINE h == history[i]
<1>1. /\ h \in Seq(HistoryRows) /\ h # <<>>
      /\ h[1] = Edge(NoState, "CREATED") /\ status[i] = h[Len(h)].to
      /\ \A n \in 2 .. Len(h) :
           /\ CanTransition(h[n].from, h[n].to)
           /\ \/ h[n].from = h[n-1].to
              \/ h[n-1].to = "EXPIRED" /\ h[n].from = "PENDING"
  <2>1. history \in [Intents -> Seq(HistoryRows)] /\ Tells(h, status[i])
    BY DEF StoreInv, StoreTypeOK, HistoryRows, Told
  <2>2. h \in Seq(HistoryRows)
    BY <2>1
  <2> HIDE DEF h
  <2>3. \A n : LateFailure(h, n) => h[n-1].to = "EXPIRED" /\ h[n].from = "PENDING"
    BY DEF LateFailure, Edge
  <2> QED
    BY <2>1, <2>2, <2>3 DEF Tells
<1>2. Len(h) \in Nat \ {0} /\ DOMAIN h = 1 .. Len(h)
  BY <1>1
<1>3. Story(i) = {h[n] : n \in 1 .. Len(h)}
  BY <1>2 DEF Story
<1> HIDE DEF h
<1>4. \E e \in Story(i) : e.to = status[i]
  BY <1>1, <1>2, <1>3
<1>5. ASSUME Len(h) >= 2 PROVE 2 \in 1 .. Len(h) /\ h[2].to = "PENDING"
  <2>1. /\ 2 \in 1 .. Len(h) /\ h[1].to = "CREATED"
        /\ CanTransition(h[2].from, h[2].to)
        /\ h[2].from = h[1].to \/ h[1].to = "EXPIRED"
    BY <1>1, <1>2, <1>5 DEF Edge
  <2> QED
    BY <2>1 DEF CanTransition
<1>6. ASSUME NEW n \in 1 .. Len(h)
      PROVE  h[n].from = NoState \/ \E m \in 1 .. Len(h) : h[m].to = h[n].from
  <2>1. CASE n = 1
    BY <1>1, <2>1 DEF Edge
  <2>2. CASE n # 1
    <3>1. n - 1 \in 1 .. Len(h) /\ n \in 2 .. Len(h) /\ Len(h) >= 2
      BY <1>2, <2>2
    <3> QED
      BY <1>1, <1>5, <3>1
  <2> QED
    BY <2>1, <2>2
<1> QED
  BY <1>3, <1>4, <1>6 DEF Explains

\* A set of rows that holds the row of an older status explains that one too.
LEMMA StoryExplainsOlder ==
  ASSUME NEW H, NEW st, NEW old, Explains(H, st), \E e \in H : e.to = old
  PROVE  Explains(H, old)
BY DEF Explains

\* The attempts of a COMPLETED intent, read now: a winner among the payments of its
\* order has a transaction; the payment with a transaction is a winner, or has its
\* row elsewhere.
LEMMA WinnersArePaid ==
  ASSUME StoreInv, NEW i \in Intents
  PROVE  /\ Winners(attempts[i]) \cap PaymentsOf(i) \subseteq txns[i]
         /\ txns[i] \subseteq Winners(attempts[i]) \cup FiledElsewhere(i)
         /\ Nums(attempts[i]) = 1 .. Cardinality(attempts[i])
<1>1. ASSUME NEW p \in Winners(attempts[i]), OrderOf[p] = i
      PROVE  p \in txns[i]
  <2>1. Won(attempts, p)
    BY <1>1 DEF Winners, Won
  <2>2. PICK k \in Intents : p \in txns[k]
    BY <2>1 DEF StoreInv, WonIsPaid
  <2>3. k = i
    BY <1>1, <2>2 DEF StoreInv, Settled
  <2> QED
    BY <2>2, <2>3
<1>2. ASSUME NEW p \in txns[i]
      PROVE  p \in Winners(attempts[i]) \cup FiledElsewhere(i)
  <2>1. PICK k \in Intents : \E a \in attempts[k] : a.pay = p /\ a.status = "SUCCEEDED"
    BY <1>2 DEF StoreInv, WonIsPaid, Won
  <2> QED
    BY <2>1 DEF Winners, FiledElsewhere
<1>3. Nums(attempts[i]) = 1 .. Cardinality(attempts[i])
  BY DEF StoreInv, TableOK, NumberedRows, Nums
<1> QED
  BY <1>1, <1>2, <1>3 DEF PaymentsOf

\* Tables that no step touches are as good as they were.
LEMMA StoreInvFrame ==
  ASSUME StoreInv, UNCHANGED storeVars
  PROVE  StoreInv'
BY StoreStepInv

\* What is known of tables that stay as they are stays known.
LEMMA KnownFrame ==
  ASSUME UNCHANGED storeVars, NEW v, Known(v)
  PROVE  Known(v)'
<1>1. \A k : Story(k)' = Story(k) /\ FiledElsewhere(k)' = FiledElsewhere(k)
  BY DEF Story, FiledElsewhere, storeVars
<1> QED
  BY <1>1 DEF Known, storeVars

-----------------------------------------------------------------------------
(* The queries *)

\* A step of one reader that leaves the tables and all given answers alone keeps
\* the invariant if its new view does.
LEMMA ReaderStep ==
  ASSUME ViewInv, NEW c \in Readers, NEW w \in Views \cup {NoView},
         reading' = [reading EXCEPT ![c] = w], UNCHANGED <<storeVars, shown>>,
         w # NoView => Known(w) /\ Ordered(w) /\ Follows(shown[c], w)
  PROVE  ViewInv'
<1>1. StoreInv'
  BY StoreInvFrame DEF ViewInv
<1>2. reading' \in [Readers -> Views \cup {NoView}]
  BY DEF ViewInv
<1>3. ASSUME NEW d \in Readers
      PROVE  /\ \A v \in Views : v = reading'[d] => Known(v)' /\ Ordered(v)
             /\ \A v \in Views : v = shown'[d] => Known(v)' /\ v.left = {}
             /\ Follows(shown'[d], reading'[d])
  <2>1. reading'[d] = IF d = c THEN w ELSE reading[d]
    BY DEF ViewInv
  <2>2. \A v \in Views : Known(v) => Known(v)'
    BY KnownFrame
  <2>3. shown'[d] = shown[d]
    OBVIOUS
  <2>4. Follows(shown[d], reading'[d])
    <3>1. CASE d = c /\ w = NoView
      BY <2>1, <3>1 DEF Follows
    <3> QED
      BY <2>1, <3>1 DEF ViewInv
  <2> QED
    BY <2>1, <2>2, <2>3, <2>4, NoViewAssumption DEF ViewInv
<1> QED
  BY <1>1, <1>2, <1>3 DEF ViewInv

\* A request begins with nothing known.
LEMMA AskInv ==
  ASSUME ViewInv, NEW c \in Readers, NEW i \in Intents, Ask(c, i)
  PROVE  ViewInv'
<1> DEFINE w == [intent |-> i, status |-> NoState, orders |-> FALSE, attempts |-> {},
                 txns |-> {}, history |-> {}, left |-> Queries]
<1>1. /\ w \in Views /\ w.left = Queries /\ w.status = NoState /\ w.intent = i
  BY DEF Views
<1>2. reading' = [reading EXCEPT ![c] = w] /\ UNCHANGED <<storeVars, shown>>
  BY DEF Ask
<1> HIDE DEF w
<1>3. Known(w) /\ Ordered(w) /\ Follows(shown[c], w)
  BY <1>1 DEF Known, Ordered, Follows, Queries, Lists, IsTerminal, TerminalStates,
              NoState
<1> QED
  BY <1>1, <1>2, <1>3, ReaderStep

\* A request that fails knows nothing any more.
LEMMA ReadErrorInv ==
  ASSUME ViewInv, NEW c \in Readers, ReadError(c)
  PROVE  ViewInv'
BY ReaderStep DEF ReadError

\* The intent's row: its status is the one its history has led to.
LEMMA ReadIntentInv ==
  ASSUME ViewInv, NEW c \in Readers, ReadIntent(c)
  PROVE  ViewInv'
<1> DEFINE v == reading[c]
           i == v.intent
           w == [[v EXCEPT !.status = status[i]] EXCEPT !.left = @ \ {"status"}]
<1>1. /\ v \in Views /\ v # NoView /\ "status" \in v.left /\ v.left = Queries
      /\ i \in Intents /\ status[i] \in States \cup {NoState}
  BY NoViewAssumption
     DEF ViewInv, ReadIntent, Left, Ordered, Views, StoreInv, StoreTypeOK
<1>2. CASE status[i] = NoState
  BY <1>2, ReaderStep DEF ReadIntent
<1>3. CASE status[i] # NoState
  <2>1. reading' = [reading EXCEPT ![c] = w] /\ UNCHANGED <<storeVars, shown>>
    BY <1>3 DEF ReadIntent, Fill
  <2>2. /\ w \in Views /\ w.left = Lists /\ w.status = status[i] /\ w.intent = i
    BY <1>1 DEF Views, Queries, Lists
  <2>3. Explains(Story(i), status[i])
    BY <1>1, <1>3, StoryExplains DEF ViewInv
  <2> HIDE DEF w
  <2>4. Known(w)
    BY <1>1, <1>3, <2>2, <2>3 DEF Known, Lists, Explains
  <2>5. Follows(shown[c], w)
    BY <1>1, <2>2 DEF ViewInv, Known, Follows, Lists
  <2>6. Ordered(w)
    BY <2>2 DEF Ordered, Lists
  <2> QED
    BY <2>1, <2>2, <2>4, <2>5, <2>6, ReaderStep
<1> QED
  BY <1>2, <1>3

\* One of the lists, all of it: what it says is true of the tables as they are.
LEMMA ReadListInv ==
  ASSUME ViewInv, NEW c \in Readers, ReadList(c)
  PROVE  ViewInv'
<1> DEFINE v == reading[c]
           i == v.intent
<1>0. StoreInv /\ shown \in [Readers -> Views \cup {NoView}]
  BY DEF ViewInv
<1>1. /\ v \in Views /\ v # NoView /\ "status" \notin v.left
      /\ Known(v) /\ Follows(shown[c], v)
      /\ shown[c] # NoView => Known(shown[c]) /\ shown[c].left = {}
  BY NoViewAssumption DEF ViewInv, ReadList, Asked, Left
<1>2. /\ i \in Intents /\ v.status # NoState
      /\ attempts[i] \subseteq AttemptRows /\ txns[i] \subseteq Payments
  BY <1>0, <1>1 DEF Views, Known, StoreInv, StoreTypeOK
<1> HIDE DEF v
<1>3. ASSUME NEW w \in Views, NEW q \in Lists, w.left = v.left \ {q},
             w.intent = i, w.status = v.status,
             q # "attempts" => w.attempts = v.attempts,
             q = "attempts" => w.attempts = attempts[i],
             q # "txns" => w.txns = v.txns,
             q = "txns" => w.txns = txns[i],
             q # "history" => w.history = v.history,
             q = "history" => w.history = Story(i),
             reading' = [reading EXCEPT ![c] = w], UNCHANGED <<storeVars, shown>>
      PROVE  ViewInv'
  <2>1. Known(w)
    <3>1. CASE q = "attempts"
      BY <1>0, <1>1, <1>2, <1>3, <3>1, WinnersArePaid DEF Known
    <3>2. CASE q = "history"
      <4>1. Explains(Story(i), v.status)
        <5>1. PICK e \in Story(i) : e.to = v.status
          BY <1>1, <1>2 DEF Known
        <5>2. status[i] # NoState
          <6>0. /\ history[i] \in Seq(HistoryRows)
                /\ Tells(history[i], status[i])
            BY <1>0, <1>2 DEF StoreInv, StoreTypeOK, HistoryRows, Told
          <6>1. history[i] # <<>> /\ status[i] = history[i][Len(history[i])].to
            BY <5>1, <6>0 DEF Story, Tells
          <6>2. history[i][Len(history[i])] \in HistoryRows
            BY <6>0, <6>1
          <6> QED
            BY <6>1, <6>2 DEF HistoryRows, States, NoState
        <5> QED
          BY <1>0, <1>2, <5>1, <5>2, StoryExplains, StoryExplainsOlder
      <4> QED
        BY <1>1, <1>2, <1>3, <3>2, <4>1 DEF Known
    <3>3. CASE q \in {"txns", "orders"}
      BY <1>1, <1>2, <1>3, <3>3 DEF Known
    <3> QED
      BY <3>1, <3>2, <3>3 DEF Lists
  <2>2. Follows(shown[c], w)
    BY <1>1, <1>2, <1>3 DEF Known, Follows, Lists
  <2>3. Ordered(w)
    BY <1>1, <1>3 DEF Ordered
  <2> QED
    BY <1>3, <2>1, <2>2, <2>3, ReaderStep
<1>4. Story(i) \subseteq Edges
  <2>1. history[i] \in Seq(Edges)
    BY <1>0, <1>2 DEF StoreInv, StoreTypeOK, Edges
  <2>2. \A n \in DOMAIN history[i] : history[i][n] \in Edges
    BY <2>1
  <2> QED
    BY <2>2 DEF Story
<1>5. CASE Asked(c, "orders") /\ Fill(c, [v EXCEPT !.orders = (i \in orders)], "orders")
  <2> DEFINE stored == i \in orders
             w == [[v EXCEPT !.orders = stored] EXCEPT !.left = @ \ {"orders"}]
  <2>0. stored \in BOOLEAN
    OBVIOUS
  <2> HIDE DEF stored
  <2>1. /\ w \in Views /\ w.left = v.left \ {"orders"}
        /\ w.intent = i /\ w.status = v.status
        /\ w.attempts = v.attempts
        /\ w.txns = v.txns
        /\ w.history = v.history
    BY <1>1, <2>0 DEF Views
  <2>2. reading' = [reading EXCEPT ![c] = w] /\ UNCHANGED <<storeVars, shown>>
    BY <1>5 DEF Fill, stored
  <2> HIDE DEF w
  <2> QED
    BY <1>3, <2>1, <2>2 DEF Lists
<1>6. CASE Asked(c, "attempts") /\ Fill(c, [v EXCEPT !.attempts = attempts[i]], "attempts")
  <2> DEFINE w == [[v EXCEPT !.attempts = attempts[i]] EXCEPT !.left = @ \ {"attempts"}]
  <2>1. /\ w \in Views /\ w.left = v.left \ {"attempts"} /\ w.attempts = attempts[i]
        /\ w.intent = i /\ w.status = v.status
        /\ w.txns = v.txns
        /\ w.history = v.history
    BY <1>1, <1>2 DEF Views
  <2>2. reading' = [reading EXCEPT ![c] = w] /\ UNCHANGED <<storeVars, shown>>
    BY <1>6 DEF Fill
  <2> HIDE DEF w
  <2> QED
    BY <1>3, <2>1, <2>2 DEF Lists
<1>7. CASE Asked(c, "txns") /\ Fill(c, [v EXCEPT !.txns = txns[i]], "txns")
  <2> DEFINE w == [[v EXCEPT !.txns = txns[i]] EXCEPT !.left = @ \ {"txns"}]
  <2>1. /\ w \in Views /\ w.left = v.left \ {"txns"} /\ w.txns = txns[i]
        /\ w.intent = i /\ w.status = v.status
        /\ w.attempts = v.attempts
        /\ w.history = v.history
    BY <1>1, <1>2 DEF Views
  <2>2. reading' = [reading EXCEPT ![c] = w] /\ UNCHANGED <<storeVars, shown>>
    BY <1>7 DEF Fill
  <2> HIDE DEF w
  <2> QED
    BY <1>3, <2>1, <2>2 DEF Lists
<1>8. CASE Asked(c, "history") /\ Fill(c, [v EXCEPT !.history = Story(i)], "history")
  <2> DEFINE w == [[v EXCEPT !.history = Story(i)] EXCEPT !.left = @ \ {"history"}]
  <2>1. /\ w \in Views /\ w.left = v.left \ {"history"} /\ w.history = Story(i)
        /\ w.intent = i /\ w.status = v.status
        /\ w.attempts = v.attempts
        /\ w.txns = v.txns
    BY <1>1, <1>2, <1>4 DEF Views
  <2>2. reading' = [reading EXCEPT ![c] = w] /\ UNCHANGED <<storeVars, shown>>
    BY <1>8 DEF Fill
  <2> HIDE DEF w
  <2> QED
    BY <1>3, <2>1, <2>2 DEF Lists
<1> QED
  BY <1>5, <1>6, <1>7, <1>8 DEF ReadList, Story, v

\* An answer says no more than was read.
LEMMA ShowInv ==
  ASSUME ViewInv, NEW c \in Readers, Show(c)
  PROVE  ViewInv'
<1>1. StoreInv'
  BY StoreInvFrame DEF ViewInv, Show
<1>2. \A v \in Views : Known(v) => Known(v)'
  BY KnownFrame DEF Show
<1>3. reading[c] \in Views
  BY DEF ViewInv, Show
<1>4. \A d \in Readers : Follows(shown'[d], reading'[d])
  BY DEF ViewInv, Show, Follows
<1> QED
  BY <1>1, <1>2, <1>3, <1>4, NoViewAssumption DEF ViewInv, Show

\* Other transactions commit between two queries.
LEMMA CommitInv ==
  ASSUME ViewInv, Commit
  PROVE  ViewInv'
<1>1. StoreInv'
  BY StoreStepInv DEF ViewInv, Commit
<1>2. \A v \in Views : Known(v) => Known(v)'
  BY KnownStays DEF ViewInv, Commit
<1> QED
  BY <1>1, <1>2 DEF ViewInv, Commit, viewVars

\* Every step keeps the invariant.
LEMMA ViewStepInv ==
  ASSUME ViewInv, [ViewNext]_allVars
  PROVE  ViewInv'
<1>1. CASE UNCHANGED allVars
  <2>0. UNCHANGED storeVars
    BY <1>1 DEF allVars, storeVars
  <2>1. \A v \in Views : Known(v) => Known(v)'
    BY <2>0, KnownFrame
  <2>2. StoreInv'
    BY <2>0, StoreInvFrame DEF ViewInv
  <2> QED
    BY <1>1, <2>1, <2>2 DEF ViewInv, allVars
<1> QED
  BY <1>1, CommitInv, AskInv, ReadIntentInv, ReadListInv, ShowInv, ReadErrorInv
     DEF ViewNext, Get

\* Everything a reader has read or been given is true of the tables, still.
THEOREM ViewInvariance == ViewSpec => []ViewInv
<1>1. ViewInit => ViewInv
  <2> SUFFICES ASSUME ViewInit PROVE ViewInv
    OBVIOUS
  <2>1. StoreInv
    BY StoreInitInv DEF ViewInit
  <2> QED
    BY <2>1, NoViewAssumption DEF ViewInit, ViewInv, Follows
<1>2. ViewInv /\ [ViewNext]_allVars => ViewInv'
  BY ViewStepInv
<1> QED
  BY <1>1, <1>2, PTL DEF ViewSpec

\* Answers are well typed, complete, and about intents that exist.
THEOREM ViewTypes == ViewSpec => []ViewTypeOK
<1>1. ViewInv => ViewTypeOK
  BY NoViewAssumption DEF ViewInv, ViewTypeOK, Known
<1> QED
  BY <1>1, ViewInvariance, PTL

\* getPayment without a transaction: COMPLETED is never shown without the one
\* transaction that settled the intent, nor without its SUCCEEDED attempt unless a
\* report filed that payment elsewhere, for any number of readers and attempts.
THEOREM ViewShowsPayment == ViewSpec => []CompletedShowsPayment
<1>1. ASSUME ViewInv, NEW c \in Readers, shown[c] # NoView,
             shown[c].status = "COMPLETED"
      PROVE  \E p \in Payments \ Mismatched :
               /\ shown[c].txns = {p} /\ OrderOf[p] = shown[c].intent
               /\ Winners(shown[c].attempts) \cap PaymentsOf(shown[c].intent)
                    \subseteq {p}
               /\ \/ p \in Winners(shown[c].attempts)
                  \/ \E k \in Intents \ {shown[c].intent} : \E a \in attempts[k] :
                       a.pay = p /\ a.status = "SUCCEEDED"
  <2> DEFINE v == shown[c]
             i == v.intent
  <2>1. v \in Views /\ v.left = {} /\ Known(v) /\ i \in Intents
    BY <1>1 DEF ViewInv, Views
  <2>2. /\ status[i] = "COMPLETED" /\ v.txns = txns[i]
        /\ Winners(v.attempts) \cap PaymentsOf(i) \subseteq txns[i]
        /\ txns[i] \subseteq Winners(v.attempts) \cup FiledElsewhere(i)
    BY <1>1, <2>1 DEF Known, IsTerminal, TerminalStates
  <2>3. PICK p \in Payments \ Mismatched : OrderOf[p] = i /\ txns[i] = {p}
    BY <1>1, <2>1, <2>2 DEF ViewInv, StoreInv, Settled
  <2>4. ASSUME NEW k \in Intents \ {i}, NEW a \in attempts[k], a.pay = p
        PROVE  a.status = "SUCCEEDED"
    <3>1. PICK j \in Intents : \E b \in attempts[j] : b.pay = p /\ b.status = "SUCCEEDED"
      BY <1>1, <2>1, <2>3 DEF ViewInv, StoreInv, WonIsPaid, Won
    <3> QED
      BY <1>1, <2>3, <2>4, <3>1, StoreAssumption
         DEF ViewInv, StoreInv, TableOK, UniquePayments
  <2>5. p \in FiledElsewhere(i) =>
          \E k \in Intents \ {i} : \E a \in attempts[k] :
            a.pay = p /\ a.status = "SUCCEEDED"
    BY <2>4 DEF FiledElsewhere
  <2> QED
    BY <2>2, <2>3, <2>5
<1>2. ViewInv => CompletedShowsPayment
  BY <1>1, Zenon DEF CompletedShowsPayment, Winners
<1> QED
  BY <1>2, ViewInvariance, PTL

\* The history an answer shows leads to the status it shows, though the history
\* was read later.
THEOREM ViewExplainsStatus == ViewSpec => []StatusIsExplained
<1>1. ViewInv => StatusIsExplained
  BY DEF ViewInv, Known, StatusIsExplained, Explains, Nums
<1> QED
  BY <1>1, ViewInvariance, PTL

\* Asking again never shows less or takes back what was final.
THEOREM ViewsAreMonotone == ViewSpec => ViewsNeverGoBack
<1>1. ASSUME ViewInv, [ViewNext]_allVars, NEW c \in Readers,
             shown[c] # NoView, shown'[c] # NoView,
             shown[c].intent = shown'[c].intent
      PROVE  /\ IsTerminal(shown[c].status) => shown'[c].status = shown[c].status
             /\ shown[c].status = "COMPLETED" => shown'[c].txns = shown[c].txns
             /\ shown[c].history \subseteq shown'[c].history
             /\ Nums(shown[c].attempts) \subseteq Nums(shown'[c].attempts)
  <2>1. CASE shown'[c] = shown[c]
    BY <2>1
  <2>2. CASE Show(c)
    <3>1. /\ shown'[c] = reading[c] /\ reading[c] # NoView /\ reading[c].left = {}
          /\ reading[c] \in Views /\ Known(reading[c])
          /\ Follows(shown[c], reading[c])
      BY <1>1, <2>2 DEF Show, ViewInv
    <3> QED
      BY <1>1, <3>1 DEF Follows, Known
  <2> QED
    BY <1>1, <2>1, <2>2 DEF ViewInv, ViewNext, Commit, viewVars, Get, Ask, ReadIntent,
         ReadList, Fill, Show, ReadError, allVars
<1>2. ViewInv /\ [ViewNext]_allVars =>
        [\A c \in Readers :
           LET v == shown[c]
               w == shown'[c] IN
           v # NoView /\ w # NoView /\ v.intent = w.intent =>
             /\ IsTerminal(v.status) => w.status = v.status
             /\ v.status = "COMPLETED" => w.txns = v.txns
             /\ v.history \subseteq w.history
             /\ {a.num : a \in v.attempts} \subseteq {a.num : a \in w.attempts}]_allVars
  BY <1>1, Zenon DEF Nums
<1> QED
  BY <1>2, ViewInvariance, PTL DEF ViewSpec, ViewsNeverGoBack
==============================================================================

----------------------------- MODULE PaymentView -----------------------------
(***************************************************************************)
(* GET /payments/:id (paymentService.getPayment): the intent's row, then    *)
(* the rows of the other four tables, each by a query of its own on a       *)
(* connection of its own.  No transaction makes them one snapshot: the      *)
(* serial transactions of PaymentStore run between any two of them.         *)
(*                                                                         *)
(* History rows are listed by created_at, the start of their transaction,   *)
(* which need not be the order of the commits: they are kept as a set.      *)
(***************************************************************************)
EXTENDS PaymentStore

CONSTANTS Readers,      \* clients, with one request at a time
          NoView,       \* nothing being read; nothing shown yet
          ViewAttempts  \* bound: rows of payment_attempts while they are looked at

ASSUME ViewAssumption == ViewAttempts \in Nat

VARIABLES reading,      \* reading[c]: the answer being put together for c
          shown         \* shown[c]: the last answer c was given

viewVars == <<reading, shown>>
allVars == <<status, orders, attempts, txns, history, reading, shown>>

\* The queries of Promise.all, and all of getPayment's.
Lists == {"orders", "attempts", "txns", "history"}
Queries == {"status"} \cup Lists

Edges == [from : States \cup {NoState}, to : States]

Views == [intent : Intents, status : States \cup {NoState}, orders : BOOLEAN,
          attempts : SUBSET AttemptRows, txns : SUBSET Payments,
          history : SUBSET Edges, left : SUBSET Queries]

ASSUME NoViewAssumption == NoView \notin Views

ViewInit ==
  /\ StoreInit
  /\ reading = [c \in Readers |-> NoView]
  /\ shown = [c \in Readers |-> NoView]

-----------------------------------------------------------------------------

\* c asks for intent i; no query has been answered.
Ask(c, i) ==
  /\ reading[c] = NoView
  /\ reading' = [reading EXCEPT ![c] =
       [intent |-> i, status |-> NoState, orders |-> FALSE, attempts |-> {},
        txns |-> {}, history |-> {}, left |-> Queries]]
  /\ UNCHANGED <<storeVars, shown>>

Left(c, query) == reading[c] # NoView /\ query \in reading[c].left

\* The view in progress of c with the answer to one more query.
Fill(c, view, query) ==
  /\ reading' = [reading EXCEPT ![c] = [view EXCEPT !.left = @ \ {query}]]
  /\ UNCHANGED <<storeVars, shown>>

\* A row that is not there read as if it were.
ReadIntent_Unchecked(c) ==
  /\ Left(c, "status")
  /\ Fill(c, [reading[c] EXCEPT !.status = status[reading[c].intent]], "status")

\* findIntentById; without a row the answer is 404.
ReadIntent(c) ==
  LET i == reading[c].intent IN
  /\ Left(c, "status")
  /\ IF status[i] # NoState
     THEN Fill(c, [reading[c] EXCEPT !.status = status[i]], "status")
     ELSE /\ reading' = [reading EXCEPT ![c] = NoView]
          /\ UNCHANGED <<storeVars, shown>>

\* All five queries in one Promise.all.
Asked_AllAtOnce(c, query) == Left(c, query)

\* The four lists are asked for once the intent's row is there.
Asked(c, query) == Left(c, query) /\ ~Left(c, "status")

ReadList(c) ==
  LET v == reading[c]
      i == v.intent IN
  \/ /\ Asked(c, "orders")
     /\ Fill(c, [v EXCEPT !.orders = i \in orders], "orders")
  \/ /\ Asked(c, "attempts")
     /\ Fill(c, [v EXCEPT !.attempts = attempts[i]], "attempts")
  \/ /\ Asked(c, "txns")
     /\ Fill(c, [v EXCEPT !.txns = txns[i]], "txns")
  \/ /\ Asked(c, "history")
     /\ Fill(c, [v EXCEPT !.history = {history[i][n] : n \in DOMAIN history[i]}],
             "history")

\* An answer put together before every query is answered.
Show_Partial(c) ==
  /\ reading[c] # NoView /\ ~Left(c, "status")
  /\ shown' = [shown EXCEPT ![c] = reading[c]]
  /\ reading' = [reading EXCEPT ![c] = NoView]
  /\ UNCHANGED storeVars

\* get: everything is read, 200.
Show(c) ==
  /\ reading[c] # NoView /\ reading[c].left = {}
  /\ shown' = [shown EXCEPT ![c] = reading[c]]
  /\ reading' = [reading EXCEPT ![c] = NoView]
  /\ UNCHANGED storeVars

\* A query throws: 500, and what was read is forgotten.
ReadError(c) ==
  /\ reading[c] # NoView
  /\ reading' = [reading EXCEPT ![c] = NoView]
  /\ UNCHANGED <<storeVars, shown>>

\* A transaction of some other request commits.
Commit ==
  /\ StoreNext
  /\ Cardinality(UNION {{i} \X attempts'[i] : i \in Intents}) <= ViewAttempts
  /\ UNCHANGED viewVars

Get(c) ==
  \/ \E i \in Intents : Ask(c, i)
  \/ ReadIntent(c)
  \/ ReadList(c)
  \/ Show(c)
  \/ ReadError(c)

ViewNext == Commit \/ \E c \in Readers : Get(c)

ViewSpec == ViewInit /\ [][ViewNext]_allVars

-----------------------------------------------------------------------------

\* Answers have their types, and an answer given is one about a row that exists,
\* with nothing left to read.
ViewTypeOK ==
  /\ reading \in [Readers -> Views \cup {NoView}]
  /\ shown \in [Readers -> Views \cup {NoView}]
  /\ \A c \in Readers :
       shown[c] # NoView => shown[c].left = {} /\ shown[c].status # NoState

\* An answer that says COMPLETED shows the payment as well, though its parts are
\* of different moments: one transaction, of a payment of its own order whose
\* amount matches, and no other SUCCEEDED attempt of that order.  The attempt of
\* that payment is there too, SUCCEEDED, unless a client's report has filed the
\* payment under another intent: then it SUCCEEDED there.
CompletedShowsPayment ==
  \A c \in Readers :
    shown[c] # NoView /\ shown[c].status = "COMPLETED" =>
      LET v == shown[c]
          won == {a.pay : a \in {b \in v.attempts : b.status = "SUCCEEDED"}} IN
      \E p \in Payments \ Mismatched :
        /\ v.txns = {p} /\ OrderOf[p] = v.intent
        /\ won \cap PaymentsOf(v.intent) \subseteq {p}
        /\ \/ p \in won
           \/ \E i \in Intents \ {v.intent} : \E a \in attempts[i] :
                a.pay = p /\ a.status = "SUCCEEDED"

\* An answer explains its status: the history shown has a row that led to it, and
\* no row whose beginning is missing; the attempts shown have no gap.
StatusIsExplained ==
  \A c \in Readers :
    shown[c] # NoView =>
      LET v == shown[c] IN
      /\ \E e \in v.history : e.to = v.status
      /\ \A e \in v.history : e.from = NoState \/ \E f \in v.history : f.to = e.from
      /\ {a.num : a \in v.attempts} = 1 .. Cardinality(v.attempts)

\* A client that asks again does not see the payment go back: a terminal status
\* and its transactions stay, and no history row or attempt number disappears.
ViewsNeverGoBack ==
  [][\A c \in Readers :
       LET v == shown[c]
           w == shown'[c] IN
       v # NoView /\ w # NoView /\ v.intent = w.intent =>
         /\ IsTerminal(v.status) => w.status = v.status
         /\ v.status = "COMPLETED" => w.txns = v.txns
         /\ v.history \subseteq w.history
         /\ {a.num : a \in v.attempts} \subseteq {a.num : a \in w.attempts}]_allVars
==============================================================================

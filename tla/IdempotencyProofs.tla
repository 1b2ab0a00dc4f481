-------------------------- MODULE IdempotencyProofs --------------------------
(***************************************************************************)
(* Under the assumption the middleware makes of itself (a request that is   *)
(* still running has not been running past the timeout, SlowClaims = FALSE) *)
(* one key has one outcome, for any number of requests, keys and bodies.    *)
(*                                                                         *)
(* The invariant: a request between its claim and its end owns its key's    *)
(* row (Owned); whoever found a claim stale can only be overtaking a        *)
(* request that has gone (OnlyGoneClaims); a finished row holds a payment   *)
(* of its own key and body (RowsAgree); and every answer given is the one   *)
(* in the row (AnswersAreStored).                                           *)
(***************************************************************************)
EXTENDS Idempotency, TLAPS

GonePoints == {"created", "failed", "crashed"}

RowsAgree ==
  \A k \in Keys :
    LET rec == record[k] IN
    /\ InProgress(k) => /\ KeyOf[rec.since] = k
                        /\ at[rec.since] \in Claiming \cup GonePoints
                        /\ rec.stale => at[rec.since] \in GonePoints
    /\ rec # NoRecord /\ rec.status = "COMPLETED" =>
         rec.pay # Nobody /\ BodyOf[rec.pay] = rec.hash

Owned ==
  \A r \in Requests :
    at[r] \in Claiming =>
      /\ InProgress(KeyOf[r])
      /\ Mine(r).since = r /\ Mine(r).id = row[r] /\ Mine(r).hash = BodyOf[r]

OnlyGoneClaims ==
  \A r \in Requests :
    at[r] = "reclaiming" => seen[r] \in Requests /\ at[seen[r]] \in GonePoints

AnswersAreStored ==
  \A r \in Requests :
    answer[r] # Nobody =>
      /\ at[r] \in {"created", "replayed"}
      /\ Mine(r) # NoRecord /\ Mine(r).status = "COMPLETED"
      /\ Mine(r).pay = answer[r] /\ Mine(r).hash = BodyOf[r]

IdempotencyInv ==
  /\ TypeOK
  /\ RowsAgree
  /\ Owned
  /\ OnlyGoneClaims
  /\ AnswersAreStored

-----------------------------------------------------------------------------

\* An empty table and requests that have not begun.
LEMMA IdempotencyInitInv == Init => IdempotencyInv
BY IdempotencyAssumption DEF Init, IdempotencyInv, TypeOK, RowsAgree, Owned,
     OnlyGoneClaims, AnswersAreStored, Points, Claiming, InProgress, Mine

\* The clock: without slow claims only the row of a request that has gone ages.
LEMMA AgeInv ==
  ASSUME SlowClaims = FALSE, IdempotencyInv, NEW k \in Keys, Age(k)
  PROVE  IdempotencyInv'
<1> USE IdempotencyAssumption, NoRecordAssumption
<1> USE DEF IdempotencyInv
<1>1. TypeOK'
  BY DEF TypeOK, Age, InProgress, Records
<1>2. RowsAgree'
  BY DEF TypeOK, Age, InProgress, Records, RowsAgree
<1>3. Owned'
  BY DEF TypeOK, Age, InProgress, Records, Owned, Mine
<1>4. OnlyGoneClaims'
  BY DEF TypeOK, Age, OnlyGoneClaims
<1>5. AnswersAreStored'
  BY DEF TypeOK, Age, InProgress, Records, AnswersAreStored, Mine
<1> QED BY <1>1, <1>2, <1>3, <1>4, <1>5

\* The key was free, so no other claiming request carries it.
LEMMA ClaimInv ==
  ASSUME IdempotencyInv, NEW r \in Requests, Claim(r)
  PROVE  IdempotencyInv'
<1> USE IdempotencyAssumption, NoRecordAssumption
<1> USE DEF IdempotencyInv, Claim, Mine, SetRecord, Goto, InProgress, TypeOK
<1> DEFINE new == [id |-> r, since |-> r, hash |-> BodyOf[r], stale |-> FALSE,
                   status |-> "IN_PROGRESS", pay |-> Nobody]
<1>b. /\ new \in Records /\ new # NoRecord /\ new.since = r /\ new.id = r
      /\ new.hash = BodyOf[r] /\ new.status = "IN_PROGRESS" /\ ~new.stale
  <2>1. BodyOf[r] \in Bodies
    BY DEF Bodies
  <2>2. new \in Records
    BY <2>1 DEF Records
  <2> QED BY <2>2
<1>c. /\ record' = [record EXCEPT ![KeyOf[r]] = new]
      /\ record'[KeyOf[r]] = new /\ row'[r] = r
  <2>1. KeyOf[r] \in Keys
    OBVIOUS
  <2> HIDE DEF new
  <2>2. record' = [record EXCEPT ![KeyOf[r]] = new]
    BY DEF new
  <2> QED BY <2>1, <2>2
<1> HIDE DEF new
<1>0. \A s \in Requests : at[s] \in Claiming => KeyOf[s] # KeyOf[r]
  BY DEF Owned
<1>1. TypeOK'
  BY <1>b, <1>c DEF Points, Claiming
<1>2. RowsAgree'
  BY <1>b, <1>c DEF Claiming, GonePoints, RowsAgree
<1>3. Owned'
  <2> SUFFICES ASSUME NEW s \in Requests, at'[s] \in Claiming
               PROVE  /\ InProgress(KeyOf[s])'
                      /\ Mine(s)'.since = s /\ Mine(s)'.id = row'[s]
                      /\ Mine(s)'.hash = BodyOf[s]
    BY DEF Owned
  <2>1. CASE s = r
    BY <1>b, <1>c, <2>1
  <2>2. CASE s # r
    <3>1. at[s] \in Claiming /\ row'[s] = row[s]
      BY <2>2
    <3>2. record'[KeyOf[s]] = record[KeyOf[s]]
      BY <1>0, <3>1
    <3> QED BY <3>1, <3>2 DEF Owned
  <2> QED BY <2>1, <2>2
<1>4. OnlyGoneClaims'
  BY DEF Claiming, GonePoints, OnlyGoneClaims
<1>5. AnswersAreStored'
  BY DEF Records, AnswersAreStored
<1> QED BY <1>1, <1>2, <1>3, <1>4, <1>5

\* Losing the INSERT changes no row.
LEMMA ClaimTakenInv ==
  ASSUME IdempotencyInv, NEW r \in Requests, ClaimTaken(r)
  PROVE  IdempotencyInv'
<1> USE IdempotencyAssumption, NoRecordAssumption
<1> USE DEF IdempotencyInv, ClaimTaken, Mine, SetRecord, Goto, Answer, InProgress, TypeOK
<1>1. TypeOK'
  BY DEF Records, Points, Claiming, Bodies
<1>2. RowsAgree'
  BY DEF Records, Claiming, GonePoints, RowsAgree, Owned, OnlyGoneClaims
<1>3. Owned'
  BY DEF Records, Claiming, GonePoints, RowsAgree, Owned, OnlyGoneClaims
<1>4. OnlyGoneClaims'
  BY DEF Records, Claiming, GonePoints, RowsAgree, OnlyGoneClaims
<1>5. AnswersAreStored'
  BY DEF Records, Claiming, RowsAgree, Owned, AnswersAreStored
<1> QED BY <1>1, <1>2, <1>3, <1>4, <1>5

\* A TypeError changes no row.
LEMMA LookEmptyInv ==
  ASSUME IdempotencyInv, NEW r \in Requests, LookEmpty(r)
  PROVE  IdempotencyInv'
<1> USE IdempotencyAssumption, NoRecordAssumption
<1> USE DEF IdempotencyInv, LookEmpty, Mine, SetRecord, Goto, Answer, InProgress, TypeOK
<1>1. TypeOK'
  BY DEF Records, Points, Claiming, Bodies
<1>2. RowsAgree'
  BY DEF Records, Claiming, GonePoints, RowsAgree, Owned, OnlyGoneClaims
<1>3. Owned'
  BY DEF Records, Claiming, GonePoints, RowsAgree, Owned, OnlyGoneClaims
<1>4. OnlyGoneClaims'
  BY DEF Records, Claiming, GonePoints, RowsAgree, OnlyGoneClaims
<1>5. AnswersAreStored'
  BY DEF Records, Claiming, RowsAgree, Owned, AnswersAreStored
<1> QED BY <1>1, <1>2, <1>3, <1>4, <1>5

\* A replay answers what the row says, which is its own key's answer.
LEMMA LookCompletedInv ==
  ASSUME IdempotencyInv, NEW r \in Requests, LookCompleted(r)
  PROVE  IdempotencyInv'
<1> USE IdempotencyAssumption, NoRecordAssumption
<1> USE DEF IdempotencyInv, LookCompleted, Mine, SetRecord, Goto, Answer, InProgress, TypeOK
<1>1. TypeOK'
  BY DEF Records, Points, Claiming, Bodies
<1>2. RowsAgree'
  BY DEF Records, Claiming, GonePoints, RowsAgree, Owned, OnlyGoneClaims
<1>3. Owned'
  BY DEF Records, Claiming, GonePoints, RowsAgree, Owned, OnlyGoneClaims
<1>4. OnlyGoneClaims'
  BY DEF Records, Claiming, GonePoints, RowsAgree, OnlyGoneClaims
<1>5. AnswersAreStored'
  BY DEF Records, Claiming, RowsAgree, Owned, AnswersAreStored
<1> QED BY <1>1, <1>2, <1>3, <1>4, <1>5

\* What a request remembers of a stale claim is a request.
LEMMA LookInProgressInv ==
  ASSUME IdempotencyInv, NEW r \in Requests, LookInProgress(r)
  PROVE  IdempotencyInv'
<1> USE IdempotencyAssumption, NoRecordAssumption
<1> USE DEF IdempotencyInv, LookInProgress, Mine, SetRecord, Goto, Answer, InProgress, TypeOK
<1>1. TypeOK'
  BY DEF Records, Points, Claiming, Bodies
<1>2. RowsAgree'
  BY DEF Records, Claiming, GonePoints, RowsAgree, Owned, OnlyGoneClaims
<1>3. Owned'
  BY DEF Records, Claiming, GonePoints, RowsAgree, Owned, OnlyGoneClaims
<1>4. OnlyGoneClaims'
  BY DEF Records, Claiming, GonePoints, RowsAgree, OnlyGoneClaims
<1>5. AnswersAreStored'
  BY DEF Records, Claiming, RowsAgree, Owned, AnswersAreStored
<1> QED BY <1>1, <1>2, <1>3, <1>4, <1>5

\* The claim taken over is of a request that has gone, so no other claiming
\* request carries the key.
LEMMA ReclaimInv ==
  ASSUME IdempotencyInv, NEW r \in Requests, Reclaim(r)
  PROVE  IdempotencyInv'
<1> USE IdempotencyAssumption, NoRecordAssumption
<1> USE DEF IdempotencyInv, Reclaim, StillStale, Mine, SetRecord, Goto,
            InProgress, TypeOK
<1> DEFINE rec == record[KeyOf[r]]
           new == [rec EXCEPT !.since = r, !.hash = BodyOf[r],
                     !.status = "IN_PROGRESS", !.pay = Nobody, !.stale = FALSE]
<1>a. rec \in Records /\ KeyOf[r] \in Keys /\ BodyOf[r] \in Bodies
  BY DEF Bodies
<1>b. /\ new \in Records /\ new # NoRecord /\ new.since = r /\ new.id = rec.id
      /\ new.hash = BodyOf[r] /\ new.status = "IN_PROGRESS" /\ ~new.stale
  BY <1>a DEF Records
<1>c. /\ record' = [record EXCEPT ![KeyOf[r]] = new]
      /\ record'[KeyOf[r]] = new /\ row'[r] = rec.id
  BY <1>a
<1> HIDE DEF new
<1>0. \A s \in Requests : at[s] \in Claiming => KeyOf[s] # KeyOf[r]
  BY DEF Owned, OnlyGoneClaims, GonePoints, Claiming
<1>1. TypeOK'
  BY <1>a, <1>b, <1>c DEF Records, Points, Claiming
<1>2. RowsAgree'
  BY <1>a, <1>b, <1>c DEF Claiming, GonePoints, RowsAgree
<1>3. Owned'
  <2> SUFFICES ASSUME NEW s \in Requests, at'[s] \in Claiming
               PROVE  /\ InProgress(KeyOf[s])'
                      /\ Mine(s)'.since = s /\ Mine(s)'.id = row'[s]
                      /\ Mine(s)'.hash = BodyOf[s]
    BY DEF Owned
  <2>1. CASE s = r
    BY <1>a, <1>b, <1>c, <2>1
  <2>2. CASE s # r
    <3>1. at[s] \in Claiming /\ row'[s] = row[s]
      BY <2>2
    <3>2. record'[KeyOf[s]] = record[KeyOf[s]]
      BY <1>0, <3>1
    <3> QED BY <3>1, <3>2 DEF Owned
  <2> QED BY <2>1, <2>2
<1>4. OnlyGoneClaims'
  BY DEF Claiming, GonePoints, OnlyGoneClaims
<1>5. AnswersAreStored'
  <2>1. \A s \in Requests : answer[s] # Nobody => KeyOf[s] # KeyOf[r]
    BY DEF AnswersAreStored
  <2> QED BY <2>1, <1>c DEF AnswersAreStored
<1> QED BY <1>1, <1>2, <1>3, <1>4, <1>5

\* Losing the UPDATE changes no row.
LEMMA ReclaimLostInv ==
  ASSUME IdempotencyInv, NEW r \in Requests, ReclaimLost(r)
  PROVE  IdempotencyInv'
<1> USE IdempotencyAssumption, NoRecordAssumption
<1> USE DEF IdempotencyInv, ReclaimLost, Mine, SetRecord, Goto, Answer, InProgress, TypeOK
<1>1. TypeOK'
  BY DEF Records, Points, Claiming, Bodies
<1>2. RowsAgree'
  BY DEF Records, Claiming, GonePoints, RowsAgree, Owned, OnlyGoneClaims
<1>3. Owned'
  BY DEF Records, Claiming, GonePoints, RowsAgree, Owned, OnlyGoneClaims
<1>4. OnlyGoneClaims'
  BY DEF Records, Claiming, GonePoints, RowsAgree, OnlyGoneClaims
<1>5. AnswersAreStored'
  BY DEF Records, Claiming, RowsAgree, Owned, AnswersAreStored
<1> QED BY <1>1, <1>2, <1>3, <1>4, <1>5

\* Between claim and completion the request keeps its row.
LEMMA WorkInv ==
  ASSUME IdempotencyInv, NEW r \in Requests, Work(r)
  PROVE  IdempotencyInv'
<1> USE IdempotencyAssumption, NoRecordAssumption
<1> USE DEF IdempotencyInv, Work, Mine, SetRecord, Goto, Answer, InProgress, TypeOK
<1>1. TypeOK'
  BY DEF Records, Points, Claiming, Bodies
<1>2. RowsAgree'
  BY DEF Records, Claiming, GonePoints, RowsAgree, Owned, OnlyGoneClaims
<1>3. Owned'
  BY DEF Records, Claiming, GonePoints, RowsAgree, Owned, OnlyGoneClaims
<1>4. OnlyGoneClaims'
  BY DEF Records, Claiming, GonePoints, RowsAgree, OnlyGoneClaims
<1>5. AnswersAreStored'
  BY DEF Records, Claiming, RowsAgree, Owned, AnswersAreStored
<1> QED BY <1>1, <1>2, <1>3, <1>4, <1>5

\* r owns its row, so it finishes its own claim and no other.
LEMMA CompleteInv ==
  ASSUME IdempotencyInv, NEW r \in Requests, Complete(r)
  PROVE  IdempotencyInv'
<1> USE IdempotencyAssumption, NoRecordAssumption
<1> USE DEF IdempotencyInv, Mine, InProgress, TypeOK
<1> DEFINE rec == record[KeyOf[r]]
           new == [rec EXCEPT !.status = "COMPLETED", !.pay = r]
<1>a. /\ rec \in Records /\ rec # NoRecord /\ rec.status = "IN_PROGRESS"
      /\ rec.since = r /\ rec.id = row[r] /\ rec.hash = BodyOf[r] /\ KeyOf[r] \in Keys
  BY DEF Owned, Complete, Claiming
<1>b. /\ new \in Records /\ new.hash = BodyOf[r] /\ new.status = "COMPLETED"
      /\ new.pay = r
  BY <1>a DEF Records
<1>c. record' = [record EXCEPT ![KeyOf[r]] = new]
  BY <1>a DEF Complete, StoreResponse, Owns, SetRecord
<1>d. /\ at[r] = "completing" /\ row' = row /\ seen' = seen
      /\ \/ at' = [at EXCEPT ![r] = "created"] /\ answer' = [answer EXCEPT ![r] = r]
         \/ at' = [at EXCEPT ![r] = "crashed"] /\ answer' = answer
  BY DEF Complete, Goto, Answer
<1> HIDE DEF new
<1>0. \A s \in Requests : at[s] \in Claiming /\ s # r => KeyOf[s] # KeyOf[r]
  BY <1>a DEF Owned
<1>1. TypeOK'
  BY <1>a, <1>b, <1>c, <1>d DEF Points, Claiming
<1>2. RowsAgree'
  <2>1. record'[KeyOf[r]] = new /\ \A k \in Keys \ {KeyOf[r]} : record'[k] = record[k]
    BY <1>c
  <2>2. \A s \in Requests : at[s] \in GonePoints => at'[s] \in GonePoints
    BY <1>d DEF GonePoints
  <2>3. \A s \in Requests :
           at[s] \in Claiming => at'[s] \in Claiming \cup GonePoints
    BY <1>d DEF GonePoints, Claiming
  <2> SUFFICES ASSUME NEW k \in Keys
               PROVE  /\ InProgress(k)' =>
                           /\ KeyOf[record'[k].since] = k
                           /\ at'[record'[k].since] \in Claiming \cup GonePoints
                           /\ record'[k].stale =>
                                at'[record'[k].since] \in GonePoints
                      /\ record'[k] # NoRecord /\ record'[k].status = "COMPLETED" =>
                           /\ record'[k].pay # Nobody
                           /\ BodyOf[record'[k].pay] = record'[k].hash
    BY DEF RowsAgree
  <2>4. CASE k = KeyOf[r]
    BY <1>b, <2>1, <2>4
  <2>5. CASE k # KeyOf[r]
    <3>1. record'[k] = record[k]
      BY <2>1, <2>5
    <3>2. InProgress(k) => record[k].since \in Requests
      BY DEF Records
    <3> QED BY <2>2, <2>3, <3>1, <3>2 DEF RowsAgree
  <2> QED BY <2>4, <2>5
<1>3. Owned'
  BY <1>0, <1>c, <1>d DEF Owned, Claiming
<1>4. OnlyGoneClaims'
  BY <1>d DEF Claiming, GonePoints, OnlyGoneClaims
<1>5. AnswersAreStored'
  <2>1. \A s \in Requests : answer[s] # Nobody => KeyOf[s] # KeyOf[r] /\ s # r
    BY <1>a DEF AnswersAreStored
  <2> QED BY <2>1, <1>a, <1>b, <1>c, <1>d DEF AnswersAreStored
<1> QED BY <1>1, <1>2, <1>3, <1>4, <1>5

\* r owns its row, so it deletes its own claim and no other.
LEMMA ReleaseInv ==
  ASSUME IdempotencyInv, NEW r \in Requests, Release(r)
  PROVE  IdempotencyInv'
<1> USE IdempotencyAssumption, NoRecordAssumption
<1> USE DEF IdempotencyInv, Mine, InProgress, TypeOK
<1>a. /\ Mine(r) # NoRecord /\ Mine(r).status = "IN_PROGRESS"
      /\ Mine(r).since = r /\ Mine(r).id = row[r] /\ KeyOf[r] \in Keys
  BY DEF Owned, Release, Claiming
<1>c. record' = [record EXCEPT ![KeyOf[r]] = NoRecord]
  BY <1>a DEF Release, Owns, SetRecord
<1>d. /\ at[r] = "releasing" /\ at' = [at EXCEPT ![r] = "failed"]
      /\ row' = row /\ seen' = seen /\ answer' = answer
  BY DEF Release, Goto
<1>0. \A s \in Requests : at[s] \in Claiming /\ s # r => KeyOf[s] # KeyOf[r]
  BY <1>a DEF Owned
<1>1. TypeOK'
  BY <1>c, <1>d DEF Points, Claiming
<1>2. RowsAgree'
  BY <1>c, <1>d DEF RowsAgree, Claiming, GonePoints
<1>3. Owned'
  BY <1>0, <1>c, <1>d DEF Owned, Claiming
<1>4. OnlyGoneClaims'
  BY <1>d DEF Claiming, GonePoints, OnlyGoneClaims
<1>5. AnswersAreStored'
  <2>1. \A s \in Requests : answer[s] # Nobody => KeyOf[s] # KeyOf[r] /\ s # r
    BY <1>a, <1>d DEF AnswersAreStored
  <2> QED BY <2>1, <1>c, <1>d DEF AnswersAreStored
<1> QED BY <1>1, <1>2, <1>3, <1>4, <1>5

\* A failed statement leaves the row to whoever has it.
LEMMA StatementErrorInv ==
  ASSUME IdempotencyInv, NEW r \in Requests, StatementError(r)
  PROVE  IdempotencyInv'
<1> USE IdempotencyAssumption, NoRecordAssumption
<1> USE DEF IdempotencyInv, StatementError, Mine, SetRecord, Goto, Answer, InProgress, TypeOK
<1>1. TypeOK'
  BY DEF Records, Points, Claiming, Bodies
<1>2. RowsAgree'
  BY DEF Records, Claiming, GonePoints, RowsAgree, Owned, OnlyGoneClaims
<1>3. Owned'
  BY DEF Records, Claiming, GonePoints, RowsAgree, Owned, OnlyGoneClaims
<1>4. OnlyGoneClaims'
  BY DEF Records, Claiming, GonePoints, RowsAgree, OnlyGoneClaims
<1>5. AnswersAreStored'
  BY DEF Records, Claiming, RowsAgree, Owned, AnswersAreStored
<1> QED BY <1>1, <1>2, <1>3, <1>4, <1>5

\* A crash leaves the row IN_PROGRESS, of a request that has gone.
LEMMA CrashInv ==
  ASSUME IdempotencyInv, NEW r \in Requests, Crash(r)
  PROVE  IdempotencyInv'
<1> USE IdempotencyAssumption, NoRecordAssumption
<1> USE DEF IdempotencyInv, Crash, Mine, SetRecord, Goto, Answer, InProgress, TypeOK
<1>1. TypeOK'
  BY DEF Records, Points, Claiming, Bodies
<1>2. RowsAgree'
  BY DEF Records, Claiming, GonePoints, RowsAgree, Owned, OnlyGoneClaims
<1>3. Owned'
  BY DEF Records, Claiming, GonePoints, RowsAgree, Owned, OnlyGoneClaims
<1>4. OnlyGoneClaims'
  BY DEF Records, Claiming, GonePoints, RowsAgree, OnlyGoneClaims
<1>5. AnswersAreStored'
  BY DEF Records, Claiming, RowsAgree, Owned, AnswersAreStored
<1> QED BY <1>1, <1>2, <1>3, <1>4, <1>5

\* A request that was answered 409 starts afresh, owning nothing.
LEMMA ResendInv ==
  ASSUME IdempotencyInv, NEW r \in Requests, Resend(r)
  PROVE  IdempotencyInv'
<1> USE IdempotencyAssumption, NoRecordAssumption
<1> USE DEF IdempotencyInv, Resend, Mine, SetRecord, Goto, Answer, InProgress, TypeOK
<1>1. TypeOK'
  BY DEF Records, Points, Claiming, Bodies
<1>2. RowsAgree'
  BY DEF Records, Claiming, GonePoints, RowsAgree, Owned, OnlyGoneClaims
<1>3. Owned'
  BY DEF Records, Claiming, GonePoints, RowsAgree, Owned, OnlyGoneClaims
<1>4. OnlyGoneClaims'
  BY DEF Records, Claiming, GonePoints, RowsAgree, OnlyGoneClaims
<1>5. AnswersAreStored'
  BY DEF Records, Claiming, RowsAgree, Owned, AnswersAreStored
<1> QED BY <1>1, <1>2, <1>3, <1>4, <1>5

-----------------------------------------------------------------------------

\* Every reachable state satisfies the invariant, for any number of requests.
THEOREM IdempotencyInvariance ==
  ASSUME SlowClaims = FALSE
  PROVE  Spec => []IdempotencyInv
<1>1. ASSUME IdempotencyInv, [Next]_vars
      PROVE  IdempotencyInv'
  <2>1. CASE \E k \in Keys : Age(k)
    BY <1>1, <2>1, AgeInv
  <2>2. CASE \E r \in Requests : Step(r) \/ StatementError(r) \/ Crash(r)
    BY <1>1, <2>2, ClaimInv, ClaimTakenInv, LookEmptyInv, LookCompletedInv,
       LookInProgressInv, ReclaimInv, ReclaimLostInv, WorkInv, CompleteInv,
       ReleaseInv, ResendInv, StatementErrorInv, CrashInv DEF Step, KeyStep
  <2>3. CASE UNCHANGED vars
    BY <1>1, <2>3 DEF vars, IdempotencyInv, TypeOK, RowsAgree, Owned,
         OnlyGoneClaims, AnswersAreStored, InProgress, Mine
  <2> QED BY <1>1, <2>1, <2>2, <2>3 DEF Next
<1> QED BY <1>1, IdempotencyInitInv, PTL DEF Spec

\* idempotency.js: the same key produces one outcome.
THEOREM OneOutcomePerKey ==
  ASSUME SlowClaims = FALSE
  PROVE  Spec => []OneAnswerPerKey
<1>1. IdempotencyInv => OneAnswerPerKey
  BY DEF IdempotencyInv, OneAnswerPerKey, AnswersAreStored, Mine
<1> QED BY <1>1, IdempotencyInvariance, PTL

\* A key reused with another body is never answered with the payment it names.
THEOREM NoAnswerForAnotherBody ==
  ASSUME SlowClaims = FALSE
  PROVE  Spec => []AnswerMatchesBody
<1>1. IdempotencyInv => AnswerMatchesBody
  BY IdempotencyAssumption DEF IdempotencyInv, TypeOK, AnswerMatchesBody,
       AnswersAreStored, RowsAgree, Mine
<1> QED BY <1>1, IdempotencyInvariance, PTL

\* A stored response is never overwritten, reclaimed or released.
THEOREM StoredResponsesAreFinal ==
  ASSUME SlowClaims = FALSE
  PROVE  Spec => CompletedIsFinal
<1> DEFINE Final == \A k \in Keys :
             record[k] # NoRecord /\ record[k].status = "COMPLETED" =>
               record'[k] = record[k]
<1>1. ASSUME IdempotencyInv, [Next]_vars
      PROVE  Final
  <2>1. CASE \E k \in Keys : Age(k)
    BY <1>1, <2>1 DEF IdempotencyInv, TypeOK, Age, InProgress
  <2>2. ASSUME NEW r \in Requests, Step(r) \/ StatementError(r) \/ Crash(r)
        PROVE  Final
    <3> USE <1>1 DEF IdempotencyInv, TypeOK
    <3>1. CASE Claim(r)
      BY <3>1 DEF Claim, Mine, SetRecord
    <3>2. CASE Reclaim(r)
      BY <3>2 DEF Reclaim, StillStale, InProgress, Mine, SetRecord
    <3>3. CASE Complete(r)
      BY <3>3 DEF Complete, StoreResponse, Mine, SetRecord, Owned, Claiming,
                  InProgress
    <3>4. CASE Release(r)
      BY <3>4 DEF Release, Mine, SetRecord, Owned, Claiming, InProgress
    <3>5. CASE UNCHANGED record
      BY <3>5
    <3> QED BY <2>2, <3>1, <3>2, <3>3, <3>4, <3>5
          DEF Step, KeyStep, ClaimTaken, LookEmpty, LookCompleted, LookInProgress,
              ReclaimLost, Work, Resend, StatementError, Crash
  <2>3. CASE UNCHANGED vars
    BY <2>3 DEF vars
  <2> QED BY <1>1, <2>1, <2>2, <2>3 DEF Next
<1> QED BY <1>1, IdempotencyInvariance, PTL DEF Spec, CompletedIsFinal

-----------------------------------------------------------------------------
(* The table implements KeyOutcome *)

Outcomes == [k \in Keys |-> Stored(k)]

\* A statement that writes at most the row of one key, and a row that stores no
\* response before or after, changes no outcome.
LEMMA OutcomeFrame ==
  ASSUME TypeOK, NEW k \in Keys, NEW rec,
         record' = record \/ record' = [record EXCEPT ![k] = rec],
         record[k] # NoRecord => record[k].status = "IN_PROGRESS",
         rec # NoRecord => rec.status = "IN_PROGRESS"
  PROVE  Outcomes' = Outcomes
BY DEF TypeOK, Outcomes, Stored

\* Storing the response of the request that owns the key decides its outcome.
LEMMA CompleteDecides ==
  ASSUME IdempotencyInv, NEW r \in Requests, Complete(r)
  PROVE  Outcome!Decide(r)
<1> USE IdempotencyAssumption, NoRecordAssumption
<1> DEFINE k == KeyOf[r]
           rec == [Mine(r) EXCEPT !.status = "COMPLETED", !.pay = r]
<1>1. /\ k \in Keys /\ record \in [Keys -> Records \cup {NoRecord}]
      /\ Mine(r) \in Records /\ Mine(r).status = "IN_PROGRESS" /\ Mine(r).id = row[r]
  BY DEF IdempotencyInv, TypeOK, Owned, Complete, Claiming, InProgress, Mine
<1>2. record' = [record EXCEPT ![k] = rec]
  BY <1>1 DEF Complete, StoreResponse, Owns, SetRecord
<1>3. rec \in Records /\ rec.status = "COMPLETED" /\ rec.pay = r
  BY <1>1 DEF Records
<1> HIDE DEF rec
<1>4. Outcomes[k] = Nobody
  BY <1>1 DEF Outcomes, Stored, Mine
<1>5. Outcomes' = [Outcomes EXCEPT ![k] = r]
  BY <1>1, <1>2, <1>3 DEF Outcomes, Stored
<1>6. answer[r] = Nobody
  BY DEF IdempotencyInv, AnswersAreStored, Complete
<1> QED
  BY <1>4, <1>5, <1>6
     DEF Complete, Answer, Outcomes, Outcome!Decide, Outcome!Learn

\* A replay tells the outcome.
LEMMA ReplayTells ==
  ASSUME IdempotencyInv, NEW r \in Requests, LookCompleted(r), answer' # answer
  PROVE  Outcome!Tell(r)
<1> USE IdempotencyAssumption
<1>1. /\ Mine(r) # NoRecord /\ Mine(r).status = "COMPLETED" /\ Mine(r).hash = BodyOf[r]
      /\ answer' = [answer EXCEPT ![r] = Mine(r).pay] /\ record' = record
      /\ at[r] = "looking" /\ KeyOf[r] \in Keys
  BY DEF LookCompleted, Answer
<1>2. /\ Outcomes[KeyOf[r]] = Mine(r).pay /\ Outcomes' = Outcomes
  BY <1>1 DEF Outcomes, Stored, Mine
<1>3. Mine(r).pay # Nobody /\ BodyOf[Mine(r).pay] = BodyOf[r]
  BY <1>1 DEF IdempotencyInv, RowsAgree, Mine
<1>4. answer[r] = Nobody
  BY <1>1 DEF IdempotencyInv, AnswersAreStored
<1> QED
  BY <1>1, <1>2, <1>3, <1>4 DEF Outcomes, Outcome!Tell, Outcome!Learn

\* A statement on the table is a step of the register, or a stutter.
LEMMA OutcomeStep ==
  ASSUME IdempotencyInv, [Next]_vars
  PROVE  [Outcome!Next]_(Outcome!vars)
<1> USE IdempotencyAssumption, NoRecordAssumption
<1>0. IdempotencyInv /\ TypeOK
  BY DEF IdempotencyInv
<1>1. ASSUME record' = record, answer' = answer
      PROVE  UNCHANGED Outcome!vars
  BY <1>1 DEF Outcome!vars, Stored
<1>2. ASSUME Outcomes' = Outcomes, answer' = answer
      PROVE  UNCHANGED Outcome!vars
  BY <1>2 DEF Outcome!vars, Outcomes
<1>3. ASSUME NEW k \in Keys, Age(k)
      PROVE  UNCHANGED Outcome!vars
  <2> DEFINE rec == [record[k] EXCEPT !.stale = TRUE]
  <2>1. record[k] \in Records /\ record[k].status = "IN_PROGRESS"
    BY <1>0, <1>3 DEF Age, InProgress, TypeOK
  <2>2. rec.status = "IN_PROGRESS" /\ record' = [record EXCEPT ![k] = rec]
    BY <1>3, <2>1 DEF Age, Records
  <2> HIDE DEF rec
  <2>3. Outcomes' = Outcomes
    BY <1>0, <2>1, <2>2, OutcomeFrame
  <2> QED
    BY <1>2, <1>3, <2>3 DEF Age
<1>4. ASSUME NEW r \in Requests, Claim(r)
      PROVE  UNCHANGED Outcome!vars
  <2> DEFINE rec == [id |-> r, since |-> r, hash |-> BodyOf[r], stale |-> FALSE,
                     status |-> "IN_PROGRESS", pay |-> Nobody]
  <2>1. rec.status = "IN_PROGRESS"
    OBVIOUS
  <2>2. /\ record' = [record EXCEPT ![KeyOf[r]] = rec] /\ record[KeyOf[r]] = NoRecord
        /\ KeyOf[r] \in Keys
    BY <1>4 DEF Claim, SetRecord, Mine
  <2> HIDE DEF rec
  <2>3. Outcomes' = Outcomes
    BY <1>0, <2>1, <2>2, OutcomeFrame
  <2> QED
    BY <1>2, <1>4, <2>3 DEF Claim
<1>5. ASSUME NEW r \in Requests, Reclaim(r)
      PROVE  UNCHANGED Outcome!vars
  <2> DEFINE rec == [Mine(r) EXCEPT !.since = r, !.hash = BodyOf[r],
                       !.status = "IN_PROGRESS", !.pay = Nobody, !.stale = FALSE]
  <2>1. /\ Mine(r) \in Records /\ record[KeyOf[r]].status = "IN_PROGRESS"
        /\ KeyOf[r] \in Keys
    BY <1>0, <1>5 DEF Reclaim, StillStale, InProgress, Mine, TypeOK
  <2>2. rec.status = "IN_PROGRESS"
    BY <2>1 DEF Records
  <2>3. record' = [record EXCEPT ![KeyOf[r]] = rec]
    BY <1>5 DEF Reclaim, SetRecord
  <2> HIDE DEF rec
  <2>4. Outcomes' = Outcomes
    BY <1>0, <2>1, <2>2, <2>3, OutcomeFrame
  <2> QED
    BY <1>2, <1>5, <2>4 DEF Reclaim
<1>6. ASSUME NEW r \in Requests, Release(r)
      PROVE  UNCHANGED Outcome!vars
  <2>1. /\ record[KeyOf[r]] # NoRecord => record[KeyOf[r]].status = "IN_PROGRESS"
        /\ KeyOf[r] \in Keys
    BY <1>0, <1>6 DEF IdempotencyInv, Owned, Release, Claiming, InProgress
  <2>2. record' = record \/ record' = [record EXCEPT ![KeyOf[r]] = NoRecord]
    BY <1>6 DEF Release, SetRecord
  <2>3. Outcomes' = Outcomes
    BY <1>0, <2>1, <2>2, OutcomeFrame
  <2> QED
    BY <1>2, <1>6, <2>3 DEF Release
<1>7. ASSUME NEW r \in Requests, LookCompleted(r)
      PROVE  [Outcome!Next]_(Outcome!vars)
  <2>1. CASE answer' = answer
    BY <1>1, <1>7, <2>1 DEF LookCompleted
  <2>2. CASE answer' # answer
    BY <1>0, <1>7, <2>2, ReplayTells DEF Outcome!Next
  <2> QED
    BY <2>1, <2>2
<1>8. ASSUME NEW r \in Requests, Complete(r)
      PROVE  Outcome!Next
  BY <1>0, <1>8, CompleteDecides DEF Outcome!Next
<1>9. ASSUME NEW r \in Requests,
             \/ ClaimTaken(r) \/ LookEmpty(r) \/ LookInProgress(r) \/ ReclaimLost(r)
             \/ Work(r) \/ Resend(r) \/ StatementError(r) \/ Crash(r)
      PROVE  UNCHANGED Outcome!vars
  BY <1>1, <1>9 DEF ClaimTaken, LookEmpty, LookInProgress, ReclaimLost, Work, Resend,
                    StatementError, Crash
<1>10. CASE UNCHANGED vars
  BY <1>1, <1>10 DEF vars
<1> QED
  BY <1>3, <1>4, <1>5, <1>6, <1>7, <1>8, <1>9, <1>10 DEF Next, Step, KeyStep

\* The middleware makes every Idempotency-Key a register written once.
THEOREM ImplementsKeyOutcome ==
  ASSUME SlowClaims = FALSE
  PROVE  Spec => KeyOutcomeSpec
<1>1. Init => Outcome!Init
  BY DEF Init, Outcome!Init, Stored
<1>2. IdempotencyInv /\ [Next]_vars => [Outcome!Next]_(Outcome!vars)
  BY OutcomeStep
<1> QED
  BY <1>1, <1>2, IdempotencyInvariance, PTL DEF Spec, KeyOutcomeSpec, Outcome!Spec

-----------------------------------------------------------------------------
(* Reclaims, with or without slow claims *)

\* r has taken over the row of another request.
Reclaimed(r) == row[r] \notin {r, Nobody}

Unclaimed == {"new", "looking", "reclaiming", "conflict"}

\* A request claims once; a row is of a claim made on its own key; and a claim
\* that was taken over is in no row any more.
ClaimsInv ==
  /\ TypeOK
  /\ \A r \in Requests : at[r] \in Unclaimed => row[r] = Nobody
  /\ \A k \in Keys : record[k] # NoRecord =>
       KeyOf[record[k].since] = k /\ row[record[k].since] # Nobody
  /\ \A r \in Requests : Reclaimed(r) =>
       /\ seen[r] \in Requests /\ row[seen[r]] # Nobody
       /\ \A k \in Keys : record[k] # NoRecord => record[k].since # seen[r]
  /\ ReclaimedOnce

\* A claim is new: no row and no reclaim is of the request that makes it.
LEMMA ClaimKeepsClaims ==
  ASSUME ClaimsInv, NEW r \in Requests, Claim(r)
  PROVE  ClaimsInv'
<1> USE IdempotencyAssumption, NoRecordAssumption
<1> DEFINE new == [id |-> r, since |-> r, hash |-> BodyOf[r], stale |-> FALSE,
                   status |-> "IN_PROGRESS", pay |-> Nobody]
<1>1. new \in Records /\ new.since = r
  BY DEF Records, Bodies
<1>2. /\ record' = [record EXCEPT ![KeyOf[r]] = new]
      /\ row' = [row EXCEPT ![r] = r]
      /\ at' = [at EXCEPT ![r] = "working"]
      /\ UNCHANGED <<seen, answer>>
      /\ row[r] = Nobody /\ KeyOf[r] \in Keys
  BY DEF Claim, SetRecord, Goto, ClaimsInv, Unclaimed
<1> HIDE DEF new
<1>3. TypeOK'
  BY <1>1, <1>2 DEF ClaimsInv, TypeOK, Points, Claiming
<1>4. \A s \in Requests : Reclaimed(s)' => Reclaimed(s) /\ s # r /\ seen[s] # r
  BY <1>2 DEF ClaimsInv, TypeOK, Reclaimed
<1>5. ReclaimedOnce'
  BY <1>2, <1>4 DEF ClaimsInv, ReclaimedOnce, Reclaimed
<1> QED
  BY <1>1, <1>2, <1>3, <1>4, <1>5 DEF ClaimsInv, TypeOK, Unclaimed

\* The UPDATE's created_at condition: whoever takes a claim over takes it out of
\* the table, so nobody who has seen it finds it again.
LEMMA ReclaimKeepsClaims ==
  ASSUME ClaimsInv, NEW r \in Requests, Reclaim(r)
  PROVE  ClaimsInv'
<1> USE IdempotencyAssumption, NoRecordAssumption
<1> DEFINE old == record[KeyOf[r]]
           new == [old EXCEPT !.since = r, !.hash = BodyOf[r],
                     !.status = "IN_PROGRESS", !.pay = Nobody, !.stale = FALSE]
<1>1. /\ KeyOf[r] \in Keys /\ row[r] = Nobody
      /\ old \in Records /\ old.since = seen[r] /\ old # NoRecord
  <2>1. KeyOf[r] \in Keys /\ at[r] = "reclaiming" /\ StillStale(r)
    BY DEF Reclaim
  <2>2. old # NoRecord /\ old.since = seen[r]
    BY <2>1 DEF StillStale, InProgress, Mine
  <2> QED
    BY <2>1, <2>2 DEF ClaimsInv, TypeOK, Unclaimed
<1>2. new \in Records /\ new.since = r /\ old.id \in Requests
  BY <1>1 DEF Records, Bodies
<1>3. /\ record' = [record EXCEPT ![KeyOf[r]] = new]
      /\ row' = [row EXCEPT ![r] = old.id]
      /\ at' = [at EXCEPT ![r] = "working"]
      /\ UNCHANGED <<seen, answer>>
  BY DEF Reclaim, SetRecord, Goto, Mine
<1> HIDE DEF new
<1>4. /\ seen[r] \in Requests /\ row[seen[r]] # Nobody /\ seen[r] # r
      /\ KeyOf[seen[r]] = KeyOf[r]
  BY <1>1 DEF ClaimsInv, Records
<1> HIDE DEF old
<1>5. TypeOK'
  BY <1>2, <1>3 DEF ClaimsInv, TypeOK, Points, Claiming
<1>6. \A s \in Requests \ {r} : Reclaimed(s)' =>
        Reclaimed(s) /\ seen[s] # r /\ seen[s] # seen[r]
  BY <1>1, <1>3 DEF ClaimsInv, TypeOK, Reclaimed, old
<1>7. ReclaimedOnce'
  BY <1>3, <1>6 DEF ClaimsInv, ReclaimedOnce, Reclaimed
<1>8. \A k \in Keys : record'[k] # NoRecord =>
        KeyOf[record'[k].since] = k /\ row'[record'[k].since] # Nobody
  BY <1>2, <1>3 DEF ClaimsInv, TypeOK, Records
<1>9. \A k \in Keys : record'[k] # NoRecord => record'[k].since # seen[r]
  BY <1>2, <1>3, <1>4 DEF ClaimsInv, TypeOK
<1>10. \A s \in Requests : Reclaimed(s)' =>
         /\ seen'[s] \in Requests /\ row'[seen'[s]] # Nobody
         /\ \A k \in Keys : record'[k] # NoRecord => record'[k].since # seen'[s]
  BY <1>2, <1>3, <1>4, <1>6, <1>9 DEF ClaimsInv, TypeOK
<1> QED
  BY <1>3, <1>5, <1>7, <1>8, <1>10 DEF ClaimsInv, Unclaimed, TypeOK

\* No other step makes a claim: rows keep their claim or go.
LEMMA OthersKeepClaims ==
  ASSUME ClaimsInv, TypeOK', UNCHANGED row,
         \A r \in Requests : at'[r] \in Unclaimed => at[r] \in Unclaimed,
         \A r \in Requests : row[r] # Nobody => seen'[r] = seen[r],
         \A k \in Keys : record'[k] # NoRecord =>
           record[k] # NoRecord /\ record'[k].since = record[k].since
  PROVE  ClaimsInv'
BY DEF ClaimsInv, ReclaimedOnce, Reclaimed

\* Every step keeps the claims apart.
LEMMA ClaimsStep ==
  ASSUME ClaimsInv, [Next]_vars
  PROVE  ClaimsInv'
<1> USE IdempotencyAssumption, NoRecordAssumption
<1>0. TypeOK
  BY DEF ClaimsInv
<1>1. ASSUME NEW k \in Keys, Age(k)
      PROVE  ClaimsInv'
  <2> DEFINE new == [record[k] EXCEPT !.stale = TRUE]
  <2>0. record[k] \in Records /\ record[k] # NoRecord
    BY <1>0, <1>1 DEF TypeOK, Age, InProgress
  <2>1. new \in Records /\ new.since = record[k].since
    BY <2>0 DEF Records
  <2>2. record' = [record EXCEPT ![k] = new] /\ UNCHANGED <<at, row, seen, answer>>
    BY <1>1 DEF Age
  <2> HIDE DEF new
  <2>3. TypeOK'
    BY <1>0, <2>0, <2>1, <2>2 DEF TypeOK
  <2>4. \A l \in Keys : record'[l] # NoRecord =>
          record[l] # NoRecord /\ record'[l].since = record[l].since
    BY <1>0, <2>0, <2>1, <2>2 DEF TypeOK
  <2> QED
    BY <2>2, <2>3, <2>4, OthersKeepClaims
<1>2. ASSUME NEW r \in Requests, Step(r) \/ StatementError(r) \/ Crash(r),
             ~Claim(r), ~Reclaim(r)
      PROVE  ClaimsInv'
  <2> USE DEF Points, Claiming, Goto, Answer, Mine, InProgress
  <2>1. CASE ClaimTaken(r) \/ LookEmpty(r) \/ LookCompleted(r)
             \/ ReclaimLost(r) \/ Work(r) \/ Resend(r)
    BY <2>1, OthersKeepClaims
       DEF ClaimTaken, LookEmpty, LookCompleted, ReclaimLost, Work, Resend,
           ClaimsInv, TypeOK, Unclaimed, Records
  <2>2. CASE LookInProgress(r)
    <3>1. TypeOK' /\ row[r] = Nobody
      BY <2>2 DEF LookInProgress, ClaimsInv, TypeOK, Unclaimed, Records
    <3> QED
      BY <2>2, <3>1, OthersKeepClaims
         DEF LookInProgress, ClaimsInv, TypeOK, Unclaimed
  <2>3. CASE Complete(r)
    <3>1. CASE UNCHANGED record
      BY <2>3, <3>1, OthersKeepClaims DEF Complete, ClaimsInv, TypeOK, Unclaimed
    <3>2. ASSUME Owns(r), SetRecord(r, [Mine(r) EXCEPT !.status = "COMPLETED",
                                                       !.pay = r])
          PROVE  ClaimsInv'
      <4> DEFINE new == [Mine(r) EXCEPT !.status = "COMPLETED", !.pay = r]
      <4>0. KeyOf[r] \in Keys /\ Mine(r) \in Records /\ Mine(r) # NoRecord
        BY <1>0, <3>2 DEF Owns, TypeOK
      <4>1. new \in Records /\ new.since = Mine(r).since
        BY <4>0 DEF Records
      <4>2. record' = [record EXCEPT ![KeyOf[r]] = new]
        BY <3>2 DEF SetRecord
      <4> HIDE DEF new
      <4>3. \A l \in Keys : record'[l] # NoRecord =>
              record[l] # NoRecord /\ record'[l].since = record[l].since
        BY <1>0, <4>0, <4>1, <4>2 DEF TypeOK
      <4>4. TypeOK'
        BY <1>0, <2>3, <4>0, <4>1, <4>2 DEF Complete, TypeOK
      <4> QED
        BY <2>3, <4>3, <4>4, OthersKeepClaims
           DEF Complete, ClaimsInv, TypeOK, Unclaimed
    <3> QED
      BY <2>3, <3>1, <3>2 DEF Complete, StoreResponse
  <2>4. CASE Release(r)
    BY <2>4, OthersKeepClaims
       DEF Release, SetRecord, ClaimsInv, TypeOK, Unclaimed
  <2>5. CASE StatementError(r) \/ Crash(r)
    BY <2>5, OthersKeepClaims
       DEF StatementError, Crash, ClaimsInv, TypeOK, Unclaimed
  <2> QED
    BY <1>2, <2>1, <2>2, <2>3, <2>4, <2>5 DEF Step, KeyStep
<1>3. CASE UNCHANGED vars
  BY <1>3 DEF vars, ClaimsInv, TypeOK, ReclaimedOnce, Reclaimed
<1> QED
  BY <1>1, <1>2, <1>3, ClaimKeepsClaims, ReclaimKeepsClaims DEF Next

\* However many requests are found running past the timeout, and however they
\* race, one abandoned claim is taken over once; and every state is well typed.
THEOREM OneReclaimPerClaim ==
  Spec => [](TypeOK /\ ReclaimedOnce)
<1>1. Init => ClaimsInv
  BY IdempotencyAssumption
     DEF Init, ClaimsInv, TypeOK, ReclaimedOnce, Reclaimed, Points, Claiming
<1>2. ClaimsInv => TypeOK /\ ReclaimedOnce
  BY DEF ClaimsInv
<1> QED
  BY <1>1, <1>2, ClaimsStep, PTL DEF Spec

-----------------------------------------------------------------------------
(* Only a release in between makes a taken key look free *)

\* No request with the key of another one that has been refused and is about to
\* read the row deletes it in that moment.
NobodyReleasesMeanwhile ==
  [][\A r \in Requests : Release(r) =>
       \A s \in Requests : KeyOf[s] = KeyOf[r] => at[s] # "looking"]_vars

\* Who was refused finds the row that refused it.
LookersFind ==
  \A r \in Requests : at[r] # "broken" /\ (at[r] = "looking" => Mine(r) # NoRecord)

\* Only release deletes a row.
LEMMA RowsStay ==
  ASSUME TypeOK, [Next]_vars, NEW k \in Keys, record[k] # NoRecord,
         \A r \in Requests : Release(r) => KeyOf[r] # k
  PROVE  record'[k] # NoRecord
<1> USE IdempotencyAssumption, NoRecordAssumption
<1>1. CASE record'[k] = record[k]
  BY <1>1
<1>2. ASSUME NEW l \in Keys, Age(l) PROVE record'[k] # NoRecord
  <2>1. [record[l] EXCEPT !.stale = TRUE] \in Records
    BY <1>2 DEF Age, InProgress, TypeOK, Records
  <2> QED
    BY <1>2, <2>1 DEF Age, TypeOK
<1>3. ASSUME NEW r \in Requests, Claim(r) PROVE record'[k] # NoRecord
  <2>1. KeyOf[r] # k
    BY <1>3 DEF Claim, Mine
  <2> QED
    BY <1>3, <2>1 DEF Claim, SetRecord, TypeOK
<1>4. ASSUME NEW r \in Requests, Reclaim(r) PROVE record'[k] # NoRecord
  <2> DEFINE new == [Mine(r) EXCEPT !.since = r, !.hash = BodyOf[r],
                       !.status = "IN_PROGRESS", !.pay = Nobody, !.stale = FALSE]
  <2>1. Mine(r) \in Records /\ BodyOf[r] \in Bodies
    BY <1>4 DEF Reclaim, StillStale, InProgress, Mine, TypeOK, Bodies
  <2>2. new \in Records
    BY <2>1 DEF Records
  <2>3. record' = [record EXCEPT ![KeyOf[r]] = new]
    BY <1>4 DEF Reclaim, SetRecord
  <2> HIDE DEF new
  <2> QED
    BY <2>2, <2>3 DEF TypeOK
<1>5. ASSUME NEW r \in Requests, Complete(r) PROVE record'[k] # NoRecord
  <2> DEFINE new == [Mine(r) EXCEPT !.status = "COMPLETED", !.pay = r]
  <2>1. CASE UNCHANGED record
    BY <2>1
  <2>2. CASE Owns(r) /\ SetRecord(r, new)
    <3>1. Mine(r) \in Records
      BY <2>2 DEF Owns, Mine, TypeOK
    <3>2. new \in Records
      BY <3>1 DEF Records
    <3>3. record' = [record EXCEPT ![KeyOf[r]] = new]
      BY <2>2 DEF SetRecord
    <3> HIDE DEF new
    <3> QED
      BY <3>2, <3>3 DEF TypeOK
  <2> QED
    BY <1>5, <2>1, <2>2 DEF Complete, StoreResponse
<1>6. ASSUME NEW r \in Requests, Release(r) PROVE record'[k] # NoRecord
  BY <1>6 DEF Release, SetRecord, TypeOK
<1>7. ASSUME NEW r \in Requests,
             \/ ClaimTaken(r) \/ LookEmpty(r) \/ LookCompleted(r) \/ LookInProgress(r)
             \/ ReclaimLost(r) \/ Work(r) \/ Resend(r) \/ StatementError(r) \/ Crash(r)
      PROVE  record' = record
  BY <1>7 DEF ClaimTaken, LookEmpty, LookCompleted, LookInProgress, ReclaimLost, Work,
     Resend, StatementError, Crash
<1>8. CASE UNCHANGED vars
  BY <1>1, <1>8 DEF vars
<1> QED
  BY <1>1, <1>2, <1>3, <1>4, <1>5, <1>6, <1>7, <1>8 DEF Next, Step, KeyStep

\* TakenKeyIsExplained, which is refuted in general, holds as long as the row is not
\* released between the refused INSERT and the SELECT that reads it back: slow
\* claims, reclaims and crashes do not bring the TypeError about.
THEOREM TakenKeyIsExplainedUnlessReleased ==
  Spec /\ NobodyReleasesMeanwhile => []TakenKeyIsExplained
<1> DEFINE Kept == \A r \in Requests : Release(r) =>
             \A s \in Requests : KeyOf[s] = KeyOf[r] => at[s] # "looking"
<1>1. Init => LookersFind
  BY DEF Init, LookersFind
<1>2. TypeOK /\ LookersFind /\ [Next]_vars /\ [Kept]_vars => LookersFind'
  <2> SUFFICES ASSUME TypeOK, LookersFind, [Next]_vars, [Kept]_vars, NEW r \in Requests
               PROVE  at'[r] # "broken" /\ (at'[r] = "looking" => record'[KeyOf[r]] # NoRecord)
    BY DEF LookersFind, Mine
  <2>1. CASE UNCHANGED vars
    BY <2>1 DEF vars, LookersFind, Mine
  <2>2. CASE ~UNCHANGED vars
    <3>1. at'[r] # at[r] =>
            /\ at'[r] # "broken"
            /\ at'[r] = "looking" => ClaimTaken(r)
      <4>1. ASSUME NEW q \in Requests, Step(q) \/ StatementError(q) \/ Crash(q)
            PROVE  /\ \E point : Goto(q, point)
                   /\ at'[q] # "broken"
                   /\ at'[q] = "looking" => ClaimTaken(q)
        <5>1. ~LookEmpty(q)
          BY DEF LookersFind, LookEmpty
        <5>2. CASE ClaimTaken(q)
          BY <5>2 DEF ClaimTaken, Goto, TypeOK
        <5>3. CASE ~ClaimTaken(q)
          <6>1. PICK point : Goto(q, point) /\ point \notin {"looking", "broken"}
            BY <4>1, <5>1, <5>3 DEF Step, KeyStep, Claim, LookCompleted, LookInProgress,
               Reclaim, ReclaimLost, Work, Complete, Release, Resend, StatementError, Crash
          <6> QED
            BY <6>1 DEF Goto, TypeOK
        <5> QED
          BY <5>2, <5>3
      <4>2. ASSUME NEW k \in Keys, Age(k) PROVE at' = at
        BY <4>2 DEF Age
      <4>3. ASSUME NEW q \in Requests, Step(q) \/ StatementError(q) \/ Crash(q),
                   at'[r] # at[r]
            PROVE  q = r
        BY <4>1, <4>3 DEF Goto, TypeOK
      <4> QED
        BY <2>2, <4>1, <4>2, <4>3 DEF Next
    <3>2. /\ at'[r] # "broken"
          /\ at'[r] = "looking" => at[r] = "looking" \/ ClaimTaken(r)
      BY <3>1 DEF LookersFind
    <3>3. ClaimTaken(r) => record'[KeyOf[r]] # NoRecord
      BY DEF ClaimTaken, Mine
    <3>4. at[r] = "looking" => record'[KeyOf[r]] # NoRecord
      BY <2>2, RowsStay, IdempotencyAssumption DEF LookersFind, Mine
    <3> QED
      BY <3>2, <3>3, <3>4
  <2> QED
    BY <2>1, <2>2
<1>3. LookersFind => TakenKeyIsExplained
  BY DEF LookersFind, TakenKeyIsExplained
<1> HIDE DEF Kept
<1>4. NobodyReleasesMeanwhile <=> [][Kept]_vars
  BY DEF NobodyReleasesMeanwhile, Kept
<1>5. Spec => []TypeOK
  BY OneReclaimPerClaim, PTL
<1> QED
  BY <1>1, <1>2, <1>3, <1>4, <1>5, PTL DEF Spec
==============================================================================

----------------------------- MODULE Idempotency -----------------------------
(***************************************************************************)
(* middleware/idempotency.js over the idempotency_records table, wrapped   *)
(* around POST /payments: claim, replay, reject, reclaim, and the           *)
(* controller's complete or release once createPayment has answered.        *)
(*                                                                         *)
(* Each statement on the table is a step, because each is a database call   *)
(* of its own and requests with the same key run between them.  A payment   *)
(* is named by the request whose createPayment made it.                     *)
(*                                                                         *)
(* created_at is abstracted to since, the request whose claim set it, and   *)
(* stale, whether it lies behind idempotencyInProgressTimeoutMs by now.     *)
(***************************************************************************)
CONSTANTS Requests,     \* executions of POST /payments (a 409 may be re-sent)
          Keys,         \* Idempotency-Key values, of one scope
          KeyOf,        \* KeyOf[r]: the key r carries
          BodyOf,       \* BodyOf[r]: the hash of its body
          Nobody,       \* no request (a NULL)
          NoRecord,     \* no row for the key
          SlowClaims    \* may a request be running past the timeout?

ASSUME IdempotencyAssumption ==
  /\ Nobody \notin Requests
  /\ KeyOf \in [Requests -> Keys]
  /\ SlowClaims \in BOOLEAN

Bodies == {BodyOf[r] : r \in Requests}

Records == [id : Requests, since : Requests, hash : Bodies,
            status : {"IN_PROGRESS", "COMPLETED"},
            pay : Requests \cup {Nobody}, stale : BOOLEAN]

ASSUME NoRecordAssumption == NoRecord \notin Records

VARIABLES record,       \* record[k]: the row of key k
          at,           \* at[r]: the statement r is about to run, or its end
          row,          \* row[r]: req.idempotency.recordId
          seen,         \* seen[r]: the claim (since) that r found stale
          answer        \* answer[r]: the payment named by r's 201 or replay

vars == <<record, at, row, seen, answer>>

\* Requests between their claim and the end of it, and the ways to end.
Claiming == {"working", "completing", "releasing"}
Points == Claiming \cup
  {"new", "looking", "reclaiming",                    \* not claimed yet
   "created", "replayed", "conflict", "rejected",     \* 201, 201, 409, 422
   "failed", "broken", "crashed"}                     \* 5xx, 500, no answer

Init ==
  /\ record = [k \in Keys |-> NoRecord]
  /\ at = [r \in Requests |-> "new"]
  /\ row = [r \in Requests |-> Nobody]
  /\ seen = [r \in Requests |-> Nobody]
  /\ answer = [r \in Requests |-> Nobody]

-----------------------------------------------------------------------------

Goto(r, point) == at' = [at EXCEPT ![r] = point]

Answer(r, pay) == answer' = [answer EXCEPT ![r] = pay]

Mine(r) == record[KeyOf[r]]

SetRecord(r, rec) == record' = [record EXCEPT ![KeyOf[r]] = rec]

InProgress(k) == record[k] # NoRecord /\ record[k].status = "IN_PROGRESS"

\* Time passes: the claim of k is older than the timeout.  Unless SlowClaims,
\* only a claim whose request is no longer running gets that old.
Age(k) ==
  /\ InProgress(k) /\ ~record[k].stale
  /\ SlowClaims \/ at[record[k].since] \notin Claiming
  /\ record' = [record EXCEPT ![k].stale = TRUE]
  /\ UNCHANGED <<at, row, seen, answer>>

\* claim: the INSERT wins.
Claim(r) ==
  /\ at[r] = "new" /\ Mine(r) = NoRecord
  /\ SetRecord(r, [id |-> r, since |-> r, hash |-> BodyOf[r], stale |-> FALSE,
                   status |-> "IN_PROGRESS", pay |-> Nobody])
  /\ row' = [row EXCEPT ![r] = r]
  /\ Goto(r, "working")
  /\ UNCHANGED <<seen, answer>>

\* claim: the INSERT meets the unique index (23505).
ClaimTaken(r) ==
  /\ at[r] = "new" /\ Mine(r) # NoRecord
  /\ Goto(r, "looking")
  /\ UNCHANGED <<record, row, seen, answer>>

\* findByKey comes back empty, the row having been released in between, and
\* record.status throws a TypeError.
LookEmpty(r) ==
  /\ at[r] = "looking" /\ Mine(r) = NoRecord
  /\ Goto(r, "broken")
  /\ UNCHANGED <<record, row, seen, answer>>

\* A stored response returned whatever the body hash.
LookCompleted_AnyBody(r) ==
  /\ at[r] = "looking" /\ Mine(r) # NoRecord /\ Mine(r).status = "COMPLETED"
  /\ Goto(r, "replayed") /\ Answer(r, Mine(r).pay)
  /\ UNCHANGED <<record, row, seen>>

\* findByKey: a finished request, replayed to the same body, refused to others.
LookCompleted(r) ==
  /\ at[r] = "looking" /\ Mine(r) # NoRecord /\ Mine(r).status = "COMPLETED"
  /\ \/ /\ Mine(r).hash = BodyOf[r]
        /\ Goto(r, "replayed") /\ Answer(r, Mine(r).pay)
     \/ /\ Mine(r).hash # BodyOf[r]
        /\ Goto(r, "rejected") /\ UNCHANGED answer
  /\ UNCHANGED <<record, row, seen>>

\* Any claim in progress answered 409, however old.
LookInProgress_NoTimeout(r) ==
  /\ at[r] = "looking" /\ InProgress(KeyOf[r])
  /\ Goto(r, "conflict")
  /\ UNCHANGED <<record, row, seen, answer>>

\* findByKey: a request in progress, 409 unless its claim is stale.
LookInProgress(r) ==
  /\ at[r] = "looking" /\ InProgress(KeyOf[r])
  /\ IF Mine(r).stale
     THEN Goto(r, "reclaiming") /\ seen' = [seen EXCEPT ![r] = Mine(r).since]
     ELSE Goto(r, "conflict") /\ UNCHANGED seen
  /\ UNCHANGED <<record, row, answer>>

\* The UPDATE without its created_at condition.
StillStale_NoTime(r) == InProgress(KeyOf[r])

\* created_at < staleBefore: nobody has claimed the key since r looked.
StillStale(r) == InProgress(KeyOf[r]) /\ Mine(r).since = seen[r]

\* reclaimStale: the row keeps its id and takes the new hash and time.
Reclaim(r) ==
  /\ at[r] = "reclaiming" /\ StillStale(r)
  /\ SetRecord(r, [Mine(r) EXCEPT !.since = r, !.hash = BodyOf[r],
                     !.status = "IN_PROGRESS", !.pay = Nobody, !.stale = FALSE])
  /\ row' = [row EXCEPT ![r] = Mine(r).id]
  /\ Goto(r, "working")
  /\ UNCHANGED <<seen, answer>>

ReclaimLost(r) ==
  /\ at[r] = "reclaiming" /\ ~StillStale(r)
  /\ Goto(r, "conflict")
  /\ UNCHANGED <<record, row, seen, answer>>

\* createPayment answers.
Work(r) ==
  /\ at[r] = "working"
  /\ Goto(r, "completing") \/ Goto(r, "releasing")
  /\ UNCHANGED <<record, row, seen, answer>>

\* WHERE id = $1, which may match no row by now.
Owns(r) == Mine(r) # NoRecord /\ Mine(r).id = row[r]

StoreResponse(r) ==
  IF Owns(r)
  THEN SetRecord(r, [Mine(r) EXCEPT !.status = "COMPLETED", !.pay = r])
  ELSE UNCHANGED record

\* The controller's try block stretched over complete: its error releases.
Complete_InTry(r) ==
  /\ at[r] = "completing"
  /\ StoreResponse(r)
  /\ \/ Goto(r, "created") /\ Answer(r, r)
     \/ Goto(r, "releasing") /\ UNCHANGED answer
  /\ UNCHANGED <<row, seen>>

\* complete, then 201; the process may die before the answer leaves.
Complete(r) ==
  /\ at[r] = "completing"
  /\ StoreResponse(r)
  /\ \/ Goto(r, "created") /\ Answer(r, r)
     \/ Goto(r, "crashed") /\ UNCHANGED answer
  /\ UNCHANGED <<row, seen>>

\* release: DELETE ... WHERE id = $1
Release(r) ==
  /\ at[r] = "releasing"
  /\ IF Owns(r) THEN SetRecord(r, NoRecord) ELSE UNCHANGED record
  /\ Goto(r, "failed")
  /\ UNCHANGED <<row, seen, answer>>

\* A statement on the table fails: 5xx, and the row stays as it is.  (One that
\* commits and loses its answer leaves the table as its step and Crash do.)
StatementError(r) ==
  /\ at[r] \in {"new", "looking", "reclaiming", "completing", "releasing"}
  /\ Goto(r, "failed")
  /\ UNCHANGED <<record, row, seen, answer>>

Crash(r) ==
  /\ at[r] \in Claiming
  /\ Goto(r, "crashed")
  /\ UNCHANGED <<record, row, seen, answer>>

\* A client that was told 409 sends its request again.
Resend(r) ==
  /\ at[r] = "conflict"
  /\ Goto(r, "new")
  /\ UNCHANGED <<record, row, seen, answer>>

\* The middleware's statements, and the client's.
KeyStep(r) ==
  \/ Claim(r) \/ ClaimTaken(r)
  \/ LookEmpty(r) \/ LookCompleted(r) \/ LookInProgress(r)
  \/ Reclaim(r) \/ ReclaimLost(r)
  \/ Complete(r) \/ Release(r)
  \/ Resend(r)

Step(r) == KeyStep(r) \/ Work(r)

Next ==
  \/ \E k \in Keys : Age(k)
  \/ \E r \in Requests : Step(r) \/ StatementError(r) \/ Crash(r)

Spec == Init /\ [][Next]_vars

-----------------------------------------------------------------------------

\* Rows and requests stay within their types.
TypeOK ==
  /\ record \in [Keys -> Records \cup {NoRecord}]
  /\ at \in [Requests -> Points]
  /\ row \in [Requests -> Requests \cup {Nobody}]
  /\ seen \in [Requests -> Requests \cup {Nobody}]
  /\ answer \in [Requests -> Requests \cup {Nobody}]

\* The same Idempotency-Key produces one outcome: every 201 and every replay
\* given for a key names the same payment.
OneAnswerPerKey ==
  \A r, s \in Requests :
    KeyOf[r] = KeyOf[s] /\ answer[r] # Nobody /\ answer[s] # Nobody =>
      answer[r] = answer[s]

\* A key reused with another body never returns the unrelated payment.
AnswerMatchesBody ==
  \A r \in Requests : answer[r] # Nobody => BodyOf[answer[r]] = BodyOf[r]

\* A stored response is never overwritten, reclaimed or released.
CompletedIsFinal ==
  [][\A k \in Keys : record[k] # NoRecord /\ record[k].status = "COMPLETED" =>
       record'[k] = record[k]]_vars

\* Of the requests racing to reclaim one abandoned claim, one wins.
ReclaimedOnce ==
  \A r, s \in Requests :
    /\ row[r] \notin {r, Nobody} /\ row[s] \notin {s, Nobody}
    /\ seen[r] = seen[s]
    => r = s

\* A request that finds its key taken gets an answer about it, not a TypeError.
TakenKeyIsExplained == \A r \in Requests : at[r] # "broken"

\* A claim in progress whose request is gone.
Abandoned(k) == InProgress(k) /\ at[record[k].since] \notin Claiming

\* A crash, or a release that failed, does not lock out the key for ever: as
\* long as some client keeps asking, the claim is taken over.
KeyIsNotLockedOut ==
  \A k \in Keys :
    Abandoned(k) ~>
      \/ ~Abandoned(k)
      \/ \A r \in Requests : KeyOf[r] = k => at[r] \in {"created", "replayed",
                                  "rejected", "failed", "broken", "crashed"}

-----------------------------------------------------------------------------
(* The promise to the client: the table implements KeyOutcome. *)

\* The request whose response is stored for k.
Stored(k) ==
  IF record[k] # NoRecord /\ record[k].status = "COMPLETED"
  THEN record[k].pay ELSE Nobody

Outcome == INSTANCE KeyOutcome
             WITH outcome <- [k \in Keys |-> Stored(k)], told <- answer

\* Seen from outside a key is a register written once: claims, releases,
\* reclaims, crashes and re-sent requests never change its outcome or tell
\* another one.
KeyOutcomeSpec == Outcome!Spec
==============================================================================

---------------------------- MODULE WebhookInbox ----------------------------
(***************************************************************************)
(* services/webhookService.js and the webhook_events table: persist,       *)
(* deduplicate, process, mark, acknowledge.  What processing does to the    *)
(* payment tables is Settlement.tla's part.                                 *)
(*                                                                         *)
(* The unique index lets one delivery of an event start a handler; every    *)
(* statement of that handler is a step, between which it may die.  The      *)
(* gateway redelivers an event until a delivery of it is answered 200.      *)
(***************************************************************************)
CONSTANT Events         \* webhook events: [kind, pay, gst] records

\* A payment event of an order of ours; anything else: a type that is not
\* handled, a payment of an order that is not ours, or a handled type without its
\* payment entity.  Which of these it is shows when it is processed.
EventKinds == {"payment", "other"}

ASSUME EventsAssumption == \A e \in Events : e.kind \in EventKinds

VARIABLES inbox,        \* inbox[e]: webhook_events.status of e
          handler,      \* handler[e]: what the delivery that inserted e does
          acked         \* events of which some delivery was answered 200

inboxVars == <<inbox, handler, acked>>

InboxStatuses == {"none", "RECEIVED", "PROCESSED", "FAILED", "IGNORED"}
HandlerPoints == {"idle", "processing", "marking", "failing"}

InboxInit ==
  /\ inbox = [e \in Events |-> "none"]
  /\ handler = [e \in Events |-> "idle"]
  /\ acked = {}

-----------------------------------------------------------------------------

Mark(e, st) == inbox' = [inbox EXCEPT ![e] = st]

Handle(e, point) == handler' = [handler EXCEPT ![e] = point]

\* insertIfAbsent inserts.
Receive(e) ==
  /\ inbox[e] = "none"
  /\ Mark(e, "RECEIVED")
  /\ Handle(e, "processing")
  /\ UNCHANGED acked

\* A duplicate delivery that runs processEvent again.
Redeliver_Reprocesses(e) ==
  /\ inbox[e] # "none" /\ handler[e] = "idle"
  /\ Handle(e, "processing")
  /\ UNCHANGED <<inbox, acked>>

\* insertIfAbsent finds the row, whatever became of it: DUPLICATE, 200.
Redeliver(e) ==
  /\ inbox[e] # "none" /\ e \notin acked
  /\ acked' = acked \cup {e}
  /\ UNCHANGED <<inbox, handler>>

\* processEvent on an unhandled type or an unknown order: markIgnored, and a
\* normal return.
Ignore(e) ==
  /\ handler[e] = "processing" /\ e.kind = "other"
  /\ Mark(e, "IGNORED")
  /\ Handle(e, "marking")
  /\ UNCHANGED acked

\* processEvent: applyGatewayOutcome has committed.
Processed(e) ==
  /\ handler[e] = "processing" /\ e.kind = "payment"
  /\ Handle(e, "marking")
  /\ UNCHANGED <<inbox, acked>>

\* processEvent throws: a handled type without its payment entity.
Malformed(e) ==
  /\ handler[e] = "processing" /\ e.kind = "other"
  /\ Handle(e, "failing")
  /\ UNCHANGED <<inbox, acked>>

\* The statement a handler has under way fails, or it takes effect and its answer
\* is lost.
StatementFails(e) ==
  \/ UNCHANGED inbox
  \/ handler[e] = "processing" /\ e.kind = "other" /\ Mark(e, "IGNORED")
  \/ handler[e] = "marking" /\ Mark(e, "PROCESSED")
  \/ handler[e] = "failing" /\ Mark(e, "FAILED")

\* A statement of processEvent or markProcessed throws: on to the catch block.
HandlerError(e) ==
  /\ handler[e] \in {"processing", "marking"}
  /\ StatementFails(e)
  /\ Handle(e, "failing")
  /\ UNCHANGED acked

\* The event marked before processEvent is awaited.
MarkProcessed_Early(e) ==
  /\ handler[e] \in {"processing", "marking"}
  /\ Mark(e, "PROCESSED")
  /\ Handle(e, "idle")
  /\ acked' = acked \cup {e}

\* markProcessed does not look at the status it overwrites; then 200.
MarkProcessed(e) ==
  /\ handler[e] = "marking"
  /\ Mark(e, "PROCESSED")
  /\ Handle(e, "idle")
  /\ acked' = acked \cup {e}

\* The catch block: markFailed, whatever the row says by now, and 5xx.
MarkFailed(e) ==
  /\ handler[e] = "failing"
  /\ Mark(e, "FAILED")
  /\ Handle(e, "idle")
  /\ UNCHANGED acked

\* The process dies, or markFailed throws as well: nobody is answered.
HandlerDies(e) ==
  /\ handler[e] # "idle"
  /\ StatementFails(e)
  /\ Handle(e, "idle")
  /\ UNCHANGED acked

HandlerStep(e) == Ignore(e) \/ Malformed(e) \/ MarkProcessed(e) \/ MarkFailed(e)

InboxNext ==
  \E e \in Events :
    \/ Receive(e) \/ Redeliver(e) \/ Processed(e)
    \/ HandlerStep(e)
    \/ HandlerError(e) \/ HandlerDies(e)

InboxSpec == InboxInit /\ [][InboxNext]_inboxVars

\* The gateway keeps delivering what was not answered 200, and handlers run on.
InboxFairSpec ==
  /\ InboxSpec
  /\ \A e \in Events :
       /\ WF_inboxVars(Receive(e) \/ Redeliver(e))
       /\ WF_inboxVars(Processed(e) \/ HandlerStep(e))

-----------------------------------------------------------------------------

\* Statuses and handlers stay within their types.
InboxTypeOK ==
  /\ inbox \in [Events -> InboxStatuses]
  /\ handler \in [Events -> HandlerPoints]
  /\ acked \subseteq Events

\* The handler of e is done with it and has said so.
Done(e) == inbox[e] = "PROCESSED" /\ handler[e] = "idle"

\* PROCESSED is final once the handler is done: until then its catch block may still
\* write FAILED over it (markProcessed took effect, its answer was lost), but after
\* that no delivery, however late, has the event processed or marked again.
ProcessedIsFinal ==
  [][\A e \in Events : Done(e) => Done(e)']_inboxVars

\* The only handler e will ever have has failed or is gone.
Lost(e) == inbox[e] \in {"RECEIVED", "FAILED"} /\ handler[e] = "idle"

\* docs/failure-modes.md and docs/api.md: an event whose processing failed or
\* whose handler died is redelivered or picked up, and processed after all.
FailedEventIsReprocessed ==
  \A e \in Events :
    inbox[e] = "FAILED" /\ e.kind = "payment" ~> inbox[e] = "PROCESSED"
==============================================================================

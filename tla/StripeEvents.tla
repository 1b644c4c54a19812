------------------------------ MODULE StripeEvents ------------------------------
(***************************************************************************)
(* What Stripe tells the platform about its subscriptions, invoices and    *)
(* payments.                                                               *)
(*                                                                         *)
(* Stripe posts every event until it is answered with 200.  The controller *)
(* stores the event under its unique id and adds a job only if it was new; *)
(* the worker reads the row the event is about, writes it, and marks the   *)
(* event as processed.  Nothing compares the times of two events.  Every   *)
(* process also sweeps the trials that have expired.                       *)
(***************************************************************************)
EXTENDS JobQueue, Sequences

CONSTANTS Stories  \* what happens at Stripe to one object: sequences of event types

Upserts == [created |-> "ACTIVE", updated |-> "PAST_DUE"]
Invoices == [finalized |-> "OPEN", invoice_failed |-> "OPEN", paid |-> "PAID"]
Payments == [payment_failed |-> "FAILED", succeeded |-> "SUCCEEDED"]

EventType == {"deleted", "refunded"} \union DOMAIN Upserts \union DOMAIN Invoices
               \union DOMAIN Payments

ASSUME StripeAssumption ==
  \A story \in Stories : story \in Seq(EventType) /\ Len(story) \in 1..Jobs

\* Stripe ends a subscription that it told of, and pays back what was paid.
ASSUME StoryAssumption ==
  \A story \in Stories : \A n \in 1..Len(story) :
    /\ story[n] = "deleted" => \E m \in 1..(n - 1) : story[m] \in DOMAIN Upserts
    /\ story[n] = "refunded" => \E m \in 1..(n - 1) : story[m] \in DOMAIN Payments

VARIABLES
  story,     \* what happened at Stripe; the n-th event is the n-th job's
  stored,    \* the billing_events rows
  unadded,   \* the new events whose job the controller has yet to add
  acked,     \* the events that were answered with 200
  mirror,    \* the rows that mirror the object
  sweeping,  \* the processes that have found the expired trial
  disordered \* history: the rows were not written in the order of the events

stripeVars == <<story, stored, unadded, acked, mirror, sweeping, disordered>>

Event == 1..Len(story)

\* linked: the row has its stripeSubscriptionId.  An organization has a row, with
\* a local trial, before Stripe knows its subscription.  lines: copies of the invoice's lines.
Mirror == [linked : BOOLEAN, status : {"TRIALING", "ACTIVE", "PAST_DUE", "CANCELED"},
           invoice : {"none", "OPEN", "PAID"}, lines : Nat,
           payment : {"none", "FAILED", "SUCCEEDED", "REFUNDED"}]

StripeInit ==
  /\ story \in Stories
  /\ stored = [e \in Job |-> "none"]
  /\ unadded = {}
  /\ acked = {}
  /\ mirror = [linked |-> FALSE, invoice |-> "none", lines |-> 0, payment |-> "none",
               status |-> IF story[1] = "created" THEN "TRIALING" ELSE "ACTIVE"]
  /\ sweeping = {}
  /\ disordered = FALSE

-----------------------------------------------------------------------------
(* StripeWebhookController.receive.                                         *)

\* The row is inserted: the event is new.
ReceiveNew(e) ==
  /\ stored[e] = "none"
  /\ stored' = [stored EXCEPT ![e] = "new"]
  /\ unadded' = unadded \union {e}
  /\ UNCHANGED <<queueVars, story, acked, mirror, sweeping, disordered>>

\* The unique id is violated: whatever became of the first delivery, it is over.
ReceiveAgain(e) ==
  /\ stored[e] # "none" /\ e \notin acked
  /\ acked' = acked \union {e}
  /\ UNCHANGED <<queueVars, story, stored, unadded, mirror, sweeping, disordered>>

\* With a queue the answer follows at once; without, when the event is handled.
EnqueueEvent(e) ==
  /\ e \in unadded
  /\ Add(e)
  /\ unadded' = unadded \ {e}
  /\ acked' = IF redis THEN acked \union {e} ELSE acked
  /\ UNCHANGED <<queue, redis, worker, failedSeen, deadLetter, faults>>
  /\ UNCHANGED <<story, stored, mirror, sweeping, disordered>>

\* The queue is out of reach, or the process dies: Stripe will post it again.
EnqueueFails(e) ==
  /\ e \in unadded
  /\ Fault
  /\ unadded' = unadded \ {e}
  /\ UNCHANGED <<queue, redis, job, worker, failedSeen, deadLetter>>
  /\ UNCHANGED <<story, stored, acked, mirror, sweeping, disordered>>

-----------------------------------------------------------------------------
(* StripeWebhookQueueService.processEvent and the dispatcher.               *)

\* What the event of a worker's job is.
Type(w) == story[worker[w].job]

\* An earlier event is not done with, a later one was begun, or this one is being
\* handled already.
OutOfOrder(e) ==
  \E f \in Event :
    \/ f < e /\ stored[f] # "processed"
    \/ f > e /\ job[f] \notin {NotAdded, [NotAdded EXCEPT !.state = "waiting"]}
    \/ f <= e /\ \E w \in Worker : worker[w].job = f

DeliverEvent(w, e) ==
  /\ Take(w, e, "look")
  /\ disordered' = (disordered \/ OutOfOrder(e))
  /\ UNCHANGED <<queue, redis, failedSeen, deadLetter, faults>>
  /\ UNCHANGED <<story, stored, unadded, acked, mirror, sweeping>>

\* A step of a handler that writes no more than the mirror.
Handling ==
  /\ UNCHANGED <<queue, redis, job, failedSeen, deadLetter, faults>>
  /\ UNCHANGED <<story, stored, unadded, acked, sweeping, disordered>>

Known(type) ==
  CASE type \in {"created", "updated", "deleted"} -> mirror.linked
    [] type \in DOMAIN Invoices -> mirror.invoice # "none"
    [] OTHER -> mirror.payment # "none"

\* The row the event is about is looked up; some events that find none are ignored.
FindMirror(w) ==
  /\ At(w, "look")
  /\ Goto(w, IF Known(Type(w)) THEN "update"
             ELSE IF Type(w) \in {"deleted", "refunded"} THEN "mark" ELSE "create")
  /\ UNCHANGED mirror /\ Handling

\* What an event makes of the row, whatever the row has become since.
Written(type) ==
  CASE type \in DOMAIN Upserts -> [mirror EXCEPT !.linked = TRUE, !.status = Upserts[type]]
    [] type = "deleted" -> [mirror EXCEPT !.status = "CANCELED"]
    [] type \in DOMAIN Invoices -> [mirror EXCEPT !.invoice = Invoices[type]]
    [] type \in DOMAIN Payments -> [mirror EXCEPT !.payment = Payments[type]]
    [] type = "refunded" -> [mirror EXCEPT !.payment = "REFUNDED"]

\* Mutant: the lines come with every event of the invoice.
WriteMirrorAndLines(w) ==
  /\ worker[w].at \in {"create", "update"}
  /\ mirror' = Written(Type(w))
  /\ Goto(w, IF Type(w) \in DOMAIN Invoices THEN "lines" ELSE "mark")
  /\ Handling

WriteMirror(w) ==
  /\ worker[w].at \in {"create", "update"}
  /\ mirror' = Written(Type(w))
  /\ Goto(w, IF Type(w) \in DOMAIN Invoices /\ At(w, "create") THEN "lines" ELSE "mark")
  /\ Handling

\* The lines of an invoice that was not known.
AddItems(w) ==
  /\ At(w, "lines")
  /\ mirror' = [mirror EXCEPT !.lines = @ + 1]
  /\ Goto(w, "mark")
  /\ Handling

MarkProcessed(w) == LET e == worker[w].job IN
  /\ At(w, "mark")
  /\ stored' = [stored EXCEPT ![e] = "processed"]
  /\ acked' = IF redis THEN acked ELSE acked \union {e}
  /\ Return(w)
  /\ UNCHANGED <<queue, redis, failedSeen, deadLetter, faults>>
  /\ UNCHANGED <<story, unadded, mirror, sweeping, disordered>>

\* A call of the handler fails and the error is stored, if that does not fail too.
\* What was processed stays so.
HandlerThrows(w) == LET e == worker[w].job IN
  /\ worker[w].at \in {"look", "create", "update", "lines", "mark"}
  /\ Fault
  /\ \/ UNCHANGED stored
     \/ stored' = [stored EXCEPT ![e] = IF @ = "processed" THEN @ ELSE "failed"]
  /\ Throw(w)
  /\ UNCHANGED <<queue, redis, deadLetter>>
  /\ UNCHANGED <<story, unadded, acked, mirror, sweeping, disordered>>

Handle(w) == FindMirror(w) \/ WriteMirror(w) \/ AddItems(w) \/ MarkProcessed(w)

-----------------------------------------------------------------------------
(* BillingCronService.sweepExpiredTrials, in every process.                 *)

\* The local trial has expired.
FindExpiredTrial(w) ==
  /\ w \notin sweeping
  /\ mirror.status = "TRIALING"
  /\ sweeping' = sweeping \union {w}
  /\ UNCHANGED <<queueVars, story, stored, unadded, acked, mirror, disordered>>

\* The payment method has been looked for since, or the free plan.
EndTrial(w) ==
  /\ w \in sweeping
  /\ sweeping' = sweeping \ {w}
  /\ mirror' = [mirror EXCEPT !.status = "ACTIVE"]
  /\ disordered' = (disordered \/ mirror.status # "TRIALING")
  /\ UNCHANGED <<queueVars, story, stored, unadded, acked>>

-----------------------------------------------------------------------------
StripeNext ==
  \/ \E e \in Event : \/ ReceiveNew(e) \/ ReceiveAgain(e)
                      \/ EnqueueEvent(e) \/ EnqueueFails(e)
                      \/ \E w \in Worker : DeliverEvent(w, e)
  \/ \E w \in Worker : \/ Handle(w) \/ HandlerThrows(w)
                       \/ FindExpiredTrial(w) \/ EndTrial(w)

StripeTypeOK ==
  /\ story \in Stories
  /\ stored \in [Job -> {"none", "new", "processed", "failed"}]
  /\ unadded \subseteq Event /\ acked \subseteq Event
  /\ mirror \in Mirror
  /\ sweeping \subseteq Worker
  /\ disordered \in BOOLEAN

-----------------------------------------------------------------------------
(* Properties.                                                              *)

\* What Stripe last said of its object.
Truth == story[Len(story)]

AllProcessed == \A e \in Event : stored[e] = "processed"

Quiescent ==
  /\ \A w \in Worker : worker[w] = Idle
  /\ unadded = {}
  /\ \A e \in Event : job[e].state \notin {"waiting", "active"}

\* When every event was answered with 200 and nothing is left to do, every event is
\* processed, unless something failed: an event whose job could not be added is answered
\* with 200 when Stripe posts it again.  And when all are processed, in the order of the
\* story as far as the platform can tell, the local rows say what Stripe last said; an
\* invoice has its lines once, unless a handler failed between the invoice and its lines.
MirrorsStripe ==
  /\ acked = Event /\ Quiescent /\ faults = 0 => AllProcessed
  /\ AllProcessed /\ ~disordered /\ (\A w \in Worker : worker[w] = Idle) =>
     /\ Truth \in DOMAIN Upserts => mirror.status = Upserts[Truth]
     /\ Truth = "deleted" => mirror.status = "CANCELED"
     /\ Truth \in DOMAIN Invoices =>
          /\ mirror.invoice = Invoices[Truth]
          /\ mirror.lines <= 1
          /\ faults = 0 => mirror.lines = 1
     /\ Truth \in DOMAIN Payments => mirror.payment = Payments[Truth]
     /\ Truth = "refunded" => mirror.payment = "REFUNDED"

=============================================================================

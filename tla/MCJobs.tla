--------------------------------- MODULE MCJobs ---------------------------------
(***************************************************************************)
(* The queues, checked with their dead letters.  Each behaviour is about   *)
(* one queue, while the rows of the others stay at their start.            *)
(***************************************************************************)
EXTENDS OutboundWebhooks, StripeEvents, RunQueue

\* Where it does not matter which, the others have one start.
Init ==
  /\ QueueInit /\ WebhookInit /\ StripeInit /\ RunQueueInit
  /\ queue # "webhook-delivery" => \A e \in Endpoint : endpoint[e] = "ACTIVE"
  /\ queue # "stripe-webhook" => story = CHOOSE s \in Stories : TRUE

vars == <<queueVars, webhookVars, stripeVars, runQueueVars>>

WebhookStep ==
  /\ queue = "webhook-delivery"
  /\ WebhookNext \/ (QueueNext /\ UNCHANGED webhookVars)
  /\ UNCHANGED <<stripeVars, runQueueVars>>

StripeStep ==
  /\ queue = "stripe-webhook"
  /\ StripeNext \/ (QueueNext /\ UNCHANGED stripeVars)
  /\ UNCHANGED <<webhookVars, runQueueVars>>

RunQueueStep ==
  /\ queue = "workflow-run"
  /\ RunQueueNext \/ (QueueNext /\ UNCHANGED runQueueVars)
  /\ UNCHANGED <<webhookVars, stripeVars>>

Next == WebhookStep \/ StripeStep \/ RunQueueStep

Fairness == QueueFairness /\ WebhookFairness /\ RunQueueFairness

Spec == Init /\ [][Next]_vars /\ Fairness

TypeOK == QueueTypeOK /\ WebhookTypeOK /\ StripeTypeOK /\ RunQueueTypeOK

\* Two events of one object, in the order in which they happened.
StoriesOfTwo == {
  <<"created", "updated">>, <<"created", "deleted">>,
  <<"finalized", "paid">>, <<"invoice_failed", "paid">>,
  <<"payment_failed", "succeeded">>, <<"succeeded", "refunded">>}

=============================================================================

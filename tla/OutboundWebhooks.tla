---------------------------- MODULE OutboundWebhooks ----------------------------
(***************************************************************************)
(* Telling the world: webhook deliveries.                                  *)
(*                                                                         *)
(* publish() writes a row for each endpoint that subscribes to an event    *)
(* and puts its job on the queue; replaying a delivery writes a row of its *)
(* own.  A worker reads the row and its endpoint, posts, and records what  *)
(* came back; a failed attempt throws, so that the queue tries again,      *)
(* except the last one.  Meanwhile endpoints are suspended and deleted,    *)
(* the latter with their deliveries.                                       *)
(***************************************************************************)
EXTENDS JobQueue

CONSTANTS
  Endpoint,   \* the endpoints that subscribe to the event
  NoEndpoint  \* that of a row that does not exist

ASSUME WebhookAssumption == NoEndpoint \notin Endpoint

VARIABLES
  endpoint,   \* the status of each endpoint
  delivery,   \* the webhook_deliveries rows
  unpublished,\* the endpoints publish() has yet to come to
  unqueued,   \* the rows whose job publish(), or a replay, has yet to add
  posts,      \* history: requests made for each delivery
  recorded    \* history: times each delivery was recorded as accepted

webhookVars == <<endpoint, delivery, unpublished, unqueued, posts, recorded>>

DeliveryStatus == {"none", "PENDING", "SUCCEEDED", "FAILED", "EXHAUSTED"}

Producer == {"publish", "replay"}

NoDelivery == [endpoint |-> NoEndpoint, status |-> "none"]

Exists(d) == delivery[d] # NoDelivery

\* publish() has found the active endpoints.
WebhookInit ==
  /\ endpoint \in [Endpoint -> {"ACTIVE", "SUSPENDED"}]
  /\ delivery = [d \in Job |-> NoDelivery]
  /\ unpublished = {e \in Endpoint : endpoint[e] = "ACTIVE"}
  /\ unqueued = [p \in Producer |-> {}]
  /\ posts = [d \in Job |-> 0]
  /\ recorded = [d \in Job |-> 0]

-----------------------------------------------------------------------------
(* Producers.                                                               *)

\* A row for e whose job p is about to add.
CreateDelivery(p, d, e) ==
  /\ ~Exists(d) /\ job[d] = NotAdded
  /\ endpoint[e] # "DELETED"
  /\ delivery' = [delivery EXCEPT ![d] = [endpoint |-> e, status |-> "PENDING"]]
  /\ unqueued' = [unqueued EXCEPT ![p] = @ \union {d}]
  /\ UNCHANGED <<queueVars, endpoint, posts, recorded>>

\* One endpoint after the other.
Publish(d, e) ==
  /\ e \in unpublished
  /\ unqueued["publish"] = {}
  /\ unpublished' = unpublished \ {e}
  /\ CreateDelivery("publish", d, e)

\* Mutant: the row that is replayed is used once more.
ReplayInPlace(d, original) ==
  /\ Exists(original) /\ d = original
  /\ delivery' = [delivery EXCEPT ![d].status = "PENDING"]
  /\ unqueued' = [unqueued EXCEPT !["replay"] = @ \union {d}]
  /\ UNCHANGED <<queueVars, endpoint, unpublished, posts, recorded>>

ReplayDelivery(d, original) ==
  /\ Exists(original)
  /\ CreateDelivery("replay", d, delivery[original].endpoint)
  /\ UNCHANGED unpublished

EnqueueDelivery(p, d) ==
  /\ d \in unqueued[p]
  /\ Add(d)
  /\ unqueued' = [unqueued EXCEPT ![p] = @ \ {d}]
  /\ UNCHANGED <<queue, redis, worker, failedSeen, deadLetter, faults>>
  /\ UNCHANGED <<endpoint, delivery, unpublished, posts, recorded>>

\* A call fails or the process dies: a row is left without a job, and the
\* endpoints that publish() has not come to without a row.  A row cannot be
\* created for an endpoint that is gone.
ProducerFails(p) ==
  /\ \/ p = "publish" /\ \E e \in unpublished : endpoint[e] = "DELETED"
        /\ unqueued[p] = {} /\ UNCHANGED faults
     \/ unqueued[p] # {} /\ Fault
     \/ p = "publish" /\ unpublished # {} /\ Fault
  /\ unqueued' = [unqueued EXCEPT ![p] = {}]
  /\ unpublished' = IF p = "publish" THEN {} ELSE unpublished
  /\ UNCHANGED <<queue, redis, job, worker, failedSeen, deadLetter>>
  /\ UNCHANGED <<endpoint, delivery, posts, recorded>>

\* WebhookEndpointService.setStatus.
SetStatus(e) ==
  /\ endpoint[e] # "DELETED"
  /\ \E status \in {"ACTIVE", "SUSPENDED"} : endpoint' = [endpoint EXCEPT ![e] = status]
  /\ UNCHANGED <<queueVars, delivery, unpublished, unqueued, posts, recorded>>

\* The deliveries go with their endpoint, their jobs stay.
DeleteEndpoint(e) ==
  /\ endpoint[e] # "DELETED"
  /\ endpoint' = [endpoint EXCEPT ![e] = "DELETED"]
  /\ delivery' = [d \in Job |-> IF delivery[d].endpoint = e THEN NoDelivery ELSE delivery[d]]
  /\ UNCHANGED <<queueVars, unpublished, unqueued, posts, recorded>>

-----------------------------------------------------------------------------
(* WebhookDeliveryProcessor.process and attemptDelivery.                    *)

Deliver(w, d) ==
  /\ Take(w, d, "find")
  /\ UNCHANGED <<queue, redis, failedSeen, deadLetter, faults, webhookVars>>

\* A worker's step that changes nothing but the worker and its job.
Quiet ==
  /\ UNCHANGED <<queue, redis, failedSeen, deadLetter>>
  /\ UNCHANGED <<endpoint, delivery, unpublished, unqueued, posts, recorded>>

FindDelivery(w) ==
  /\ At(w, "find")
  /\ IF Exists(worker[w].job) THEN Goto(w, "endpoint") /\ UNCHANGED job ELSE Return(w)
  /\ Quiet /\ UNCHANGED faults

\* The endpoint the row named when it was read: the row may be gone by now.
FindEndpoint(w) ==
  /\ At(w, "endpoint")
  /\ LET d == delivery[worker[w].job] IN
       Goto(w, IF d # NoDelivery /\ endpoint[d.endpoint] = "ACTIVE" THEN "post" ELSE "refuse")
  /\ Quiet /\ UNCHANGED <<job, faults>>

\* The request is sent; it is answered, refused, or nobody knows.
Post(w) ==
  /\ At(w, "post")
  /\ posts' = [posts EXCEPT ![worker[w].job] = @ + 1]
  /\ \E outcome \in {"accepted", "rejected"} : Goto(w, outcome)
  /\ UNCHANGED <<queue, redis, job, failedSeen, deadLetter, faults>>
  /\ UNCHANGED <<endpoint, delivery, unpublished, unqueued, recorded>>

Record(d, status) == delivery' = [delivery EXCEPT ![d].status = status]

\* Mutant: a delivery that was accepted is a failed attempt of the job.
AcceptedThrows(w) == LET d == worker[w].job IN
  /\ At(w, "accepted") /\ Exists(d)
  /\ Record(d, "SUCCEEDED")
  /\ recorded' = [recorded EXCEPT ![d] = @ + 1]
  /\ Throw(w)
  /\ UNCHANGED <<queue, redis, deadLetter, faults>>
  /\ UNCHANGED <<endpoint, unpublished, unqueued, posts>>

RecordAccepted(w) == LET d == worker[w].job IN
  /\ At(w, "accepted") /\ Exists(d)
  /\ Record(d, "SUCCEEDED")
  /\ recorded' = [recorded EXCEPT ![d] = @ + 1]
  /\ Return(w)
  /\ UNCHANGED <<queue, redis, failedSeen, deadLetter, faults>>
  /\ UNCHANGED <<endpoint, unpublished, unqueued, posts>>

\* Recording it fails, or the row is gone: the catch clause takes that for a
\* failure of the delivery.
AcceptedIsLost(w) ==
  /\ At(w, "accepted")
  /\ IF Exists(worker[w].job) THEN Fault ELSE UNCHANGED faults
  /\ Goto(w, "rejected")
  /\ Quiet /\ UNCHANGED job

\* Mutant: the last failed attempt is like the others.
RejectedThrows(w) == LET d == worker[w].job IN
  /\ At(w, "rejected") /\ Exists(d)
  /\ Record(d, "FAILED")
  /\ Throw(w)
  /\ UNCHANGED <<queue, redis, deadLetter, faults>>
  /\ UNCHANGED <<endpoint, unpublished, unqueued, posts, recorded>>

\* The last failed attempt returns; the others throw.
RecordRejected(w) == LET d == worker[w].job IN
  /\ At(w, "rejected") /\ Exists(d)
  /\ IF IsFinalAttempt(w)
       THEN Record(d, "EXHAUSTED") /\ Return(w) /\ UNCHANGED failedSeen
       ELSE Record(d, "FAILED") /\ Throw(w)
  /\ UNCHANGED <<queue, redis, deadLetter, faults>>
  /\ UNCHANGED <<endpoint, unpublished, unqueued, posts, recorded>>

\* Mutant: a row that is gone is recorded all the same.
RecordRefusedAnyway(w) == LET d == worker[w].job IN
  /\ At(w, "refuse")
  /\ Record(d, "EXHAUSTED")
  /\ Return(w)
  /\ UNCHANGED <<queue, redis, failedSeen, deadLetter, faults>>
  /\ UNCHANGED <<endpoint, unpublished, unqueued, posts, recorded>>

\* The endpoint is missing or suspended.
RecordRefused(w) == LET d == worker[w].job IN
  /\ At(w, "refuse") /\ Exists(d)
  /\ Record(d, "EXHAUSTED")
  /\ Return(w)
  /\ UNCHANGED <<queue, redis, failedSeen, deadLetter, faults>>
  /\ UNCHANGED <<endpoint, unpublished, unqueued, posts, recorded>>

\* A call outside the try block, or recordAttempt in its catch clause, fails.
AttemptThrows(w) ==
  /\ worker[w].at \in {"find", "endpoint", "refuse", "rejected"}
  /\ IF worker[w].at \in {"refuse", "rejected"} /\ ~Exists(worker[w].job)
       THEN UNCHANGED faults ELSE Fault
  /\ Throw(w)
  /\ UNCHANGED <<queue, redis, deadLetter, webhookVars>>

Attempt(w) ==
  \/ FindDelivery(w)
  \/ FindEndpoint(w)
  \/ Post(w)
  \/ RecordAccepted(w)
  \/ AcceptedIsLost(w)
  \/ RecordRejected(w)
  \/ RecordRefused(w)
  \/ AttemptThrows(w)

WebhookNext ==
  \/ \E d \in Job : \/ \E e \in Endpoint : Publish(d, e)
                    \/ \E original \in Job : ReplayDelivery(d, original)
                    \/ \E w \in Worker : Deliver(w, d)
                    \/ \E p \in Producer : EnqueueDelivery(p, d)
  \/ \E e \in Endpoint : SetStatus(e) \/ DeleteEndpoint(e)
  \/ \E w \in Worker : Attempt(w)
  \/ \E p \in Producer : ProducerFails(p)

WebhookSpec ==
  /\ QueueInit /\ WebhookInit
  /\ [][WebhookNext \/ (QueueNext /\ UNCHANGED webhookVars)]_<<queueVars, webhookVars>>

\* Workers that live take jobs and go on with them; calls end by a timeout.
WebhookFairness ==
  /\ \A w \in Worker : WF_<<queueVars, webhookVars>>(Attempt(w))
  /\ \A d \in Job : WF_<<queueVars, webhookVars>>(\E w \in Worker : Deliver(w, d))

-----------------------------------------------------------------------------
(* Properties.                                                              *)

WebhookTypeOK ==
  /\ endpoint \in [Endpoint -> {"ACTIVE", "SUSPENDED", "DELETED"}]
  /\ delivery \in [Job -> [endpoint : Endpoint \union {NoEndpoint}, status : DeliveryStatus]]
  /\ \A d \in Job : (delivery[d].endpoint = NoEndpoint) <=> (delivery[d].status = "none")
  /\ unpublished \subseteq Endpoint
  /\ unqueued \in [Producer -> SUBSET Job]
  /\ posts \in [Job -> Nat]
  /\ recorded \in [Job -> Nat]

\* A receiver is asked no more often than the attempts allow, but for the times
\* the job lost its lock; and a delivery it has accepted, and that was recorded
\* so, is posted again only because of such a loss.
RepeatsAccountedFor ==
  \A d \in Job :
    /\ posts[d] <= MaxAttempts + job[d].stalled
    /\ recorded[d] <= 1 + job[d].stalled

\* What a delivery came to stays on its row while it exists: no late attempt, no
\* replay, no change of the endpoint rewrites it, unless the job lost its lock.
VerdictStands ==
  [][\A d \in Job :
       delivery[d].status \in {"SUCCEEDED", "EXHAUSTED"} /\ job'[d].stalled = 0
         => delivery'[d] \in {delivery[d], NoDelivery}]_<<queueVars, webhookVars>>

\* A delivery whose job was added comes to an end, unless something fails.  A slow
\* worker may write FAILED over what its successor recorded, with nobody left to
\* try again.
DeliverySettles ==
  \A d \in Job : job[d].state # "none" ~>
    (delivery[d].status \notin {"PENDING", "FAILED"} \/ faults > 0)

=============================================================================

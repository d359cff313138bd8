---------------------------- MODULE CustomerFlow ----------------------------
(***************************************************************************)
(* The customer's side: intake, checkout, payment events and the public    *)
(* status (src/customer-flow/service.mjs), over the in-memory store        *)
(* (src/customer-flow/memory-store.mjs), the payment gateway and the       *)
(* fulfillment orchestrator.                                               *)
(*                                                                         *)
(* A request's step ends where the service awaits; between two steps other *)
(* requests of the process run.  Calls that leave the process may fail     *)
(* before they take effect, or take effect and lose their answer.  The     *)
(* gateway holds a session per idempotency key, and may let a key lapse.   *)
(***************************************************************************)
EXTENDS Integers, FiniteSets

CONSTANTS
  Jobs,        \* job ids createId may draw, each with its own token
  Keys,        \* idempotency keys of customers
  Intakes,     \* what customers submit
  Sessions,    \* checkout sessions the gateway may open, in this order
  EventIds,    \* the payment provider's events, in this order
  Intents,     \* the payment provider's payments
  Submitters, Customers, Deliverers,  \* concurrent requests of each kind
  PaidStates,  \* states of a canonical job past its payment
  MaxFaults,   \* bound: calls that fail, lose their answer, lapse or are garbled
  None

ASSUME CustomerAssumption ==
  /\ Sessions \subseteq Nat
  /\ EventIds \subseteq Nat
  /\ MaxFaults \in Nat
  /\ None \notin Jobs \cup Sessions \cup Intents \cup Customers
  /\ None \notin [intake : Intakes, checkout : Sessions \cup {None}, intent : Intents \cup {None}]
  /\ None \notin [state : {"awaiting_payment", "generation_queued"} \cup PaidStates,
                  event : EventIds \cup {None}, intent : Intents \cup {None}]
  /\ "awaiting_payment" \notin PaidStates

VARIABLES
  jobs,            \* the store's jobs: intake, bound checkout, payment intent
  submissions,     \* submissions[key]: the job created under the key
  providerEvents,  \* providerEvents[id]: the payment accepted under the event id
  pending,         \* pendingCheckouts: the request opening a job's checkout
  configured,      \* whether the service was given an orchestrator
  canonical,       \* the orchestrator's jobs: state and recorded payment
  gateway,         \* gateway[j]: the session the gateway holds for j's key
  owner,           \* owner[s]: the job session s was opened for
  issued,          \* issued[id]: the payment the provider reports under the id
  submit, checkout, delivery,            \* requests in flight
  tokens,          \* jobs whose token a customer has been given
  told,            \* told[j]: sessions customers were sent to
  faults

store    == <<jobs, submissions, providerEvents, pending>>
outside  == <<gateway, owner, issued>>
requests == <<submit, checkout, delivery>>
vars == <<store, configured, canonical, outside, requests, tokens, told, faults>>

\* What canonicalPublicStatus and its helpers make of a canonical state.
Approved  == {"publish_ready", "publishing", "published", "delivery_queued", "sending",
              "sent", "complete"}
Unstarted == {"awaiting_payment", "generation_queued", "generating"}

CustomerState(state) ==
  CASE state = "awaiting_payment" -> "payment_pending"
    [] state \in {"generation_queued", "generating"} -> "generation_pending"
    [] state \in {"content_review_required", "render_queued", "rendering", "tts_queued",
                  "tts_generating", "narration_review_required", "rejected"}
         -> "review_required"
    [] state \in {"publish_ready", "publishing"} -> "publication_ready"
    [] state \in {"published", "delivery_queued", "sending", "sent"} -> "delivery_ready"
    [] state \in {"complete", "failed"} -> state
    [] OTHER -> "processing"

ReviewShown(state) ==
  CASE state \in Unstarted -> "not_ready"
    [] state = "rejected"  -> "changes_required"
    [] state \in Approved  -> "approved"
    [] OTHER               -> "pending"

DeliveryShown(state) ==
  CASE state \in {"sent", "complete"} -> "accepted"
    [] state \in {"published", "delivery_queued", "sending"} -> "ready"
    [] OTHER -> "not_ready"

\* publicStatus: the canonical job's state if there is an orchestrator, the
\* store's payment otherwise.
PublicStatus(j) ==
  LET state == IF configured THEN canonical[j].state
               ELSE IF jobs[j].intent # None THEN "generation_queued"
               ELSE "awaiting_payment" IN
  [status   |-> CustomerState(state),
   payment  |-> IF state = "awaiting_payment" THEN "pending" ELSE "paid",
   review   |-> ReviewShown(state),
   delivery |-> DeliveryShown(state)]

-----------------------------------------------------------------------------
NoDelivery == [pc |-> "idle", id |-> None, payment |-> None]

Init ==
  /\ jobs = [j \in Jobs |-> None]
  /\ submissions = [k \in Keys |-> None]
  /\ providerEvents = [e \in EventIds |-> None]
  /\ pending = [j \in Jobs |-> None]
  /\ configured \in BOOLEAN
  /\ canonical = [j \in Jobs |-> None]
  /\ gateway = [j \in Jobs |-> None]
  /\ owner = [s \in Sessions |-> None]
  /\ issued = [e \in EventIds |-> None]
  /\ submit = [r \in Submitters |-> None]
  /\ checkout = [r \in Customers |-> [pc |-> "idle", job |-> None, session |-> None]]
  /\ delivery = [r \in Deliverers |-> NoDelivery]
  /\ tokens = {}
  /\ told = [j \in Jobs |-> {}]
  /\ faults = 0

Idle(r) == [checkout[r] EXCEPT !.pc = "idle", !.job = None, !.session = None]

Fault ==
  /\ faults < MaxFaults
  /\ faults' = faults + 1

-----------------------------------------------------------------------------
(* submitIntake.  The digest of the request is the digest of its intake, so *)
(* a key remembers its job and nothing else.                                *)

\* createJob answered with job j: the canonical job is next, if there is one.
Stored(r, j) ==
  IF configured
    THEN submit' = [submit EXCEPT ![r] = j] /\ UNCHANGED tokens
    ELSE tokens' = tokens \cup {j} /\ UNCHANGED submit

SubmitNew(r) ==
  /\ submit[r] = None
  /\ \E key \in Keys \cup {None}, intake \in Intakes, j \in Jobs :
       /\ key # None => submissions[key] = None
       /\ jobs[j] = None
       /\ jobs' = [jobs EXCEPT ![j] =
                     [intake |-> intake, checkout |-> None, intent |-> None]]
       /\ submissions' = [k \in Keys |-> IF k = key THEN j ELSE submissions[k]]
       /\ Stored(r, j)
  /\ UNCHANGED <<providerEvents, pending, configured, canonical, outside, checkout,
                 delivery, told, faults>>

\* A replay that trusts the first request to have created the canonical job.
SubmitAgain_AnswersAtOnce(r) ==
  /\ submit[r] = None
  /\ \E key \in Keys, intake \in Intakes :
       /\ submissions[key] # None
       /\ IF jobs[submissions[key]].intake = intake
            THEN tokens' = tokens \cup {submissions[key]}
            ELSE UNCHANGED tokens
  /\ UNCHANGED <<store, configured, canonical, outside, requests, told, faults>>

\* A key seen before: the first response again, or a conflict.
SubmitAgain(r) ==
  /\ submit[r] = None
  /\ \E key \in Keys, intake \in Intakes :
       /\ submissions[key] # None
       /\ IF jobs[submissions[key]].intake = intake
            THEN Stored(r, submissions[key])
            ELSE UNCHANGED <<submit, tokens>>
  /\ UNCHANGED <<store, configured, canonical, outside, checkout, delivery, told,
                 faults>>

Created(j) ==
  canonical' = IF canonical[j] # None THEN canonical
               ELSE [canonical EXCEPT ![j] = [state |-> "awaiting_payment",
                                              event |-> None, intent |-> None]]

\* orchestrator.createJob: the same command for every replay of the intake.
CreateCanonical(r) ==
  LET j == submit[r] IN
  /\ j # None
  /\ submit' = [submit EXCEPT ![r] = None]
  /\ \/ Created(j) /\ tokens' = tokens \cup {j} /\ UNCHANGED faults
     \/ Fault /\ UNCHANGED <<canonical, tokens>>
     \/ Fault /\ Created(j) /\ UNCHANGED tokens
  /\ UNCHANGED <<store, configured, outside, checkout, delivery, told>>

-----------------------------------------------------------------------------
(* createCheckout.                                                          *)

\* The customer's token is checked and the job read.
AskCheckout(r) ==
  /\ checkout[r].pc = "idle"
  /\ \E j \in tokens :
       IF jobs[j].checkout # None
         THEN told' = [told EXCEPT ![j] = @ \cup {jobs[j].checkout}] /\ UNCHANGED checkout
         ELSE /\ checkout' = [checkout EXCEPT ![r].pc = "joining", ![r].job = j]
              /\ UNCHANGED told
  /\ UNCHANGED <<store, configured, canonical, outside, submit, delivery, tokens, faults>>

\* The job in hand may be stale by now; only pendingCheckouts is looked at.
JoinCheckout(r) ==
  LET j == checkout[r].job IN
  /\ checkout[r].pc = "joining"
  /\ IF pending[j] # None
       THEN checkout' = [checkout EXCEPT ![r].pc = "waiting"] /\ UNCHANGED pending
       ELSE /\ checkout' = [checkout EXCEPT ![r].pc = "opening"]
            /\ pending' = [pending EXCEPT ![j] = r]
  /\ UNCHANGED <<jobs, submissions, providerEvents, configured, canonical, outside, submit,
                 delivery, tokens, told, faults>>

\* The operation of r ends, for r and for the requests waiting on it.
EndOperation(r) ==
  LET j == checkout[r].job IN
  /\ checkout' = [q \in Customers |->
                    IF q = r \/ (checkout[q].pc = "waiting" /\ checkout[q].job = j)
                      THEN Idle(q) ELSE checkout[q]]
  /\ pending' = [pending EXCEPT ![j] = None]

\* Without the `finally`, a failed operation is what every later request joins.
EndFailed_KeepsPending(r) ==
  /\ checkout' = [q \in Customers |->
                    IF checkout[q].job = checkout[r].job THEN Idle(q) ELSE checkout[q]]
  /\ UNCHANGED pending

EndFailed(r) == EndOperation(r)

GatewayHolds_PerRequest(j) == None

\* The session the gateway holds under checkout:<job>:<intake digest>.
GatewayHolds(j) == gateway[j]

\* createCheckoutSession: the session of the key, or a new one.
OpenSession(r) ==
  LET j == checkout[r].job IN
  /\ checkout[r].pc = "opening"
  /\ \/ /\ \E s \in Sessions :
             /\ IF GatewayHolds(j) # None THEN s = GatewayHolds(j)
                ELSE owner[s] = None /\ \A t \in Sessions : owner[t] = None => s <= t
             /\ gateway' = [gateway EXCEPT ![j] = s]
             /\ owner' = [owner EXCEPT ![s] = j]
             /\ \/ /\ checkout' = [checkout EXCEPT ![r].pc = "binding", ![r].session = s]
                   /\ UNCHANGED <<pending, faults>>
                \/ Fault /\ EndFailed(r)
     \/ Fault /\ EndFailed(r) /\ UNCHANGED <<gateway, owner>>
  /\ UNCHANGED <<jobs, submissions, providerEvents, configured, canonical, issued, submit,
                 delivery, tokens, told>>

BoundSession_Overwrites(j, session) == session

\* updateJob keeps the checkout an earlier request bound.
BoundSession(j, session) == IF jobs[j].checkout # None THEN jobs[j].checkout ELSE session

BindSession(r) ==
  LET j == checkout[r].job
      session == BoundSession(j, checkout[r].session) IN
  /\ checkout[r].pc = "binding"
  /\ jobs' = [jobs EXCEPT ![j].checkout = session]
  /\ told' = [told EXCEPT ![j] = @ \cup {session}]
  /\ EndOperation(r)
  /\ UNCHANGED <<submissions, providerEvents, configured, canonical, outside, submit,
                 delivery, tokens, faults>>

-----------------------------------------------------------------------------
(* recordPaymentSucceeded.                                                  *)

\* paymentMatchesJob
Matches(p) == jobs[p.job] # None /\ jobs[p.job].checkout = p.session

Answer(d, pc) == delivery' = [delivery EXCEPT ![d].pc = pc]
Rest(d) == delivery' = [delivery EXCEPT ![d] = NoDelivery]

Receive(d, id, p) ==
  /\ delivery[d].pc = "idle"
  /\ delivery' =
       [delivery EXCEPT ![d] =
          IF providerEvents[id] = p THEN NoDelivery
          ELSE [pc |-> IF providerEvents[id] # None \/ ~Matches(p) THEN "refused"
                       ELSE IF configured THEN "recording" ELSE "updating",
                id |-> id, payment |-> p]]
  /\ UNCHANGED <<store, configured, canonical, outside, submit, checkout, tokens, told>>

\* The provider delivers, and delivers again; an adapter may garble a payment.
Deliver(id) ==
  /\ issued[id] # None
  /\ \E d \in Deliverers : Receive(d, id, issued[id])
  /\ UNCHANGED faults

DeliverGarbled(id) ==
  /\ issued[id] # None
  /\ \E d \in Deliverers, intent \in Intents \ {issued[id].intent} :
       Receive(d, id, [issued[id] EXCEPT !.intent = intent])
  /\ Fault

\* The orchestrator's recordPayment under command stripe:<event>.  A replay must
\* repeat the whole payload, and recordedAt is read from the clock at each call:
\* it repeats only when the two calls fall on the same instant.
Replays(context, job, sameInstant) ==
  sameInstant /\ job.event = context.id /\ job.intent = context.payment.intent

Recordable(context, sameInstant) ==
  LET job == canonical[context.payment.job] IN
  job # None /\ (job.state = "awaiting_payment" \/ Replays(context, job, sameInstant))

Recorded(context) ==
  LET j == context.payment.job IN
  canonical' = IF canonical[j].state # "awaiting_payment" THEN canonical
               ELSE [canonical EXCEPT ![j] =
                       [state |-> "generation_queued", event |-> context.id,
                        intent |-> context.payment.intent]]

RecordCanonical(d) ==
  LET context == delivery[d] IN
  /\ context.pc = "recording"
  /\ \E sameInstant \in BOOLEAN :
       \/ /\ Recordable(context, sameInstant)
          /\ Recorded(context)
          /\ \/ Answer(d, "updating") /\ UNCHANGED faults
             \/ Answer(d, "refused") /\ Fault
       \/ /\ ~Recordable(context, sameInstant)
          /\ Answer(d, "refused")
          /\ UNCHANGED <<canonical, faults>>
       \/ Answer(d, "refused") /\ Fault /\ UNCHANGED canonical
  /\ UNCHANGED <<store, configured, outside, submit, checkout, tokens, told>>

OtherIntentBound_Unchecked(j, intent) == FALSE

OtherIntentBound(j, intent) == jobs[j].intent \notin {None, intent}

UpdatePayment(d) ==
  LET j == delivery[d].payment.job
      intent == delivery[d].payment.intent IN
  /\ delivery[d].pc = "updating"
  /\ IF OtherIntentBound(j, intent)
       THEN Answer(d, "refused") /\ UNCHANGED jobs
       ELSE /\ jobs' = [jobs EXCEPT ![j].intent = IF @ = None THEN intent ELSE @]
            /\ Answer(d, "storing")
  /\ UNCHANGED <<submissions, providerEvents, pending, configured, canonical, outside,
                 submit, checkout, tokens, told, faults>>

\* recordProviderEvent keeps the first record of an event.
StoreEvent(d) ==
  LET context == delivery[d] IN
  /\ context.pc = "storing"
  /\ providerEvents' = [providerEvents EXCEPT ![context.id] =
                          IF @ = None THEN context.payment ELSE @]
  /\ IF providerEvents'[context.id] = context.payment THEN Rest(d) ELSE Answer(d, "refused")
  /\ UNCHANGED <<jobs, submissions, pending, configured, canonical, outside, submit,
                 checkout, tokens, told, faults>>

Refuse(d) ==
  /\ delivery[d].pc = "refused"
  /\ Rest(d)
  /\ UNCHANGED <<store, configured, canonical, outside, submit, checkout, tokens, told,
                 faults>>

-----------------------------------------------------------------------------
(* Outside the service.                                                     *)

\* A customer pays on an open session; the job is the session's metadata.
Pay(id) ==
  /\ issued[id] = None /\ \A e \in EventIds : issued[e] = None => id <= e
  /\ \E s \in Sessions, intent \in Intents :
       /\ owner[s] # None
       /\ issued' = [issued EXCEPT ![id] = [intent |-> intent, session |-> s, job |-> owner[s]]]
  /\ UNCHANGED <<store, configured, canonical, gateway, owner, requests, tokens, told,
                 faults>>

LapseKey(j) ==
  /\ gateway[j] # None
  /\ gateway' = [gateway EXCEPT ![j] = None]
  /\ Fault
  /\ UNCHANGED <<store, configured, canonical, owner, issued, requests, tokens, told>>

\* Fulfillment goes on (JobLifecycle says how) and never back to the payment.
Fulfill(j) ==
  /\ canonical[j] # None
  /\ canonical[j].state \notin {"awaiting_payment", "complete", "failed", "rejected"}
  /\ \E state \in PaidStates : canonical' = [canonical EXCEPT ![j].state = state]
  /\ UNCHANGED <<store, configured, outside, requests, tokens, told, faults>>

Next ==
  \/ \E r \in Submitters : SubmitNew(r) \/ SubmitAgain(r) \/ CreateCanonical(r)
  \/ \E r \in Customers : AskCheckout(r) \/ JoinCheckout(r) \/ OpenSession(r) \/ BindSession(r)
  \/ \E id \in EventIds : Pay(id) \/ Deliver(id) \/ DeliverGarbled(id)
  \/ \E d \in Deliverers : RecordCanonical(d) \/ UpdatePayment(d) \/ StoreEvent(d) \/ Refuse(d)
  \/ \E j \in Jobs : LapseKey(j) \/ Fulfill(j)

Spec == Init /\ [][Next]_vars

\* The event loop runs every request on; customers keep asking for the
\* checkout they were promised, and the provider redelivers.
Unpaid(id) == issued[id] # None /\ providerEvents[id] = None

FairSpec ==
  /\ Spec
  /\ \A r \in Submitters : WF_vars(CreateCanonical(r))
  /\ \A r \in Customers :
       WF_vars(AskCheckout(r)) /\ WF_vars(JoinCheckout(r) \/ OpenSession(r) \/ BindSession(r))
  /\ \A d \in Deliverers :
       WF_vars(RecordCanonical(d) \/ UpdatePayment(d) \/ StoreEvent(d) \/ Refuse(d))
  /\ \A id \in EventIds : SF_vars(Unpaid(id) /\ Deliver(id))

-----------------------------------------------------------------------------
\* A customer holds a token only of a job that fulfillment knows: whichever
\* step of an intake failed, the retry under the same key has finished it
\* before it answers (service.mjs:69-78).
TokensHaveJobs ==
  \A j \in tokens : jobs[j] # None /\ (configured => canonical[j] # None)

\* Every session a customer was ever sent to is the one its job is bound to,
\* so a payment on it correlates, whatever requests raced, failed or found
\* the gateway's key lapsed (service.mjs:89-127).
ToldSessionIsBound == \A j \in Jobs : \A s \in told[j] : jobs[j].checkout = s

\* "one provider session per job/intake" (the design's table of effects): a
\* second session of a job takes a lapsed key at the gateway.
OneSessionPerKey ==
  \A j \in Jobs : Cardinality({s \in Sessions : owner[s] = j}) <= 1 + faults

\* An accepted payment event is the payment its job has, in the store, in the
\* canonical job and in the status the customer sees (service.mjs:146-178).
AcceptedIsPaid ==
  \A id \in EventIds : providerEvents[id] # None =>
    LET p == providerEvents[id] IN
    /\ jobs[p.job].intent = p.intent
    /\ configured => canonical[p.job].intent = p.intent
    /\ PublicStatus(p.job).payment = "paid"

\* What a customer or the provider was told is not taken back by a request that
\* works on a job it read before others changed it: a job keeps its checkout and its
\* payment, a status that said paid never says pending again, and an accepted event
\* stays as it was accepted (service.mjs:99-178).
PromisesStand ==
  [][/\ \A j \in tokens :
          /\ jobs[j].checkout # None => jobs'[j].checkout = jobs[j].checkout
          /\ jobs[j].intent # None => jobs'[j].intent = jobs[j].intent
          /\ PublicStatus(j).payment = "paid" => PublicStatus(j)'.payment = "paid"
     /\ \A id \in EventIds :
          providerEvents[id] # None => providerEvents'[id] = providerEvents[id]]_vars

\* A customer who keeps asking is sent to a checkout, although calls fail.
AskingGetsCheckout == \A j \in Jobs : j \in tokens ~> told[j] # {}

\* A payment on a session a customer was sent to makes its job paid, although
\* deliveries fail, repeat or overlap.
PaymentArrives ==
  \A id \in EventIds :
    (issued[id] # None /\ issued[id].session \in told[issued[id].job])
      ~> (issued[id] # None /\ PublicStatus(issued[id].job).payment = "paid")
=============================================================================

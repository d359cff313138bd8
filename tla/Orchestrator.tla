---------------------------- MODULE Orchestrator ----------------------------
(***************************************************************************)
(* Workers driving one job through runNext                                 *)
(* (src/fulfillment/job-orchestrator.mjs), the effect handlers they call   *)
(* (src/fulfillment/external-effect-stage-handlers.mjs), the callers of    *)
(* the other commands, and the providers outside.                          *)
(*                                                                         *)
(* A worker's step ends where runNext awaits: the store, the delivery      *)
(* resolver or a provider.  Between two steps anything may happen: other   *)
(* workers, the clock, a crash that forgets the worker's context.  A       *)
(* timestamp is the one the code has in hand, read before the store's      *)
(* lock is taken.                                                          *)
(***************************************************************************)
EXTENDS JobLifecycle

CONSTANTS
  Workers,      \* processes calling runNext
  Pollers,      \* processes calling reconcileDelivery
  MaxFaults,    \* bound: crashes, and clock delays no lease or backoff asks for
  MaxLag        \* bound: how old a caller's timestamp is when its command runs

ASSUME OrchestratorAssumption ==
  /\ MaxFaults \in Nat
  /\ MaxLag \in Nat
  /\ Messages = 1 .. Cardinality(Messages)

VARIABLES
  now,          \* the clock the workers share
  worker,       \* worker[w]: where in runNext w is, and what it remembers
  poller,       \* poller[p]: the delivery status p has read and not recorded
  recipient,    \* the target the resolver returns now
  effects,      \* the effects the providers hold, one per idempotency key
  mail,         \* mail[m]: the provider's status of message m
  faults

vars == <<jobVars, now, worker, poller, recipient, effects, mail, faults>>
outside == <<poller, recipient, effects, mail, faults>>

EffectStages == {"publish", "deliver"}

Idle == [pc |-> "idle", stage |-> None, rev |-> 0, n |-> 0, at |-> 0, expires |-> 0,
         binding |-> None, digest |-> None, result |-> None, reason |-> None,
         retryable |-> FALSE]

Resting == [message |-> None, outcome |-> None]

Goto(w, context) == worker' = [worker EXCEPT ![w] = context]

-----------------------------------------------------------------------------
(* The context of a worker that has seen `stage` queued: the attempt it     *)
(* will claim, and the binding an earlier delivery attempt persisted.       *)

PriorBinding_Ignored(stage) == None

PriorBinding(stage) ==
  LET log == attempts[stage][currentRevision] IN
  IF log = <<>> THEN None ELSE Last(log).binding

Claiming_OffByOne(stage) ==
  [Idle EXCEPT !.pc = "claiming", !.stage = stage, !.rev = currentRevision,
               !.n = Len(attempts[stage][currentRevision]),
               !.at = now, !.binding = PriorBinding(stage)]

Claiming(stage) ==
  [Idle EXCEPT !.pc = IF stage = "deliver" /\ PriorBinding(stage) = None
                        THEN "preparing" ELSE "claiming",
               !.stage = stage, !.rev = currentRevision, !.n = NextAttempt(stage),
               !.at = now, !.binding = PriorBinding(stage)]

\* failAttempt: what the failure is reported as depends on the lease.
Failing(context, retryable) ==
  LET late == now >= context.expires IN
  [context EXCEPT !.pc = "failing", !.at = now, !.result = None,
                  !.reason = IF late THEN "lease_expired" ELSE "stage_error",
                  !.retryable = late \/ retryable]

\* The handler returned: its output is committed unless the lease ran out.
Returned(context, result) ==
  IF now >= context.expires
    THEN Failing(context, TRUE)
    ELSE [context EXCEPT !.pc = "committing", !.at = now, !.result = result]

\* One look at the job, and the branch runNext takes on it.
PollExpired(w) ==
  /\ worker[w].pc = "idle"
  /\ \E stage \in Stages, rev \in Revisions : \E n \in DOMAIN attempts[stage][rev] :
       /\ Running(stage, rev, n)
       /\ attempts[stage][rev][n].expires <= now
       /\ Goto(w, [Idle EXCEPT !.pc = "expiring", !.stage = stage, !.rev = rev,
                               !.n = n, !.at = now])
  /\ UNCHANGED <<jobVars, now, outside>>

PollRetry(w) ==
  /\ worker[w].pc = "idle"
  /\ state = "retry_wait"
  /\ now >= retry.availableAt
  /\ Goto(w, [Idle EXCEPT !.pc = "resuming", !.stage = retry.stage,
                          !.expires = retry.availableAt, !.at = now])
  /\ UNCHANGED <<jobVars, now, outside>>

PollQueued(w) ==
  /\ worker[w].pc = "idle"
  /\ \E stage \in Stages : state = QueuedState(stage) /\ Goto(w, Claiming(stage))
  /\ UNCHANGED <<jobVars, now, outside>>

Expire_Terminal(w) ==
  LET context == worker[w]
      id == <<"expire", context.stage, context.rev, context.n>> IN
  /\ context.pc = "expiring"
  /\ ~CanFail(id, context.stage, context.rev, context.n, "lease_expired", FALSE, context.at)
  /\ Goto(w, Idle)
  /\ UNCHANGED <<jobVars, now, outside>>

Expire(w) ==
  LET context == worker[w]
      id == <<"expire", context.stage, context.rev, context.n>> IN
  /\ context.pc = "expiring"
  /\ \/ FailStage(id, context.stage, context.rev, context.n, "lease_expired", TRUE, context.at)
     \/ /\ ~CanFail(id, context.stage, context.rev, context.n, "lease_expired", TRUE, context.at)
        /\ UNCHANGED jobVars
  /\ Goto(w, Idle)
  /\ UNCHANGED <<now, outside>>

\* A replayed resume returns the job as it is by now, and runNext goes on with it.
Resume(w) ==
  LET context == worker[w]
      id == <<"resume", context.stage, context.expires>> IN
  /\ context.pc = "resuming"
  /\ \/ ResumeRetry(id, context.at) /\ Goto(w, Claiming(retry.stage))
     \/ /\ id \in events
        /\ \/ \E stage \in Stages : state = QueuedState(stage) /\ Goto(w, Claiming(stage))
           \/ state \notin QueuedStates /\ Goto(w, Idle)
        /\ UNCHANGED jobVars
     \/ /\ id \notin events
        /\ ~CanResume(id, context.at)
        /\ Goto(w, Idle)
        /\ UNCHANGED jobVars
  /\ UNCHANGED <<now, outside>>

PrepareDelivery(w) ==
  /\ worker[w].pc = "preparing"
  /\ Goto(w, [worker[w] EXCEPT !.pc = "claiming", !.binding = recipient, !.at = now])
  /\ UNCHANGED <<jobVars, now, outside>>

\* No target is to be had, or an unusable one: runNext rejects before it claims.
NoTarget(w) ==
  /\ worker[w].pc = "preparing"
  /\ Goto(w, Idle)
  /\ UNCHANGED <<jobVars, now, outside>>

Claimed_UnnarratedBundle(context) ==
  [context EXCEPT !.expires = context.at + LeaseMs[context.stage],
                  !.digest = LatestArtifactSet("prepared_bundle"),
                  !.pc = IF context.stage \in EffectStages THEN "reconciling" ELSE "handling"]

\* The operation handed to an effect handler is read from the claimed job.
Claimed(context) ==
  LET started == [context EXCEPT !.expires = context.at + LeaseMs[context.stage],
                                 !.digest = ReleaseDigest] IN
  IF context.stage \notin EffectStages
    THEN [started EXCEPT !.pc = "handling", !.digest = None]
  ELSE IF context.stage = "deliver" /\ publication.digest /= ReleaseDigest
    THEN Failing(started, FALSE)
    ELSE [started EXCEPT !.pc = "reconciling"]

Claim(w) ==
  LET context == worker[w] IN
  /\ context.pc = "claiming"
  /\ \/ /\ ClaimStage(context.stage, context.rev, context.n, context.binding, context.at)
        /\ Goto(w, Claimed(context))
     \/ /\ ~CanClaim(context.stage, context.rev, context.n, context.binding, context.at)
        /\ Goto(w, Idle)
        /\ UNCHANGED jobVars
  /\ UNCHANGED <<now, outside>>

-----------------------------------------------------------------------------
(* Handlers and providers                                                   *)

OwnKey(context) == KeyOf(context.stage, context.rev, context.n)

Request(context) ==
  [key |-> OwnKey(context), rev |-> context.rev, digest |-> context.digest,
   target |-> context.binding]

Receipt(effect) == [rev |-> effect.rev, digest |-> effect.digest, id |-> effect.id]

EffectsOf(stage) == {effect \in effects : effect.key.stage = stage}
EffectsUnder(key) == {effect \in effects : effect.key = key}

\* normalizePublication, normalizeDelivery: a receipt for anything but the
\* request is an invalid provider result, which no retry can mend.
Accepted(context, effect) ==
  IF [key |-> effect.key, rev |-> effect.rev, digest |-> effect.digest,
      target |-> effect.target] = Request(context)
    THEN Returned(context, Receipt(effect))
    ELSE Failing(context, FALSE)

HandlingPcs == {"handling", "reconciling", "resolving", "acting"}

\* prepare_review, render_approved or generate_tts returns an artifact set.
Produce(w, digest) ==
  /\ worker[w].pc = "handling"
  /\ Goto(w, Returned(worker[w], digest))
  /\ UNCHANGED <<jobVars, now, outside>>

HandlerThrows(w, retryable) ==
  /\ worker[w].pc \in HandlingPcs
  /\ Goto(w, Failing(worker[w], retryable))
  /\ UNCHANGED <<jobVars, now, outside>>

\* reconcile(request): the provider is asked what it holds under the key first.
Reconcile(w) ==
  LET context == worker[w] IN
  /\ context.pc = "reconciling"
  /\ \/ \E effect \in EffectsUnder(OwnKey(context)) : Goto(w, Accepted(context, effect))
     \/ /\ EffectsUnder(OwnKey(context)) = {}
        /\ Goto(w, [context EXCEPT !.pc = IF context.stage = "publish"
                                            THEN "acting" ELSE "resolving"])
  /\ UNCHANGED <<jobVars, now, outside>>

Resolve_Unchecked(w) ==
  /\ worker[w].pc = "resolving"
  /\ Goto(w, [worker[w] EXCEPT !.pc = "acting", !.binding = recipient])
  /\ UNCHANGED <<jobVars, now, outside>>

\* The private target is resolved again, and must be the one the claim bound.
Resolve(w) ==
  /\ worker[w].pc = "resolving"
  /\ \/ /\ recipient = worker[w].binding
        /\ Goto(w, [worker[w] EXCEPT !.pc = "acting"])
     \/ /\ recipient /= worker[w].binding
        /\ Goto(w, Failing(worker[w], FALSE))
  /\ UNCHANGED <<jobVars, now, outside>>

\* publish(request), send(request).  External: a provider keeps one effect per
\* idempotency key and answers a repeated key with the receipt it gave first.
\* The answer may be lost on the way back, with the effect done.
Act(w) ==
  LET context == worker[w]
      held == EffectsUnder(OwnKey(context))
      new == [key |-> OwnKey(context), rev |-> context.rev, digest |-> context.digest,
              target |-> context.binding, id |-> Cardinality(EffectsOf(context.stage)) + 1]
      effect == IF held = {} THEN new ELSE CHOOSE e \in held : TRUE IN
  /\ context.pc = "acting"
  /\ effect.id \in Messages
  /\ effects' = effects \cup {effect}
  /\ \/ Goto(w, Accepted(context, effect))
     \/ \E retryable \in BOOLEAN : Goto(w, Failing(context, retryable))
  /\ UNCHANGED <<jobVars, now, poller, recipient, mail, faults>>

\* completeStage, by the stage's own transition; anything it throws, and a store
\* lock that cannot be had in time, is a failure that is not retryable.
Complete(context) ==
  LET result == context.result
      at == context.at IN
  \/ /\ context.stage = "prepare_review"
     /\ CompletePrepare(context.rev, context.n, currentRevision + 1, result, at)
  \/ /\ context.stage = "render_approved"
     /\ CompleteRender(context.rev, context.n, result, at)
  \/ /\ context.stage = "generate_tts"
     /\ CompleteNarration(context.rev, context.n, result, at)
  \/ /\ context.stage = "publish"
     /\ CompletePublish(context.rev, context.n, result, at)
  \/ /\ context.stage = "deliver"
     /\ CompleteDeliver(context.rev, context.n, result, at)

CommitStage(w) ==
  /\ worker[w].pc = "committing"
  /\ \/ Complete(worker[w]) /\ Goto(w, Idle)
     \/ Goto(w, Failing(worker[w], FALSE)) /\ UNCHANGED jobVars
  /\ UNCHANGED <<now, outside>>

FailAttempt(w) ==
  LET context == worker[w]
      id == <<"fail", context.stage, context.rev, context.n, context.reason>> IN
  /\ context.pc = "failing"
  /\ \/ FailStage(id, context.stage, context.rev, context.n, context.reason,
                  context.retryable, context.at)
     \/ /\ ~CanFail(id, context.stage, context.rev, context.n, context.reason,
                    context.retryable, context.at)
        /\ UNCHANGED jobVars
  /\ Goto(w, Idle)
  /\ UNCHANGED <<now, outside>>

-----------------------------------------------------------------------------
(* Callers of the other commands; their timestamps, too, are read before    *)
(* the store's lock is taken.                                               *)

Stamps == {at \in updatedAt .. now : now - at <= MaxLag}

CallerCreates ==
  \E narrated \in NarrationChoices, at \in Stamps : CreateJob(narrated, at)

CallerPays ==
  \E call \in CallsToTry, correlation \in Correlations, at \in Stamps :
    RecordPayment(call, correlation, at)

CallerReviews ==
  \E call \in CallsToTry, type \in ReviewTypes, outcome \in Outcomes, digest \in Digests,
     at \in Stamps :
    RecordReviewDecision(call, type, currentRevision, outcome, digest, at)

CallerQueuesDelivery == \E call \in CallsToTry, at \in Stamps : QueueDelivery(call, at)

\* verify_delivery_confirmation: only what the provider itself reports delivered.
CallerConfirms ==
  \E call \in CallsToTry, effect \in EffectsOf("deliver"), at \in Stamps :
    /\ mail[effect.id] = "delivered"
    /\ ConfirmDelivery(call, effect.id, at)

Caller ==
  /\ CallerCreates \/ CallerPays \/ CallerReviews \/ CallerQueuesDelivery \/ CallerConfirms
  /\ UNCHANGED <<now, worker, outside>>

\* reconcileDelivery: the provider's answer is recorded in a later step.
ReadStatus(p) ==
  /\ poller[p] = Resting
  /\ state = "sent"
  /\ LET message == Last(deliveries).message IN
     poller' = [poller EXCEPT ![p] = [message |-> message, outcome |-> mail[message]]]
  /\ UNCHANGED <<jobVars, now, worker, recipient, effects, mail, faults>>

RecordStatus(p) ==
  LET seen == poller[p] IN
  /\ seen /= Resting
  /\ \E call \in CallsToTry, at \in Stamps :
       \/ ReconcileDelivery(call, seen.message, seen.outcome, at)
       \/ ~CanSettleDelivery(call, seen.message, at) /\ UNCHANGED jobVars
  /\ poller' = [poller EXCEPT ![p] = Resting]
  /\ UNCHANGED <<now, worker, recipient, effects, mail, faults>>

-----------------------------------------------------------------------------
(* The world outside                                                        *)

\* External: a message accepted by the provider is delivered or fails, and one
\* that failed may still be delivered.
MailMoves ==
  /\ \E effect \in EffectsOf("deliver"), outcome \in {"delivered", "failed"} :
       /\ mail[effect.id] \notin {"delivered", outcome}
       /\ mail' = [mail EXCEPT ![effect.id] = outcome]
  /\ UNCHANGED <<jobVars, now, worker, poller, recipient, effects, faults>>

\* External: the customer's delivery target changes.  Only a worker that holds
\* a binding can tell: before that it is as if the target had always been so.
Retarget ==
  /\ \E w \in Workers : worker[w].binding /= None
  /\ recipient' \in Targets \ {recipient}
  /\ UNCHANGED <<jobVars, now, worker, poller, effects, mail, faults>>

LeaseRunning ==
  \E stage \in Stages, rev \in Revisions : \E n \in DOMAIN attempts[stage][rev] :
    Running(stage, rev, n) /\ now < attempts[stage][rev][n].expires

BackingOff == retry /= None /\ now < retry.availableAt

\* Time passes while a lease or a backoff runs.
Tick ==
  /\ LeaseRunning \/ BackingOff
  /\ now' = now + 1
  /\ UNCHANGED <<jobVars, worker, outside>>

\* Time also passes while a worker is slow, so that the stamp it holds grows old.
Delay ==
  /\ faults < MaxFaults
  /\ \E w \in Workers : worker[w].pc \in {"expiring", "resuming", "claiming"}
  /\ ~(LeaseRunning \/ BackingOff)
  /\ now' = now + 1
  /\ faults' = faults + 1
  /\ UNCHANGED <<jobVars, worker, poller, recipient, effects, mail>>

\* A worker dies, or its last call ends in an exception nobody handles: the job
\* keeps what the store holds, and the context is gone.  Before the claim it is
\* as if the worker had never looked.
Crash(w) ==
  /\ faults < MaxFaults
  /\ worker[w].pc \in HandlingPcs \cup {"committing", "failing"}
  /\ Goto(w, Idle)
  /\ faults' = faults + 1
  /\ UNCHANGED <<jobVars, now, poller, recipient, effects, mail>>

-----------------------------------------------------------------------------

Init ==
  /\ JobInit
  /\ now = 0
  /\ worker = [w \in Workers |-> Idle]
  /\ poller = [p \in Pollers |-> Resting]
  /\ recipient \in Targets
  /\ effects = {}
  /\ mail = [m \in Messages |-> "pending"]
  /\ faults = 0

RunNext(w) ==
  \/ PollExpired(w) \/ PollRetry(w) \/ PollQueued(w)
  \/ Expire(w) \/ Resume(w) \/ PrepareDelivery(w) \/ NoTarget(w) \/ Claim(w)
  \/ \E digest \in Digests : Produce(w, digest)
  \/ \E retryable \in BOOLEAN : HandlerThrows(w, retryable)
  \/ Reconcile(w) \/ Resolve(w) \/ Act(w)
  \/ CommitStage(w) \/ FailAttempt(w)

Next ==
  \/ \E w \in Workers : RunNext(w) \/ Crash(w)
  \/ Caller
  \/ \E p \in Pollers : ReadStatus(p) \/ RecordStatus(p)
  \/ MailMoves \/ Retarget \/ Tick \/ Delay

Spec == Init /\ [][Next]_vars

\* runNext is called again and again, the promises it awaits settle one way or the
\* other, and the clock does not stop.  Nothing is assumed of callers, and of
\* providers and the target resolver only that they answer or throw.
Fairness ==
  /\ \A w \in Workers : WF_vars(RunNext(w))
  /\ WF_vars(Tick)

FairSpec == Spec /\ Fairness

-----------------------------------------------------------------------------
(* Safety *)

\* What the publication and delivery providers hold is what the job's standing
\* approvals release, whichever worker asked for it, in time or after its lease.
EffectsAreApproved ==
  \A effect \in effects :
    /\ payment = JobCorrelation
    /\ ApprovedForRelease(effect.rev, effect.digest)

\* However many workers act, crash and act again, the customer sees one
\* publication and gets one message (design.md section 5, item 7).
OneEffectPerStage == \A stage \in EffectStages : Cardinality(EffectsOf(stage)) <= 1

\* Every delivery attempt of the job is bound to the target the first one bound,
\* and so is the message: a target that changes later never redirects a retry.
OneTarget ==
  \A rev \in Revisions :
    LET log == attempts["deliver"][rev] IN
    \A n \in 1 .. Len(log) :
      /\ log[n].binding = log[1].binding
      /\ \A effect \in EffectsOf("deliver") : effect.target = log[n].binding

\* The job never records an effect the provider does not hold exactly so, nor
\* completion before the provider has delivered the recorded message.
RecordsMatchProvider ==
  /\ publication /= None =>
       \E effect \in EffectsOf("publish") :
         publication = [rev |-> effect.rev, digest |-> effect.digest, key |-> effect.key,
                        receipt |-> effect.id]
  /\ \A i \in DOMAIN deliveries :
       \E effect \in EffectsOf("deliver") :
         /\ effect.id = deliveries[i].message
         /\ effect.rev = deliveries[i].rev
         /\ effect.key = deliveries[i].key
         /\ effect.target = deliveries[i].target
         /\ state = "complete" => mail[effect.id] = "delivered"
  /\ state = "complete" => deliveries /= <<>>

\* A worker about to act under a key the provider knows, because another worker
\* acted first, asks for the very thing the provider holds under it.
KeyAsksTheSame ==
  \A w \in Workers : worker[w].pc = "acting" =>
    \A effect \in EffectsUnder(OwnKey(worker[w])) :
      /\ effect.rev = worker[w].rev
      /\ effect.digest = worker[w].digest
      /\ effect.target = worker[w].binding

\* The contract with the world outside, read off the providers and the job.
Content(effect) == [rev |-> effect.rev, digest |-> effect.digest]

Contract == INSTANCE ReleaseContract WITH
  Contents   <- [rev: Revisions, digest: Digests],
  Addressees <- Targets,
  Receipts   <- Messages,
  approval   <- IF ReleaseEligible THEN [rev |-> currentRevision, digest |-> ReleaseDigest]
                                   ELSE None,
  public     <- {[content |-> Content(e), receipt |-> e.id] : e \in EffectsOf("publish")},
  announced  <- {[content |-> Content(e), receipt |-> e.id, who |-> e.target] :
                   e \in EffectsOf("deliver")},
  done       <- state = "complete"

\* Workers, callers and providers together keep the contract.
KeepsContract == Contract!Spec

\* Every step of theirs changes the job by one store command or not at all,
\* and numbers its claims as the job does.
IssuesStoreCommands == JobSpec

-----------------------------------------------------------------------------
(* Liveness *)

Settled ==
  state \in {"absent", "awaiting_payment", "published", "sent"}
              \cup ReviewStates \cup TerminalStates

HasBudget == \A stage \in Stages :
  state = QueuedState(stage) => NextAttempt(stage) <= MaxAttempts[stage]

\* A resolver that refuses costs no attempt, so nothing but itself ends the refusals.
TargetRefusedForEver == []<><<\E w \in Workers : NoTarget(w)>>_vars

\* Work that may still be attempted comes to a review, a hand-off or an end by
\* itself, whatever workers crash, however leases, retries and errors fall,
\* unless the delivery target is refused again and again without end.
WorkSettles ==
  \/ (state \notin {"absent", "awaiting_payment"} /\ HasBudget) ~> Settled
  \/ TargetRefusedForEver

=============================================================================

---------------------------- MODULE JobLifecycle ----------------------------
(***************************************************************************)
(* One fulfillment job as the job machine and its store change it          *)
(* (src/fulfillment/job-machine.mjs, src/persistence/                      *)
(* local-test-fulfillment-store.mjs).  Every store command is one atomic   *)
(* action: the store reads, applies the transition and renames the new     *)
(* file into place under one lock, and a transition that throws leaves the *)
(* job as it was, so a refused command is a stuttering step.               *)
(*                                                                         *)
(* Data the transitions only compare is abstracted: the three digests of   *)
(* an artifact set are one member of Digests, the reference and digest of  *)
(* a delivery target one member of Targets, and a lease token is the       *)
(* identity <<stage, revision, number>> of the attempt it was minted for.  *)
(* Revisions are their ordinals, with 0 for "no revision yet".             *)
(***************************************************************************)
EXTENDS Naturals, Sequences, FiniteSets

CONSTANTS
  Digests,         \* artifact sets, told apart by their digests
  Targets,         \* delivery targets (opaque reference and digest)
  Messages,        \* provider message ids and publication receipts
  Correlations,    \* payment correlations a provider event may carry
  JobCorrelation,  \* the one bound to this job
  NarrationChoices,\* what intake may ask for
  CommandIds,      \* ids of commands that callers, not workers, make up
  Times,           \* instants a command may be stamped with
  MaxRevision,     \* bound: revisions explored
  MaxAttempts,     \* retryPolicy.maxAttemptsByStage
  LeaseMs,         \* retryPolicy.leaseMsByStage
  BackoffMs,       \* retryPolicy.backoffMsByStage
  None             \* null

Stages == {"prepare_review", "render_approved", "generate_tts", "publish", "deliver"}
Revisions == 0 .. MaxRevision

ASSUME ConstantsAssumption ==
  /\ CommandIds \subseteq Nat
  /\ Times \subseteq Nat
  /\ NarrationChoices \subseteq BOOLEAN
  /\ JobCorrelation \in Correlations
  /\ None \notin Digests \cup Targets \cup Messages \cup Correlations
  /\ None \notin [stage: Stages, availableAt: Nat] \cup [rev: Revisions, digest: Digests]

ASSUME PolicyAssumption ==
  /\ MaxRevision \in Nat
  /\ MaxAttempts \in [Stages -> Nat \ {0}]
  /\ LeaseMs \in [Stages -> Nat \ {0}]
  /\ BackoffMs \in [Stages -> Seq(Nat \ {0})]

QueuedState(stage) ==
  CASE stage = "prepare_review"  -> "generation_queued"
    [] stage = "render_approved" -> "render_queued"
    [] stage = "generate_tts"    -> "tts_queued"
    [] stage = "publish"         -> "publish_ready"
    [] stage = "deliver"         -> "delivery_queued"

RunningState(stage) ==
  CASE stage = "prepare_review"  -> "generating"
    [] stage = "render_approved" -> "rendering"
    [] stage = "generate_tts"    -> "tts_generating"
    [] stage = "publish"         -> "publishing"
    [] stage = "deliver"         -> "sending"

QueuedStates  == {QueuedState(stage) : stage \in Stages}
RunningStates == {RunningState(stage) : stage \in Stages}
ReviewTypes   == {"content", "narration"}
ReviewState(type) ==
  IF type = "content" THEN "content_review_required" ELSE "narration_review_required"
ReviewStates   == {ReviewState(type) : type \in ReviewTypes}
TerminalStates == {"rejected", "failed", "complete"}
States == {"absent", "awaiting_payment", "retry_wait", "published", "sent"}
            \cup QueuedStates \cup RunningStates \cup ReviewStates \cup TerminalStates

Kinds == {"private_review", "prepared_bundle", "narration_review"}
ReviewedKind(type) == IF type = "content" THEN "private_review" ELSE "narration_review"

VARIABLES
  state, narrationRequired, payment,
  currentRevision, publishedRevision,
  artifacts,    \* artifacts[kind][revision]: digests in order of first appearance
  decisions,    \* decisions[type][revision]: review decisions in order
  attempts,     \* attempts[stage][revision]: stage attempts, numbered from 1
  retry,        \* the stage waiting for its backoff, and until when
  publication,
  deliveries,   \* deliveryAttempts
  events,       \* ids of the accepted commands
  version, updatedAt

jobVars == <<state, narrationRequired, payment, currentRevision, publishedRevision,
             artifacts, decisions, attempts, retry, publication, deliveries,
             events, version, updatedAt>>

-----------------------------------------------------------------------------
(* Types *)

Outcomes == {"approved", "request_changes", "rejected"}
DeliveryOutcomes == {"pending", "delivered", "failed"}
Reasons  == {"stage_error", "lease_expired"}
Keys     == [rev: Revisions, stage: Stages, op: Nat]
Decision == [outcome: Outcomes, digest: Digests]
Attempt  == [op: Nat, binding: Targets \cup {None},
             status: {"running", "retry_wait", "failed", "completed"}, expires: Nat]
Publication == [rev: Revisions, digest: Digests, key: Keys, receipt: Messages]
Delivery == [rev: Revisions, message: Messages, key: Keys, target: Targets,
             status: {"sent", "delivered"}, outcome: DeliveryOutcomes \cup {None}]
ASSUME PublicationAssumption == None \notin Publication

EventIds == {<<"create">>} \cup ({"call"} \X CommandIds)
              \cup ({"claim", "complete", "expire"} \X Stages \X Revisions \X Nat)
              \cup ({"fail"} \X Stages \X Revisions \X Nat \X Reasons)
              \cup ({"resume"} \X Stages \X Nat)

TypeOK ==
  /\ state \in States
  /\ narrationRequired \in BOOLEAN
  /\ payment \in Correlations \cup {None}
  /\ currentRevision \in Revisions
  /\ publishedRevision \in Revisions
  /\ artifacts \in [Kinds -> [Revisions -> Seq(Digests)]]
  /\ decisions \in [ReviewTypes -> [Revisions -> Seq(Decision)]]
  /\ attempts \in [Stages -> [Revisions -> Seq(Attempt)]]
  /\ retry \in [stage: Stages, availableAt: Nat] \cup {None}
  /\ publication \in Publication \cup {None}
  /\ deliveries \in Seq(Delivery)
  /\ events \subseteq EventIds
  /\ version \in Nat
  /\ updatedAt \in Nat

-----------------------------------------------------------------------------
(* What the transitions read *)

Last(seq) == seq[Len(seq)]

LatestArtifactSet(kind) ==
  LET sets == artifacts[kind][currentRevision] IN
  IF sets = <<>> THEN None ELSE Last(sets)

\* The newest decision on the current revision decides, and only while it is
\* about the newest artifact set of the kind under review.
LatestApproved(type) ==
  LET log == decisions[type][currentRevision] IN
  /\ log /= <<>>
  /\ Last(log).outcome = "approved"
  /\ Last(log).digest = LatestArtifactSet(ReviewedKind(type))

ReleaseDigest ==
  LatestArtifactSet(IF narrationRequired THEN "narration_review" ELSE "prepared_bundle")

ReleaseEligible ==
  /\ LatestApproved("content")
  /\ LatestArtifactSet("prepared_bundle") /= None
  /\ ~narrationRequired =>
       LatestArtifactSet("prepared_bundle") = Last(decisions["content"][currentRevision]).digest
  /\ narrationRequired => LatestApproved("narration")
  /\ ReleaseDigest /= None

PublishedExactly ==
  /\ publishedRevision = currentRevision
  /\ publication /= None
  /\ publication.rev = currentRevision

\* An artifact set whose digests were seen before is not appended again.
WithArtifactSet(sets, digest) ==
  IF \E i \in DOMAIN sets : sets[i] = digest THEN sets ELSE Append(sets, digest)

NextAttempt(stage) == Len(attempts[stage][currentRevision]) + 1
NextOperation_CountsAttempts(stage) == NextAttempt(stage)

NextOperation(stage) ==
  LET log == attempts[stage][currentRevision] IN
  Cardinality({n \in 1 .. Len(log) : log[n].status = "completed"}) + 1

\* stageIdempotencyKey of the given attempt.
KeyOf(stage, rev, n) == [rev |-> rev, stage |-> stage, op |-> attempts[stage][rev][n].op]

Running(stage, rev, n) ==
  /\ n \in 1 .. Len(attempts[stage][rev])
  /\ attempts[stage][rev][n].status = "running"

\* currentRunningAttempt: the newest running attempt of the stage has this token.
HoldsLease(stage, rev, n) ==
  /\ Running(stage, rev, n)
  /\ \A m \in 1 .. Len(attempts[stage][rev]) : m > n => ~Running(stage, rev, m)
  /\ \A later \in Revisions : later > rev =>
       \A m \in 1 .. Len(attempts[stage][later]) : ~Running(stage, later, m)

-----------------------------------------------------------------------------
(* withCommand: an accepted command is new and not stamped before the job. *)

Fresh_ReplayUnchecked(id, at) == at >= updatedAt

Fresh(id, at) ==
  /\ id \notin events
  /\ at >= updatedAt

Accept(id, at) ==
  /\ events' = events \cup {id}
  /\ version' = version + 1
  /\ updatedAt' = at

JobInit ==
  /\ state = "absent"
  /\ narrationRequired = FALSE
  /\ payment = None
  /\ currentRevision = 0
  /\ publishedRevision = 0
  /\ artifacts = [kind \in Kinds |-> [rev \in Revisions |-> <<>>]]
  /\ decisions = [type \in ReviewTypes |-> [rev \in Revisions |-> <<>>]]
  /\ attempts = [stage \in Stages |-> [rev \in Revisions |-> <<>>]]
  /\ retry = None
  /\ publication = None
  /\ deliveries = <<>>
  /\ events = {}
  /\ version = 0
  /\ updatedAt = 0

CreateJob(narrated, at) ==
  /\ state = "absent"
  /\ state' = "awaiting_payment"
  /\ narrationRequired' = narrated
  /\ Accept(<<"create">>, at)
  /\ UNCHANGED <<payment, currentRevision, publishedRevision, artifacts, decisions,
                 attempts, retry, publication, deliveries>>

RecordPayment(call, correlation, at) ==
  /\ Fresh(<<"call", call>>, at)
  /\ state = "awaiting_payment"
  /\ correlation = JobCorrelation
  /\ payment' = correlation
  /\ state' = "generation_queued"
  /\ Accept(<<"call", call>>, at)
  /\ UNCHANGED <<narrationRequired, currentRevision, publishedRevision, artifacts,
                 decisions, attempts, retry, publication, deliveries>>

-----------------------------------------------------------------------------
(* Stage attempts *)

ClaimEligible(stage) ==
  /\ stage \in {"publish", "deliver"} => ReleaseEligible
  /\ stage = "deliver" => PublishedExactly

CanClaim_Unbound(stage, rev, n, binding, at) ==
  /\ Fresh(<<"claim", stage, rev, n>>, at)
  /\ state = QueuedState(stage)
  /\ ClaimEligible(stage)
  /\ NextAttempt(stage) <= MaxAttempts[stage]

\* rev and number come with the claim's command id: they are what the claiming
\* worker saw, not necessarily what the job holds now.
CanClaim(stage, rev, n, binding, at) ==
  /\ Fresh(<<"claim", stage, rev, n>>, at)
  /\ state = QueuedState(stage)
  /\ ClaimEligible(stage)
  /\ NextAttempt(stage) <= MaxAttempts[stage]
  /\ (binding /= None) <=> (stage = "deliver")

ClaimStage(stage, rev, n, binding, at) ==
  /\ CanClaim(stage, rev, n, binding, at)
  /\ attempts' = [attempts EXCEPT ![stage][currentRevision] =
                    Append(@, [op |-> NextOperation(stage), binding |-> binding,
                               status |-> "running", expires |-> at + LeaseMs[stage]])]
  /\ state' = RunningState(stage)
  /\ retry' = None
  /\ Accept(<<"claim", stage, rev, n>>, at)
  /\ UNCHANGED <<narrationRequired, payment, currentRevision, publishedRevision,
                 artifacts, decisions, publication, deliveries>>

CloseAttempt(stage, rev, n, status) ==
  attempts' = [attempts EXCEPT ![stage][rev][n] = [@ EXCEPT !.status = status, !.expires = 0]]

CanCommit_AnyToken(stage, rev, n, at) ==
  /\ Fresh(<<"complete", stage, rev, n>>, at)
  /\ state = RunningState(stage)

CanCommit(stage, rev, n, at) ==
  /\ Fresh(<<"complete", stage, rev, n>>, at)
  /\ HoldsLease(stage, rev, n)
  /\ at < attempts[stage][rev][n].expires
  /\ state = RunningState(stage)

Commit(stage, rev, n, at) ==
  /\ CloseAttempt(stage, rev, n, "completed")
  /\ Accept(<<"complete", stage, rev, n>>, at)

CanCompletePrepare(rev, n, ordinal, at) ==
  /\ CanCommit("prepare_review", rev, n, at)
  /\ ordinal = currentRevision + 1
  /\ ordinal <= MaxRevision    \* bound

CompletePrepare(rev, n, ordinal, digest, at) ==
  /\ CanCompletePrepare(rev, n, ordinal, at)
  /\ currentRevision' = ordinal
  /\ artifacts' = [artifacts EXCEPT !["private_review"][ordinal] = WithArtifactSet(@, digest)]
  /\ state' = "content_review_required"
  /\ Commit("prepare_review", rev, n, at)
  /\ UNCHANGED <<narrationRequired, payment, publishedRevision, decisions, retry,
                 publication, deliveries>>

CanCompleteRender_AnyBundle(rev, n, digest, at) ==
  /\ CanCommit("render_approved", rev, n, at)
  /\ LatestApproved("content")

\* A job without narration releases its bundle: it has to be what was approved.
CanCompleteRender(rev, n, digest, at) ==
  /\ CanCommit("render_approved", rev, n, at)
  /\ LatestApproved("content")
  /\ ~narrationRequired =>
       Last(WithArtifactSet(artifacts["prepared_bundle"][currentRevision], digest))
         = Last(decisions["content"][currentRevision]).digest

CompleteRender(rev, n, digest, at) ==
  /\ CanCompleteRender(rev, n, digest, at)
  /\ artifacts' = [artifacts EXCEPT !["prepared_bundle"][currentRevision] =
                     WithArtifactSet(@, digest)]
  /\ state' = IF narrationRequired THEN "tts_queued" ELSE "publish_ready"
  /\ Commit("render_approved", rev, n, at)
  /\ UNCHANGED <<narrationRequired, payment, currentRevision, publishedRevision,
                 decisions, retry, publication, deliveries>>

CanCompleteNarration(rev, n, at) ==
  /\ CanCommit("generate_tts", rev, n, at)
  /\ LatestApproved("content")

CompleteNarration(rev, n, digest, at) ==
  /\ CanCompleteNarration(rev, n, at)
  /\ artifacts' = [artifacts EXCEPT !["narration_review"][currentRevision] =
                     WithArtifactSet(@, digest)]
  /\ state' = "narration_review_required"
  /\ Commit("generate_tts", rev, n, at)
  /\ UNCHANGED <<narrationRequired, payment, currentRevision, publishedRevision,
                 decisions, retry, publication, deliveries>>

CanCompletePublish_AnyManifest(rev, n, receipt, at) ==
  /\ CanCommit("publish", rev, n, at)
  /\ ReleaseEligible
  /\ receipt.rev = currentRevision

CanCompletePublish(rev, n, receipt, at) ==
  /\ CanCommit("publish", rev, n, at)
  /\ ReleaseEligible
  /\ receipt.rev = currentRevision
  /\ receipt.digest = ReleaseDigest

CompletePublish(rev, n, receipt, at) ==
  /\ CanCompletePublish(rev, n, receipt, at)
  /\ publication' = [rev |-> receipt.rev, digest |-> receipt.digest,
                     key |-> KeyOf("publish", rev, n), receipt |-> receipt.id]
  /\ publishedRevision' = currentRevision
  /\ state' = "published"
  /\ Commit("publish", rev, n, at)
  /\ UNCHANGED <<narrationRequired, payment, currentRevision, artifacts, decisions,
                 retry, deliveries>>

CanCompleteDeliver(rev, n, receipt, at) ==
  /\ CanCommit("deliver", rev, n, at)
  /\ ReleaseEligible
  /\ publishedRevision = currentRevision
  /\ receipt.rev = currentRevision

CompleteDeliver(rev, n, receipt, at) ==
  /\ CanCompleteDeliver(rev, n, receipt, at)
  /\ deliveries' = Append(deliveries,
       [rev |-> receipt.rev, message |-> receipt.id, key |-> KeyOf("deliver", rev, n),
        target |-> attempts["deliver"][rev][n].binding, status |-> "sent", outcome |-> None])
  /\ state' = "sent"
  /\ Commit("deliver", rev, n, at)
  /\ UNCHANGED <<narrationRequired, payment, currentRevision, publishedRevision,
                 artifacts, decisions, retry, publication>>

-----------------------------------------------------------------------------
(* Failures and retries *)

WillRetry(stage, n, retryable) == retryable /\ n < MaxAttempts[stage]

\* An expired lease can only be fenced, and a retry needs its backoff configured.
CanFail(id, stage, rev, n, reason, retryable, at) ==
  /\ Fresh(id, at)
  /\ HoldsLease(stage, rev, n)
  /\ at >= attempts[stage][rev][n].expires => reason = "lease_expired" /\ retryable
  /\ WillRetry(stage, n, retryable) => Len(BackoffMs[stage]) >= n

FailStage(id, stage, rev, n, reason, retryable, at) ==
  /\ CanFail(id, stage, rev, n, reason, retryable, at)
  /\ \/ /\ WillRetry(stage, n, retryable)
        /\ CloseAttempt(stage, rev, n, "retry_wait")
        /\ state' = "retry_wait"
        /\ retry' = [stage |-> stage, availableAt |-> at + BackoffMs[stage][n]]
     \/ /\ ~WillRetry(stage, n, retryable)
        /\ CloseAttempt(stage, rev, n, "failed")
        /\ state' = "failed"
        /\ retry' = None
  /\ Accept(id, at)
  /\ UNCHANGED <<narrationRequired, payment, currentRevision, publishedRevision,
                 artifacts, decisions, publication, deliveries>>

ResumeId_StageOnly(waiting) == <<"resume", waiting.stage, 0>>

ResumeId(waiting) == <<"resume", waiting.stage, waiting.availableAt>>

CanResume(id, at) ==
  /\ Fresh(id, at)
  /\ state = "retry_wait"
  /\ at >= retry.availableAt

ResumeRetry(id, at) ==
  /\ CanResume(id, at)
  /\ state' = QueuedState(retry.stage)
  /\ retry' = None
  /\ Accept(id, at)
  /\ UNCHANGED <<narrationRequired, payment, currentRevision, publishedRevision,
                 artifacts, decisions, attempts, publication, deliveries>>

-----------------------------------------------------------------------------
(* Review and delivery commands of callers *)

CanDecide_AnyState(call, type, rev, digest, at) ==
  /\ Fresh(<<"call", call>>, at)
  /\ rev = currentRevision
  /\ digest = LatestArtifactSet(ReviewedKind(type))

CanDecide(call, type, rev, digest, at) ==
  /\ Fresh(<<"call", call>>, at)
  /\ rev = currentRevision
  /\ state = ReviewState(type)
  /\ digest = LatestArtifactSet(ReviewedKind(type))

StateAfterReview(type, outcome) ==
  CASE outcome = "rejected" -> "rejected"
    [] outcome = "request_changes" -> QueuedState(IF type = "content" THEN "prepare_review"
                                                                       ELSE "generate_tts")
    [] outcome = "approved" -> QueuedState(IF type = "content" THEN "render_approved"
                                                               ELSE "publish")

RecordReviewDecision(call, type, rev, outcome, digest, at) ==
  /\ CanDecide(call, type, rev, digest, at)
  /\ decisions' = [decisions EXCEPT ![type][rev] =
                     Append(@, [outcome |-> outcome, digest |-> digest])]
  /\ state' = StateAfterReview(type, outcome)
  /\ Accept(<<"call", call>>, at)
  /\ UNCHANGED <<narrationRequired, payment, currentRevision, publishedRevision,
                 artifacts, attempts, retry, publication, deliveries>>

QueueDelivery(call, at) ==
  /\ Fresh(<<"call", call>>, at)
  /\ state = "published"
  /\ publishedRevision = currentRevision
  /\ ReleaseEligible
  /\ state' = "delivery_queued"
  /\ Accept(<<"call", call>>, at)
  /\ UNCHANGED <<narrationRequired, payment, currentRevision, publishedRevision,
                 artifacts, decisions, attempts, retry, publication, deliveries>>

CanSettleDelivery_AnyState(call, message, at) ==
  /\ Fresh(<<"call", call>>, at)
  /\ deliveries /= <<>>
  /\ Last(deliveries).message = message
  /\ ReleaseEligible
  /\ publishedRevision = currentRevision

CanSettleDelivery(call, message, at) ==
  /\ Fresh(<<"call", call>>, at)
  /\ state = "sent"
  /\ deliveries /= <<>>
  /\ Last(deliveries).message = message
  /\ ReleaseEligible
  /\ publishedRevision = currentRevision

MarkDelivered ==
  /\ deliveries' = [deliveries EXCEPT ![Len(deliveries)].status = "delivered",
                                      ![Len(deliveries)].outcome = "delivered"]
  /\ state' = "complete"

ConfirmDelivery(call, message, at) ==
  /\ CanSettleDelivery(call, message, at)
  /\ MarkDelivered
  /\ Accept(<<"call", call>>, at)
  /\ UNCHANGED <<narrationRequired, payment, currentRevision, publishedRevision,
                 artifacts, decisions, attempts, retry, publication>>

ReconcileDelivery(call, message, outcome, at) ==
  /\ CanSettleDelivery(call, message, at)
  /\ \/ /\ outcome = "delivered"
        /\ MarkDelivered
     \/ /\ outcome /= "delivered"
        /\ deliveries' = [deliveries EXCEPT ![Len(deliveries)].outcome = outcome]
        /\ UNCHANGED state
  /\ Accept(<<"call", call>>, at)
  /\ UNCHANGED <<narrationRequired, payment, currentRevision, publishedRevision,
                 artifacts, decisions, attempts, retry, publication>>

-----------------------------------------------------------------------------
(* The store's clients may issue any command, with any payload, at any     *)
(* instant; a command that no transition accepts leaves the job alone.     *)

Receipts == [rev: Revisions, digest: Digests, id: Messages]

\* Callers' ids are opaque: numbering them in the order the job accepts them
\* loses nothing, and every id accepted before may come back as a replay.
CallsToTry ==
  LET accepted == {call \in CommandIds : <<"call", call>> \in events} IN
  {call \in CommandIds : call <= Cardinality(accepted) + 1}

WorkerCommand(at) ==
  \/ \E stage \in Stages, binding \in Targets \cup {None} :
       ClaimStage(stage, currentRevision, NextAttempt(stage), binding, at)
  \/ \E rev \in Revisions :
       \/ \E n \in DOMAIN attempts["prepare_review"][rev], ordinal \in Revisions, d \in Digests :
            CompletePrepare(rev, n, ordinal, d, at)
       \/ \E n \in DOMAIN attempts["render_approved"][rev], d \in Digests :
            CompleteRender(rev, n, d, at)
       \/ \E n \in DOMAIN attempts["generate_tts"][rev], d \in Digests :
            CompleteNarration(rev, n, d, at)
       \/ \E n \in DOMAIN attempts["publish"][rev], receipt \in Receipts :
            CompletePublish(rev, n, receipt, at)
       \/ \E n \in DOMAIN attempts["deliver"][rev], receipt \in Receipts :
            CompleteDeliver(rev, n, receipt, at)
       \/ \E stage \in Stages : \E n \in DOMAIN attempts[stage][rev] :
            \/ \E reason \in Reasons, retryable \in BOOLEAN :
                 FailStage(<<"fail", stage, rev, n, reason>>, stage, rev, n,
                           reason, retryable, at)
            \/ FailStage(<<"expire", stage, rev, n>>, stage, rev, n,
                         "lease_expired", TRUE, at)
  \/ retry /= None /\ ResumeRetry(ResumeId(retry), at)

CallerCommand(at) ==
  \/ \E narrated \in NarrationChoices : CreateJob(narrated, at)
  \/ \E call \in CallsToTry :
       \/ \E correlation \in Correlations : RecordPayment(call, correlation, at)
       \/ \E type \in ReviewTypes, rev \in Revisions, outcome \in Outcomes, d \in Digests :
            RecordReviewDecision(call, type, rev, outcome, d, at)
       \/ QueueDelivery(call, at)
       \/ \E message \in Messages : ConfirmDelivery(call, message, at)
       \/ \E message \in Messages, outcome \in DeliveryOutcomes :
            ReconcileDelivery(call, message, outcome, at)

\* A command's stamp is the job's from then on, which says at once what `at` was.
JobNext ==
  \E at \in Times :
    /\ updatedAt' = at
    /\ WorkerCommand(at) \/ CallerCommand(at)

JobSpec == JobInit /\ [][JobNext]_jobVars

-----------------------------------------------------------------------------
(* Safety *)

\* A lease is exclusive and the job's state says so: an attempt runs exactly
\* while the job is in its stage's running state, on the current revision, and
\* it is the newest attempt of that stage.  Claims, late completions, expiries
\* and retries from any number of workers have to keep the two in step.
OneLease ==
  /\ \A stage \in Stages, rev \in Revisions : \A n \in 1 .. Len(attempts[stage][rev]) :
       Running(stage, rev, n) =>
         /\ state = RunningState(stage)
         /\ rev = currentRevision
         /\ n = Len(attempts[stage][rev])
  /\ \A stage \in Stages : state = RunningState(stage) =>
       Running(stage, currentRevision, Len(attempts[stage][currentRevision]))

\* What the newest decision of a type on a revision stands for.
Stands(type, rev, digest) ==
  LET log == decisions[type][rev] IN
  /\ log /= <<>>
  /\ Last(log) = [outcome |-> "approved", digest |-> digest]

\* The revision and artifact set the standing approvals release.
ApprovedForRelease(rev, digest) ==
  /\ rev = currentRevision
  /\ \E reviewed \in Digests :
       /\ Stands("content", rev, reviewed)
       /\ reviewed = LatestArtifactSet("private_review")
       /\ ~narrationRequired => digest = reviewed
  /\ narrationRequired => /\ Stands("narration", rev, digest)
                          /\ digest = LatestArtifactSet("narration_review")

\* From the first claim of a publication on, the approvals it rests on stand:
\* no decision, rework, retry or failure after it takes them back or slips a
\* newer artifact set under them (assertStageClaimEligible, design.md section 7).
ApprovalOutlivesRelease ==
  \A stage \in {"publish", "deliver"}, rev \in Revisions :
    attempts[stage][rev] /= <<>> =>
      /\ payment = JobCorrelation
      /\ ReleaseDigest /= None
      /\ ApprovedForRelease(rev, ReleaseDigest)

\* The recorded publication and delivery are of exactly the approved revision
\* and artifacts of a paid job, through failure and completion alike.
ReleasedAsApproved ==
  /\ publication /= None =>
       /\ payment = JobCorrelation
       /\ publishedRevision = publication.rev
       /\ ApprovedForRelease(publication.rev, publication.digest)
  /\ \A i \in DOMAIN deliveries : publication /= None /\ deliveries[i].rev = publication.rev

\* A job publishes and sends under one idempotency key each, however many
\* attempts, failures and expired leases it takes: a second key would let the
\* provider publish or send again.
OneKeyPerEffect ==
  /\ \A stage \in {"publish", "deliver"}, rev \in Revisions :
       \A n \in 1 .. Len(attempts[stage][rev]) : attempts[stage][rev][n].op = 1
  /\ Len(deliveries) <= 1

\* The ids workers derive for their next command have never been used: were one
\* to collide with an earlier command, the store would answer with a replay and
\* the job would stay where it is for good.
NextCommandIsNew ==
  /\ \A stage \in Stages : state = QueuedState(stage) =>
       <<"claim", stage, currentRevision, NextAttempt(stage)>> \notin events
  /\ \A stage \in Stages, rev \in Revisions : \A n \in 1 .. Len(attempts[stage][rev]) :
       Running(stage, rev, n) =>
         /\ <<"complete", stage, rev, n>> \notin events
         /\ <<"expire", stage, rev, n>> \notin events
         /\ \A reason \in Reasons : <<"fail", stage, rev, n, reason>> \notin events
  /\ state = "retry_wait" => ResumeId(retry) \notin events

\* The job is at a stage: it waits for an attempt, for its end, or for a retry.
AtStage(stage) ==
  \/ state \in {QueuedState(stage), RunningState(stage)}
  \/ state = "retry_wait" /\ retry.stage = stage

ReworkAsked ==
  LET log == decisions["narration"][currentRevision] IN
  log /= <<>> /\ Last(log).outcome = "request_changes"

\* Work never waits in vain: a stage that is queued, or will be after its backoff,
\* passes the checks of a claim, and what it works on stays approved until it ends.
\* The one exception is narration sent back as often as the attempt limit, which
\* counts reworks too (job-machine.mjs:112).
WorkCanGoOn ==
  \A stage \in Stages : AtStage(stage) =>
    /\ ClaimEligible(stage)
    /\ stage \in {"render_approved", "generate_tts"} => LatestApproved("content")
    /\ \/ state = RunningState(stage)
       \/ NextAttempt(stage) <= MaxAttempts[stage]
       \/ state = "tts_queued" /\ ReworkAsked

\* Every command counts once (withCommand): an accepted id changed the job once and
\* a replay of it changes nothing, while the next command of a worker is no replay.
CommandsApplyOnce ==
  /\ version = Cardinality(events)
  /\ NextCommandIsNew

\* An attempt that is over stays as it ended: a late completion or failure of a
\* fenced worker rewrites no history.
AttemptsStand ==
  \A stage \in Stages, rev \in Revisions : \A n \in 1 .. Len(attempts[stage][rev]) :
    ~Running(stage, rev, n) => attempts'[stage][rev][n] = attempts[stage][rev][n]

\* A publication is never replaced, a sent message stays the one that was sent, and
\* nothing happens to a job that has ended.
ReleaseRecordStands ==
  /\ state \notin TerminalStates
  /\ publication /= None => publication' = publication
  /\ \A i \in DOMAIN deliveries :
       deliveries'[i] = [deliveries[i] EXCEPT !.status = deliveries'[i].status,
                                              !.outcome = deliveries'[i].outcome]

\* What is on record stays there, be it the output or failure of a worker that was
\* fenced or a status report that comes late (completeStage, failStage,
\* reconcileDelivery).
RecordsStand == [][AttemptsStand /\ ReleaseRecordStands]_jobVars

=============================================================================

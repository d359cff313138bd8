------------------------- MODULE OrchestratorProofs -------------------------
(***************************************************************************)
(* Theorems about Orchestrator, for any number of workers, pollers,        *)
(* crashes and clock delays: it drives its job by store commands alone,    *)
(* and it implements ReleaseContract.                                      *)
(*                                                                         *)
(* JobLifecycle bounds the instants of its commands by Times; the workers' *)
(* clock has no such bound, so the theorems are about Times = Nat.         *)
(***************************************************************************)
EXTENDS Orchestrator, JobReleaseProofs

-----------------------------------------------------------------------------
(* The inductive invariant                                                  *)

Pcs == {"idle", "expiring", "resuming", "preparing", "claiming", "committing", "failing"}
         \cup HandlingPcs

Context == [pc: Pcs, stage: Stages \cup {None}, rev: Revisions, n: Nat, at: Nat, expires: Nat,
            binding: Targets \cup {None}, digest: Digests \cup {None},
            result: Digests \cup Receipts \cup {None}, reason: Reasons \cup {None},
            retryable: BOOLEAN]

Effect == [key: Keys, rev: Revisions, digest: Digests, target: Targets \cup {None}, id: Messages]

WorldType ==
  /\ now \in Nat
  /\ worker \in [Workers -> Context]
  /\ poller \in [Pollers -> [message: Messages, outcome: DeliveryOutcomes] \cup {Resting}]
  /\ recipient \in Targets
  /\ effects \subseteq Effect
  /\ mail \in [Messages -> DeliveryOutcomes]

\* The claim a worker is about to make is the next of the job, under the target
\* that earlier attempts are bound to, or the store knows its id already.
ClaimInHand(context) ==
  LET log == attempts[context.stage][currentRevision] IN
  \/ <<"claim", context.stage, context.rev, context.n>> \in events
  \/ /\ state = QueuedState(context.stage)
     /\ context.rev = currentRevision
     /\ context.n = NextAttempt(context.stage)
     /\ context.stage = "deliver" /\ log /= <<>> =>
          context.pc = "claiming" /\ context.binding = Last(log).binding

\* The retry a worker is about to resume is the one waiting, or was resumed already.
ResumeInHand(context) ==
  \/ <<"resume", context.stage, context.expires>> \in events
  \/ state = "retry_wait" /\ ResumeId(retry) = <<"resume", context.stage, context.expires>>

\* A worker that acts for an attempt remembers its target, and what is released.
AttemptInHand(context) ==
  /\ context.n \in 1 .. Len(attempts[context.stage][context.rev])
  /\ context.binding = attempts[context.stage][context.rev][context.n].binding
  /\ context.digest = ReleaseDigest

\* A result to be committed is the receipt of an effect made under the attempt's
\* key, or the artifact set of a stage that has no effect outside.
ResultInHand(context) ==
  IF context.stage \in EffectStages
    THEN /\ AttemptInHand(context)
         /\ \E effect \in EffectsUnder(OwnKey(context)) : context.result = Receipt(effect)
    ELSE context.result \in Digests

InHand(context) ==
  /\ context.pc /= "idle" => context.stage \in Stages
  /\ context.pc \in {"preparing", "claiming"} => ClaimInHand(context)
  /\ context.pc = "resuming" => ResumeInHand(context)
  /\ context.pc = "handling" => context.stage \notin EffectStages
  /\ context.pc \in {"reconciling", "resolving", "acting"} =>
       context.stage \in EffectStages /\ AttemptInHand(context)
  /\ context.pc = "committing" => ResultInHand(context)
  /\ context.pc = "failing" => context.reason \in Reasons

WorkersInHand == \A w \in Workers : InHand(worker[w])

\* Attempts to publish are bound to nobody, attempts to deliver to one target.
OneBinding ==
  \A stage \in EffectStages, rev \in Revisions : \A n \in 1 .. Len(attempts[stage][rev]) :
    attempts[stage][rev][n].binding = IF stage = "publish" THEN None
                                                           ELSE attempts[stage][rev][1].binding

\* An effect outside is of an attempt of the job, and is what the job releases,
\* under the first key of its stage; a key has one effect.
EffectOfRelease(effect) ==
  LET stage == effect.key.stage IN
  /\ stage \in EffectStages
  /\ effect.key = [rev |-> currentRevision, stage |-> stage, op |-> 1]
  /\ attempts[stage][currentRevision] /= <<>>
  /\ effect.rev = currentRevision
  /\ effect.digest = ReleaseDigest
  /\ effect.target = attempts[stage][currentRevision][1].binding

EffectsInOrder ==
  /\ \A effect \in effects : EffectOfRelease(effect)
  /\ \A effect, other \in effects : effect.key = other.key => effect = other

SentIsRecorded == state \in {"sent", "complete"} => deliveries /= <<>>

StatusesRead ==
  \A p \in Pollers : poller[p] /= Resting /\ poller[p].outcome = "delivered" =>
    mail[poller[p].message] = "delivered"

WorldInv ==
  /\ WorldType
  /\ WorkersInHand
  /\ OneBinding
  /\ EffectsInOrder
  /\ SentIsRecorded
  /\ StatusesRead
  /\ RecordsMatchProvider

-----------------------------------------------------------------------------
(* What a command leaves alone                                              *)

\* Ids are only ever added to the log.
LEMMA EventsGrow ==
  ASSUME TypeOK, NEW at \in Times, WorkerCommand(at) \/ CallerCommand(at)
  PROVE  events \subseteq events'
BY StepAccepts DEF Accept

\* A log of attempts only grows, and keeps the targets and operations in it.
LEMMA AttemptsAreKept ==
  ASSUME TypeOK, NEW at \in Times, WorkerCommand(at) \/ CallerCommand(at),
         NEW stage \in Stages, NEW rev \in Revisions
  PROVE  /\ Len(attempts[stage][rev]) \in Nat
         /\ Len(attempts'[stage][rev]) \in Nat
         /\ Len(attempts'[stage][rev]) >= Len(attempts[stage][rev])
         /\ \A n \in 1 .. Len(attempts[stage][rev]) :
              /\ attempts'[stage][rev][n].binding = attempts[stage][rev][n].binding
              /\ attempts'[stage][rev][n].op = attempts[stage][rev][n].op
<1>0. /\ Len(attempts[stage][rev]) \in Nat
      /\ \A n \in 1 .. Len(attempts[stage][rev]) : attempts[stage][rev][n] \in Attempt
  BY AttemptLogs
<1>1. CASE AttemptClaimed(at)
  <2>1. PICK s \in Stages : \E attempt : Appends(s, attempt)
    BY <1>1, ClaimAppends DEF AttemptClaimed
  <2>2. PICK attempt : Appends(s, attempt)
    BY <2>1
  <2>3. /\ Len(attempts'[stage][rev]) \in {Len(attempts[stage][rev]), Len(attempts[stage][rev]) + 1}
        /\ \A n \in 1 .. Len(attempts[stage][rev]) :
             attempts'[stage][rev][n] = attempts[stage][rev][n]
    BY <2>2, AppendsExtends
  <2> QED
    BY <1>0, <2>3
<1>2. CASE AttemptCloses(at)
  <2>1. PICK s, r, n, status : Closes(s, r, n, status)
    BY <1>2 DEF AttemptCloses, Closing
  <2>2. Len(attempts'[stage][rev]) = Len(attempts[stage][rev])
    BY <2>1 DEF Closes
  <2>3. ASSUME NEW m \in 1 .. Len(attempts[stage][rev])
        PROVE  /\ attempts'[stage][rev][m].binding = attempts[stage][rev][m].binding
               /\ attempts'[stage][rev][m].op = attempts[stage][rev][m].op
    BY <1>0, <2>1, CloseKeepsBinding, CloseKeepsOperation
  <2> QED
    BY <1>0, <2>2, <2>3
<1>3. CASE UNCHANGED attempts
  BY <1>0, <1>3
<1> QED
  BY <1>1, <1>2, <1>3, WorkerSteps, CallerSteps DEF RetryResumes, CallerActs

\* No caller's command is for a job that waits for a worker.
LEMMA CallersLeaveQueues ==
  ASSUME NEW at, CallerCommand(at)
  PROVE  state \notin QueuedStates \cup {"retry_wait"}
<1>1. {"absent", "awaiting_payment", "content_review_required", "narration_review_required",
       "published", "sent"} \cap (QueuedStates \cup {"retry_wait"}) = {}
  BY DEF QueuedStates, QueuedState, Stages
<1>2. state \in {"absent", "awaiting_payment", "content_review_required",
                 "narration_review_required", "published", "sent"}
  BY DEF CallerCommand, CreateJob, RecordPayment, RecordReviewDecision, CanDecide, ReviewState,
         QueueDelivery, ConfirmDelivery, ReconcileDelivery, CanSettleDelivery
<1> QED
  BY <1>1, <1>2

\* A waiting retry stays as it is until it is resumed under its own id.
LEMMA RetryWaits ==
  ASSUME TypeOK, OneLease, NEW at \in Times, WorkerCommand(at) \/ CallerCommand(at),
         state = "retry_wait"
  PROVE  ResumeId(retry) \in events'
<1>1. "retry_wait" \notin QueuedStates \cup RunningStates
  BY DEF QueuedStates, QueuedState, RunningStates, RunningState, Stages
<1>2. ~AttemptClaimed(at)
  BY <1>1, StageStates DEF AttemptClaimed, ClaimStage, CanClaim
<1>3. ~AttemptCloses(at)
  BY <1>1, NoneRunningOutside DEF AttemptCloses, Closing, HoldsLease, NoneRunning
<1> QED
  BY <1>2, <1>3, WorkerSteps, CallersLeaveQueues DEF RetryResumes, Accept

\* A queued stage stays queued until its next attempt is claimed under its own id.
LEMMA QueueWaits ==
  ASSUME TypeOK, OneLease, NEW at \in Times, WorkerCommand(at) \/ CallerCommand(at),
         NEW stage \in Stages, state = QueuedState(stage)
  PROVE  <<"claim", stage, currentRevision, NextAttempt(stage)>> \in events'
<1>1. state \in QueuedStates /\ state \notin RunningStates /\ state /= "retry_wait"
  BY StageStates DEF QueuedStates, QueuedState, Stages
<1>2. ~AttemptCloses(at)
  BY <1>1, NoneRunningOutside DEF AttemptCloses, Closing, HoldsLease, NoneRunning
<1>3. AttemptClaimed(at)
  BY <1>1, <1>2, WorkerSteps, CallersLeaveQueues DEF RetryResumes
<1>4. PICK claimed \in Stages, binding \in Targets \cup {None} :
        ClaimStage(claimed, currentRevision, NextAttempt(claimed), binding, at)
  BY <1>3 DEF AttemptClaimed
<1>5. claimed = stage
  BY <1>4, StageStates DEF ClaimStage, CanClaim
<1> QED
  BY <1>4, <1>5 DEF ClaimStage, Accept

\* Content, narration, approvals and revision change only before the release,
\* and not in a step that completes the job.
LEMMA JudgementSettles ==
  ASSUME TypeOK, OneLease, NEW at, WorkerCommand(at) \/ CallerCommand(at)
  PROVE  UNCHANGED Judgement \/ (~InRelease /\ state' /= "complete")
<1>1. ASSUME NEW stage \in Stages \ ReleaseStages, NEW rev, NEW n,
             CanCommit(stage, rev, n, at)
      PROVE  ~InRelease
  BY <1>1, StagesBeforeRelease DEF CanCommit
<1>2. {"prepare_review", "render_approved", "generate_tts"} \subseteq Stages \ ReleaseStages
  BY DEF Stages, ReleaseStages
<1>3. ASSUME NEW narrated, CreateJob(narrated, at)
      PROVE  ~InRelease /\ state' /= "complete"
  BY <1>3 DEF CreateJob, InRelease, InPublication, PastPublication
<1>4. ASSUME NEW call, NEW correlation, RecordPayment(call, correlation, at)
      PROVE  ~InRelease /\ state' /= "complete"
  BY <1>4 DEF RecordPayment, InRelease, InPublication, PastPublication
<1>5. ASSUME NEW call, NEW type, NEW rev, NEW outcome \in Outcomes, NEW digest,
             RecordReviewDecision(call, type, rev, outcome, digest, at)
      PROVE  ~InRelease /\ state' /= "complete"
  <2>1. state \in {"content_review_required", "narration_review_required"}
    BY <1>5 DEF RecordReviewDecision, CanDecide, ReviewState
  <2>2. StateAfterReview(type, outcome) /= "complete"
    BY DEF StateAfterReview, Outcomes, QueuedState
  <2> QED
    BY <1>5, <2>1, <2>2 DEF RecordReviewDecision, InRelease, InPublication, PastPublication
<1>6. ASSUME NEW rev, NEW n, NEW ordinal, NEW d, CompletePrepare(rev, n, ordinal, d, at)
      PROVE  ~InRelease /\ state' /= "complete"
  BY <1>1, <1>2, <1>6 DEF CompletePrepare, CanCompletePrepare
<1>7. ASSUME NEW rev, NEW n, NEW d, CompleteRender(rev, n, d, at)
      PROVE  ~InRelease /\ state' /= "complete"
  BY <1>1, <1>2, <1>7 DEF CompleteRender, CanCompleteRender
<1>8. ASSUME NEW rev, NEW n, NEW d, CompleteNarration(rev, n, d, at)
      PROVE  ~InRelease /\ state' /= "complete"
  BY <1>1, <1>2, <1>8 DEF CompleteNarration, CanCompleteNarration
<1>9. CASE CallerCommand(at)
  BY <1>3, <1>4, <1>5, <1>9 DEF CallerCommand, QueueDelivery, ConfirmDelivery,
     ReconcileDelivery, Judgement
<1>10. ASSUME NEW stage, NEW rev, NEW n, NEW binding, ClaimStage(stage, rev, n, binding, at)
       PROVE  UNCHANGED Judgement
  BY <1>10 DEF ClaimStage, Judgement
<1>11. ASSUME NEW rev, NEW n, NEW receipt,
              CompletePublish(rev, n, receipt, at) \/ CompleteDeliver(rev, n, receipt, at)
       PROVE  UNCHANGED Judgement
  BY <1>11 DEF CompletePublish, CompleteDeliver, Judgement
<1>12. ASSUME NEW id, NEW stage, NEW rev, NEW n, NEW reason, NEW retryable,
              FailStage(id, stage, rev, n, reason, retryable, at)
       PROVE  UNCHANGED Judgement
  BY <1>12 DEF FailStage, Judgement
<1>13. ASSUME NEW id, ResumeRetry(id, at)
       PROVE  UNCHANGED Judgement
  BY <1>13 DEF ResumeRetry, Judgement
<1>14. CASE WorkerCommand(at)
  BY <1>6, <1>7, <1>8, <1>10, <1>11, <1>12, <1>13, <1>14 DEF WorkerCommand
<1> QED
  BY <1>9, <1>14

\* A complete job stays complete.
LEMMA CompleteIsFinal ==
  ASSUME TypeOK, OneLease, NEW at \in Times, WorkerCommand(at) \/ CallerCommand(at)
  PROVE  state /= "complete"
<1>1. "complete" \notin QueuedStates \cup RunningStates
  BY DEF QueuedStates, QueuedState, RunningStates, RunningState, Stages
<1>2. ~AttemptClaimed(at) \/ state /= "complete"
  BY <1>1, StageStates DEF AttemptClaimed, ClaimStage, CanClaim
<1>3. ~AttemptCloses(at) \/ state /= "complete"
  BY <1>1, NoneRunningOutside DEF AttemptCloses, Closing, HoldsLease, NoneRunning
<1>4. CASE CallerCommand(at)
  BY <1>4 DEF CallerCommand, CreateJob, RecordPayment, RecordReviewDecision, CanDecide,
     ReviewState, QueueDelivery, ConfirmDelivery, ReconcileDelivery, CanSettleDelivery
<1> QED
  BY <1>2, <1>3, <1>4, WorkerSteps DEF RetryResumes

-----------------------------------------------------------------------------
(* Workers and callers issue store commands                                 *)

\* An attempt whose lease is held is in the job's log.
LEMMA HeldIsLogged ==
  ASSUME TypeOK, NEW stage \in Stages, NEW rev \in Revisions, NEW n, HoldsLease(stage, rev, n)
  PROVE  n \in DOMAIN attempts[stage][rev] /\ n \in 1 .. Len(attempts[stage][rev])
BY AttemptLogs DEF HoldsLease, Running

\* A failure, reported or found by the expired lease, is a command of the store.
LEMMA FailureIsCommand ==
  ASSUME Times = Nat, TypeOK, NEW stage \in Stages, NEW rev \in Revisions, NEW n, NEW at \in Nat,
         NEW id, NEW reason \in Reasons, NEW retryable \in BOOLEAN,
         \/ id = <<"fail", stage, rev, n, reason>>
         \/ id = <<"expire", stage, rev, n>> /\ reason = "lease_expired" /\ retryable = TRUE,
         FailStage(id, stage, rev, n, reason, retryable, at)
  PROVE  JobNext
<1>1. n \in DOMAIN attempts[stage][rev]
  BY HeldIsLogged DEF FailStage, CanFail
<1>2. WorkerCommand(at)
  BY <1>1 DEF WorkerCommand
<1> QED
  BY <1>2, CommandIsStep

\* So is what a worker commits.
LEMMA CompletionIsCommand ==
  ASSUME Times = Nat, TypeOK, NEW context \in Context, context.pc = "committing",
         context.stage \in EffectStages => context.result \in Receipts,
         context.stage \notin EffectStages => context.result \in Digests,
         Complete(context)
  PROVE  JobNext
<1>0. /\ context.rev \in Revisions /\ context.at \in Times
      /\ {"prepare_review", "render_approved", "generate_tts", "publish", "deliver"} = Stages
      /\ EffectStages = {"publish", "deliver"}
  BY DEF Context, Stages, EffectStages
<1>1. ASSUME NEW stage \in Stages, CanCommit(stage, context.rev, context.n, context.at)
      PROVE  context.n \in DOMAIN attempts[stage][context.rev]
  BY <1>0, <1>1, HeldIsLogged DEF CanCommit
<1>2. CASE context.stage = "prepare_review"
  <2>1. CompletePrepare(context.rev, context.n, currentRevision + 1, context.result, context.at)
    BY <1>0, <1>2 DEF Complete
  <2>2. currentRevision + 1 \in Revisions
    BY <2>1, PolicyAssumption DEF CompletePrepare, CanCompletePrepare, TypeOK, Revisions
  <2>3. CanCommit("prepare_review", context.rev, context.n, context.at)
    BY <2>1 DEF CompletePrepare, CanCompletePrepare
  <2>4. WorkerCommand(context.at)
    BY <1>0, <1>1, <1>2, <2>1, <2>2, <2>3 DEF WorkerCommand
  <2> QED
    BY <1>0, <2>4, CommandIsStep
<1>3. CASE context.stage = "render_approved"
  <2>1. CompleteRender(context.rev, context.n, context.result, context.at)
    BY <1>0, <1>3 DEF Complete
  <2>2. CanCommit("render_approved", context.rev, context.n, context.at)
    BY <2>1 DEF CompleteRender, CanCompleteRender
  <2>3. WorkerCommand(context.at)
    BY <1>0, <1>1, <1>3, <2>1, <2>2 DEF WorkerCommand
  <2> QED
    BY <1>0, <2>3, CommandIsStep
<1>4. CASE context.stage = "generate_tts"
  <2>1. CompleteNarration(context.rev, context.n, context.result, context.at)
    BY <1>0, <1>4 DEF Complete
  <2>2. CanCommit("generate_tts", context.rev, context.n, context.at)
    BY <2>1 DEF CompleteNarration, CanCompleteNarration
  <2>3. WorkerCommand(context.at)
    BY <1>0, <1>1, <1>4, <2>1, <2>2 DEF WorkerCommand
  <2> QED
    BY <1>0, <2>3, CommandIsStep
<1>5. CASE context.stage = "publish"
  <2>1. CompletePublish(context.rev, context.n, context.result, context.at)
    BY <1>0, <1>5 DEF Complete
  <2>2. CanCommit("publish", context.rev, context.n, context.at)
    BY <2>1 DEF CompletePublish, CanCompletePublish
  <2>3. WorkerCommand(context.at)
    BY <1>0, <1>1, <1>5, <2>1, <2>2 DEF WorkerCommand
  <2> QED
    BY <1>0, <2>3, CommandIsStep
<1>6. CASE context.stage = "deliver"
  <2>1. CompleteDeliver(context.rev, context.n, context.result, context.at)
    BY <1>0, <1>6 DEF Complete
  <2>2. CanCommit("deliver", context.rev, context.n, context.at)
    BY <2>1 DEF CompleteDeliver, CanCompleteDeliver
  <2>3. WorkerCommand(context.at)
    BY <1>0, <1>1, <1>6, <2>1, <2>2 DEF WorkerCommand
  <2> QED
    BY <1>0, <2>3, CommandIsStep
<1> QED
  BY <1>2, <1>3, <1>4, <1>5, <1>6 DEF Complete

\* What a worker is about to commit has the shape its stage records.
LEMMA ResultType ==
  ASSUME WorldType, NEW context \in Context, ResultInHand(context)
  PROVE  /\ context.stage \in EffectStages => context.result \in Receipts
         /\ context.stage \notin EffectStages => context.result \in Digests
<1>1. ASSUME NEW effect \in effects
      PROVE  Receipt(effect) \in Receipts
  <2>1. effect \in Effect
    BY DEF WorldType
  <2> QED
    BY <2>1 DEF Effect, Receipt, Receipts
<1> QED
  BY <1>1 DEF ResultInHand, EffectsUnder

\* Callers stamp their commands no later than the clock.
LEMMA StampsAreInstants == ASSUME TypeOK, WorldType PROVE Stamps \subseteq Nat
BY DEF Stamps, TypeOK, WorldType

\* A worker's claim is the next of its stage, its resume that of the waiting
\* retry: every step of the system is a store command on the job, or leaves it.
LEMMA StepsAreCommands ==
  ASSUME Times = Nat, IInv, WorldType, WorkersInHand, Next
  PROVE  JobNext \/ UNCHANGED jobVars
<1> USE DEF IInv
<1>1. ASSUME NEW w \in Workers, RunNext(w) \/ Crash(w)
      PROVE  JobNext \/ UNCHANGED jobVars
  <2> DEFINE context == worker[w]
  <2>0. /\ context \in Context /\ InHand(context)
        /\ context.rev \in Revisions /\ context.at \in Times /\ context.n \in Nat
        /\ context.retryable \in BOOLEAN /\ context.binding \in Targets \cup {None}
    BY DEF WorldType, WorkersInHand, Context
  <2>1. CASE Expire(w)
    <3>1. context.stage \in Stages
      BY <2>0, <2>1 DEF Expire, InHand
    <3>2. \/ UNCHANGED jobVars
          \/ FailStage(<<"expire", context.stage, context.rev, context.n>>, context.stage,
                       context.rev, context.n, "lease_expired", TRUE, context.at)
      BY <2>1 DEF Expire
    <3> QED
      BY <2>0, <3>1, <3>2, FailureIsCommand DEF Reasons
  <2>2. CASE FailAttempt(w)
    <3>1. context.stage \in Stages /\ context.reason \in Reasons
      BY <2>0, <2>2 DEF FailAttempt, InHand
    <3>2. \/ UNCHANGED jobVars
          \/ FailStage(<<"fail", context.stage, context.rev, context.n, context.reason>>,
                       context.stage, context.rev, context.n, context.reason,
                       context.retryable, context.at)
      BY <2>2 DEF FailAttempt
    <3> QED
      BY <2>0, <3>1, <3>2, FailureIsCommand
  <2>3. CASE Resume(w)
    <3> DEFINE id == <<"resume", context.stage, context.expires>>
    <3>1. context.pc = "resuming" /\ (UNCHANGED jobVars \/ ResumeRetry(id, context.at))
      BY <2>3 DEF Resume
    <3>2. ASSUME ResumeRetry(id, context.at)
          PROVE  JobNext
      <4>1. id \notin events /\ state = "retry_wait" /\ retry /= None
        BY <3>2, ConstantsAssumption DEF ResumeRetry, CanResume, Fresh, RetryAhead
      <4>2. id = ResumeId(retry)
        BY <2>0, <3>1, <4>1 DEF InHand, ResumeInHand
      <4> HIDE DEF id
      <4>3. WorkerCommand(context.at)
        BY <3>2, <4>1, <4>2 DEF WorkerCommand
      <4> QED
        BY <2>0, <4>3, CommandIsStep
    <3> QED
      BY <3>1, <3>2
  <2>4. CASE Claim(w)
    <3>1. /\ context.pc = "claiming"
          /\ \/ UNCHANGED jobVars
             \/ ClaimStage(context.stage, context.rev, context.n, context.binding, context.at)
      BY <2>4 DEF Claim
    <3>2. ASSUME ClaimStage(context.stage, context.rev, context.n, context.binding, context.at)
          PROVE  JobNext
      <4>1. <<"claim", context.stage, context.rev, context.n>> \notin events
        BY <3>2 DEF ClaimStage, CanClaim, Fresh
      <4>2. /\ context.stage \in Stages /\ context.rev = currentRevision
            /\ context.n = NextAttempt(context.stage)
        BY <2>0, <3>1, <4>1 DEF InHand, ClaimInHand
      <4>3. WorkerCommand(context.at)
        BY <2>0, <3>2, <4>2 DEF WorkerCommand
      <4> QED
        BY <2>0, <4>3, CommandIsStep
    <3> QED
      BY <3>1, <3>2
  <2>5. CASE CommitStage(w)
    <3>1. context.pc = "committing" /\ (UNCHANGED jobVars \/ Complete(context))
      BY <2>5 DEF CommitStage
    <3>2. /\ context.stage \in EffectStages => context.result \in Receipts
          /\ context.stage \notin EffectStages => context.result \in Digests
      BY <2>0, <3>1, ResultType DEF InHand
    <3> QED
      BY <2>0, <3>1, <3>2, CompletionIsCommand
  <2> QED
    BY <1>1, <2>1, <2>2, <2>3, <2>4, <2>5 DEF RunNext, Crash, PollExpired, PollRetry, PollQueued,
       PrepareDelivery, NoTarget, Produce, HandlerThrows, Reconcile, Resolve, Act
<1>2. CASE Caller
  <2>0. currentRevision \in Revisions /\ Stamps \subseteq Times
    BY StampsAreInstants DEF TypeOK
  <2>1. ASSUME CallerConfirms PROVE \E at \in Times : CallerCommand(at)
    <3>1. PICK call \in CallsToTry, effect \in effects, at \in Stamps :
            ConfirmDelivery(call, effect.id, at)
      BY <2>1 DEF CallerConfirms, EffectsOf
    <3>2. effect.id \in Messages
      BY DEF WorldType, Effect
    <3> QED
      BY <2>0, <3>1, <3>2 DEF CallerCommand
  <2>2. ASSUME CallerReviews PROVE \E at \in Times : CallerCommand(at)
    BY <2>0, <2>2 DEF CallerReviews, CallerCommand
  <2>3. ASSUME CallerCreates \/ CallerPays \/ CallerQueuesDelivery
        PROVE  \E at \in Times : CallerCommand(at)
    BY <2>0, <2>3 DEF CallerCreates, CallerPays, CallerQueuesDelivery, CallerCommand
  <2> QED
    BY <1>2, <2>1, <2>2, <2>3, CommandIsStep DEF Caller
<1>3. ASSUME NEW p \in Pollers, ReadStatus(p) \/ RecordStatus(p)
      PROVE  JobNext \/ UNCHANGED jobVars
  <2> DEFINE seen == poller[p]
  <2>0. Stamps \subseteq Times
    BY StampsAreInstants
  <2>1. CASE RecordStatus(p)
    <3>1. seen.message \in Messages /\ seen.outcome \in DeliveryOutcomes
      BY <2>1 DEF RecordStatus, WorldType
    <3>2. PICK call \in CallsToTry, at \in Stamps :
            ReconcileDelivery(call, seen.message, seen.outcome, at) \/ UNCHANGED jobVars
      BY <2>1 DEF RecordStatus
    <3> QED
      BY <2>0, <3>1, <3>2, CommandIsStep DEF CallerCommand
  <2> QED
    BY <1>3, <2>1 DEF ReadStatus
<1> QED
  BY <1>1, <1>2, <1>3 DEF Next, MailMoves, Retarget, Tick, Delay

-----------------------------------------------------------------------------
(* What a worker remembers while others act                                 *)

JobSteps == JobNext \/ UNCHANGED jobVars

\* The newest artifact set of the release is one, or null.
LEMMA ReleaseDigestType == ASSUME TypeOK PROVE ReleaseDigest \in Digests \cup {None}
<1>1. ASSUME NEW kind \in Kinds
      PROVE  LatestArtifactSet(kind) \in Digests \cup {None}
  <2> DEFINE sets == artifacts[kind][currentRevision]
  <2>1. sets \in Seq(Digests)
    BY DEF TypeOK
  <2>2. sets /= <<>> => sets[Len(sets)] \in Digests
    BY <2>1
  <2> QED
    BY <2>2 DEF LatestArtifactSet, Last
<1> QED
  BY <1>1 DEF ReleaseDigest, Kinds

\* From the first attempt to publish or deliver on, the release and its target
\* are what they are, and the attempt's operation is the first.
LEMMA ReleaseStands ==
  ASSUME IInv, ReleaseInv, JobSteps, NEW stage \in EffectStages, NEW rev \in Revisions,
         NEW n \in 1 .. Len(attempts[stage][rev])
  PROVE  /\ rev = currentRevision /\ UNCHANGED Judgement
         /\ ReleaseEligible /\ ReleaseEligible'
         /\ ReleaseDigest \in Digests /\ ReleaseDigest' = ReleaseDigest
         /\ n \in 1 .. Len(attempts'[stage][rev])
         /\ attempts'[stage][rev][n].binding = attempts[stage][rev][n].binding
         /\ attempts[stage][rev][n].op = 1 /\ attempts'[stage][rev][n].op = 1
<1> USE DEF IInv
<1>0. stage \in Stages /\ stage \in ReleaseStages
  BY DEF EffectStages, ReleaseStages, Stages
<1>1. /\ rev = currentRevision /\ ReleaseEligible /\ InRelease
      /\ attempts[stage][rev][n].op = 1
  BY DEF ReleaseInv, PublishAttempts, DeliverAttempts, EffectStages
<1>2. ReleaseDigest \in Digests
  BY <1>1, ReleaseDigestType, EligibleIsApproved
<1>3. CASE UNCHANGED jobVars
  BY <1>1, <1>2, <1>3, EligibilityKept DEF jobVars, Judgement
<1>4. CASE JobNext
  <2>1. PICK at \in Times : WorkerCommand(at) \/ CallerCommand(at)
    BY <1>4 DEF JobNext
  <2>2. UNCHANGED Judgement
    BY <1>1, <2>1, JudgementSettles
  <2>3. /\ n \in 1 .. Len(attempts'[stage][rev])
        /\ attempts'[stage][rev][n].binding = attempts[stage][rev][n].binding
        /\ attempts'[stage][rev][n].op = attempts[stage][rev][n].op
    BY <1>0, <2>1, AttemptsAreKept
  <2> QED
    BY <1>1, <1>2, <2>2, <2>3, EligibilityKept
<1> QED
  BY <1>3, <1>4 DEF JobSteps

\* Ids stay in the log, whatever happens.
LEMMA LogGrows ==
  ASSUME IInv, JobSteps
  PROVE  events \subseteq events'
BY EventsGrow DEF IInv, JobSteps, JobNext, jobVars

\* A claim in hand stays the next of its stage, or its id is used.
LEMMA ClaimStays ==
  ASSUME IInv, JobSteps, NEW w, UNCHANGED worker[w], worker[w].stage \in Stages,
         ClaimInHand(worker[w])
  PROVE  ClaimInHand(worker[w])'
<1>1. CASE <<"claim", worker[w].stage, worker[w].rev, worker[w].n>> \in events
  BY <1>1, LogGrows DEF ClaimInHand
<1>2. CASE UNCHANGED jobVars
  BY <1>2 DEF ClaimInHand, jobVars, NextAttempt
<1>3. ASSUME <<"claim", worker[w].stage, worker[w].rev, worker[w].n>> \notin events, JobNext
      PROVE  ClaimInHand(worker[w])'
  <2>1. /\ state = QueuedState(worker[w].stage) /\ worker[w].rev = currentRevision
        /\ worker[w].n = NextAttempt(worker[w].stage)
    BY <1>3 DEF ClaimInHand
  <2>2. <<"claim", worker[w].stage, worker[w].rev, worker[w].n>> \in events'
    BY <1>3, <2>1, QueueWaits DEF IInv, JobNext
  <2> QED
    BY <2>2 DEF ClaimInHand
<1> QED
  BY <1>1, <1>2, <1>3 DEF JobSteps

\* A resume in hand stays the waiting retry's, or its id is used.
LEMMA ResumeStays ==
  ASSUME IInv, JobSteps, NEW w, UNCHANGED worker[w], ResumeInHand(worker[w])
  PROVE  ResumeInHand(worker[w])'
<1>1. CASE <<"resume", worker[w].stage, worker[w].expires>> \in events
  BY <1>1, LogGrows DEF ResumeInHand
<1>2. CASE UNCHANGED jobVars
  BY <1>2 DEF ResumeInHand, jobVars, ResumeId
<1>3. ASSUME <<"resume", worker[w].stage, worker[w].expires>> \notin events, JobNext
      PROVE  ResumeInHand(worker[w])'
  <2>1. state = "retry_wait" /\ ResumeId(retry) = <<"resume", worker[w].stage, worker[w].expires>>
    BY <1>3 DEF ResumeInHand
  <2>2. ResumeId(retry) \in events'
    BY <1>3, <2>1, RetryWaits DEF IInv, JobNext
  <2> QED
    BY <2>1, <2>2 DEF ResumeInHand
<1> QED
  BY <1>1, <1>2, <1>3 DEF JobSteps

\* An attempt in hand keeps its target, its key and what it releases.
LEMMA AttemptStays ==
  ASSUME IInv, ReleaseInv, JobSteps, NEW w, UNCHANGED worker[w], worker[w].rev \in Revisions,
         worker[w].stage \in EffectStages, AttemptInHand(worker[w])
  PROVE  AttemptInHand(worker[w])' /\ OwnKey(worker[w])' = OwnKey(worker[w])
<1> DEFINE stage == worker[w].stage
           rev == worker[w].rev
           n == worker[w].n
<1>1. /\ n \in 1 .. Len(attempts[stage][rev])
      /\ worker[w].binding = attempts[stage][rev][n].binding
      /\ worker[w].digest = ReleaseDigest
  BY DEF AttemptInHand
<1>2. /\ n \in 1 .. Len(attempts'[stage][rev])
      /\ attempts'[stage][rev][n].binding = attempts[stage][rev][n].binding
      /\ ReleaseDigest' = ReleaseDigest
      /\ attempts'[stage][rev][n].op = attempts[stage][rev][n].op
  <2>1. stage \in EffectStages /\ rev \in Revisions
    OBVIOUS
  <2> HIDE DEF stage, rev, n
  <2> QED
    BY <1>1, <2>1, ReleaseStands
<1> QED
  BY <1>1, <1>2 DEF AttemptInHand, OwnKey, KeyOf

\* And its receipt is still that of an effect the provider holds.
LEMMA ResultStays ==
  ASSUME IInv, ReleaseInv, JobSteps, effects \subseteq effects', NEW w, UNCHANGED worker[w],
         worker[w].rev \in Revisions, ResultInHand(worker[w])
  PROVE  ResultInHand(worker[w])'
BY AttemptStays DEF ResultInHand, EffectsUnder, Receipt

\* Whatever the others do, a worker's memory stays what it was of use for.
LEMMA ContextStays ==
  ASSUME IInv, ReleaseInv, WorldType, JobSteps, effects \subseteq effects',
         NEW w \in Workers, UNCHANGED worker[w], InHand(worker[w])
  PROVE  InHand(worker[w])'
<1>1. worker[w].rev \in Revisions
  BY DEF WorldType, Context
<1>2. worker[w].pc \in {"preparing", "claiming"} => ClaimInHand(worker[w])'
  BY ClaimStays DEF InHand
<1>3. worker[w].pc = "resuming" => ResumeInHand(worker[w])'
  BY ResumeStays DEF InHand
<1>4. worker[w].pc \in {"reconciling", "resolving", "acting"} => AttemptInHand(worker[w])'
  BY <1>1, AttemptStays DEF InHand
<1>5. worker[w].pc = "committing" => ResultInHand(worker[w])'
  BY <1>1, ResultStays DEF InHand
<1> QED
  BY <1>2, <1>3, <1>4, <1>5 DEF InHand

-----------------------------------------------------------------------------
(* What a worker's own step leaves it with                                  *)

\* A worker that moves on changes its own memory only.
LEMMA GotoMoves ==
  ASSUME WorldType, NEW w \in Workers, NEW context \in Context, Goto(w, context)
  PROVE  /\ worker' \in [Workers -> Context]
         /\ worker'[w] = context
         /\ \A v \in Workers \ {w} : UNCHANGED worker[v]
BY DEF Goto, WorldType

\* A worker at rest remembers nothing.
LEMMA IdleContext == Idle \in Context /\ Idle.pc = "idle"
BY RevisionsAreNaturals DEF Idle, Context, Pcs

\* A failing worker knows the attempt it failed and a reason to report.
LEMMA FailingContext ==
  ASSUME NEW context \in Context, now \in Nat, context.stage \in Stages,
         NEW retryable \in BOOLEAN
  PROVE  /\ Failing(context, retryable) \in Context
         /\ Failing(context, retryable).pc = "failing"
         /\ Failing(context, retryable).stage = context.stage
         /\ Failing(context, retryable).reason \in Reasons
<1>1. (now >= context.expires \/ retryable) \in BOOLEAN
  OBVIOUS
<1>2. (IF now >= context.expires THEN "lease_expired" ELSE "stage_error") \in Reasons
  BY DEF Reasons
<1> QED
  BY <1>1, <1>2 DEF Failing, Context, Pcs

\* A handler's output is in the worker's hand, for the attempt it was made for,
\* or came too late.
LEMMA ReturnedContext ==
  ASSUME NEW context \in Context, now \in Nat, context.stage \in Stages,
         NEW result \in Digests \cup Receipts
  PROVE  LET next == Returned(context, result) IN
         /\ next \in Context
         /\ next.stage = context.stage
         /\ \/ next.pc = "failing" /\ next.reason \in Reasons
            \/ /\ next.pc = "committing" /\ next.result = result
               /\ next.rev = context.rev /\ next.n = context.n
               /\ next.binding = context.binding /\ next.digest = context.digest
<1>1. CASE now >= context.expires
  BY <1>1, FailingContext DEF Returned
<1>2. CASE ~(now >= context.expires)
  <2> DEFINE next == [context EXCEPT !.pc = "committing", !.at = now, !.result = result]
  <2>1. /\ next \in Context /\ next.stage = context.stage
        /\ next.pc = "committing" /\ next.result = result
        /\ next.rev = context.rev /\ next.n = context.n
        /\ next.binding = context.binding /\ next.digest = context.digest
    BY DEF Context, Pcs
  <2>2. Returned(context, result) = next
    BY <1>2 DEF Returned
  <2> HIDE DEF next
  <2> QED
    BY <2>1, <2>2
<1> QED
  BY <1>1, <1>2

\* The target of the newest attempt is one, or null.
LEMMA PriorBindingType ==
  ASSUME TypeOK, NEW stage \in Stages
  PROVE  PriorBinding(stage) \in Targets \cup {None}
<1> DEFINE log == attempts[stage][currentRevision]
<1>1. log \in Seq(Attempt)
  BY AttemptLogs DEF TypeOK
<1>2. log /= <<>> => log[Len(log)] \in Attempt
  <2> HIDE DEF log
  <2> QED
    BY <1>1
<1> QED
  BY <1>2 DEF PriorBinding, Last, Attempt

\* A worker that saw a stage queued is about to make its next claim.
LEMMA ClaimingContext ==
  ASSUME IInv, WorldType, NEW stage \in Stages
  PROVE  /\ Claiming(stage) \in Context
         /\ Claiming(stage).stage = stage
         /\ Claiming(stage).rev = currentRevision
         /\ Claiming(stage).n = NextAttempt(stage)
         /\ Claiming(stage).binding = PriorBinding(stage)
         /\ Claiming(stage).pc \in {"preparing", "claiming"}
         /\ stage = "deliver" /\ attempts[stage][currentRevision] /= <<>> =>
              /\ Claiming(stage).pc = "claiming"
              /\ Claiming(stage).binding = Last(attempts[stage][currentRevision]).binding
<1> DEFINE log == attempts[stage][currentRevision]
           pc == IF stage = "deliver" /\ PriorBinding(stage) = None
                   THEN "preparing" ELSE "claiming"
<1>1. /\ now \in Nat /\ currentRevision \in Revisions /\ NextAttempt(stage) \in Nat
      /\ pc \in Pcs /\ PriorBinding(stage) \in Targets \cup {None}
  BY AttemptLogs, PriorBindingType DEF IInv, TypeOK, WorldType, NextAttempt, Pcs
<1>2. ASSUME stage = "deliver", log /= <<>>
      PROVE  PriorBinding(stage) = Last(log).binding /\ Last(log).binding /= None
  <2>1. currentRevision \in Revisions
    BY DEF IInv, TypeOK
  <2>2. log \in Seq(Attempt)
    BY <2>1, AttemptLogs DEF IInv
  <2>3. Len(log) \in 1 .. Len(log)
    BY <1>2, <2>2
  <2>4. log[Len(log)].binding \in Targets
    BY <1>2, <2>1, <2>3 DEF IInv, DeliveriesBound
  <2> QED
    BY <1>2, <2>4, ConstantsAssumption DEF PriorBinding, Last
<1> DEFINE next == [Idle EXCEPT !.pc = pc, !.stage = stage, !.rev = currentRevision,
                      !.n = NextAttempt(stage), !.at = now, !.binding = PriorBinding(stage)]
<1>3. Claiming(stage) = next
  BY DEF Claiming
<1>4. /\ next \in Context /\ next.stage = stage /\ next.rev = currentRevision
      /\ next.n = NextAttempt(stage) /\ next.binding = PriorBinding(stage) /\ next.pc = pc
  <2> HIDE DEF pc
  <2> QED
    BY <1>1, IdleContext DEF Idle, Context
<1> HIDE DEF next
<1> QED
  BY <1>2, <1>3, <1>4

\* A worker whose claim was accepted handles its stage, asks the provider, or
\* gives up a delivery of what is not published.
LEMMA ClaimedContext ==
  ASSUME TypeOK, now \in Nat, NEW context \in Context, context.at \in Nat,
         context.stage \in Stages
  PROVE  LET next == Claimed(context) IN
         /\ next \in Context
         /\ next.stage = context.stage
         /\ \/ next.pc = "failing" /\ next.reason \in Reasons
            \/ next.pc = "handling" /\ context.stage \notin EffectStages
            \/ /\ next.pc = "reconciling" /\ context.stage \in EffectStages
               /\ next.rev = context.rev /\ next.n = context.n
               /\ next.binding = context.binding /\ next.digest = ReleaseDigest
<1> DEFINE expires == context.at + LeaseMs[context.stage]
           started == [context EXCEPT !.expires = expires, !.digest = ReleaseDigest]
<1>1. expires \in Nat /\ ReleaseDigest \in Digests \cup {None}
  BY PolicyAssumption, ReleaseDigestType
<1> HIDE DEF expires
<1>2. /\ started \in Context /\ started.stage = context.stage /\ started.rev = context.rev
      /\ started.n = context.n /\ started.binding = context.binding
      /\ started.digest = ReleaseDigest
  BY <1>1 DEF Context
<1>3. CASE context.stage \notin EffectStages
  <2> DEFINE next == [started EXCEPT !.pc = "handling", !.digest = None]
  <2>1. Claimed(context) = next
    BY <1>3 DEF Claimed, expires
  <2>2. next \in Context /\ next.stage = context.stage /\ next.pc = "handling"
    <3> HIDE DEF started
    <3> QED
      BY <1>2 DEF Context, Pcs, HandlingPcs
  <2> HIDE DEF next
  <2> QED
    BY <1>3, <2>1, <2>2
<1>4. CASE /\ context.stage \in EffectStages
           /\ context.stage = "deliver" /\ publication.digest /= ReleaseDigest
  <2>1. Claimed(context) = Failing(started, FALSE)
    BY <1>4 DEF Claimed, expires
  <2> HIDE DEF started
  <2> QED
    BY <1>2, <2>1, FailingContext
<1>5. CASE /\ context.stage \in EffectStages
           /\ ~(context.stage = "deliver" /\ publication.digest /= ReleaseDigest)
  <2> DEFINE next == [started EXCEPT !.pc = "reconciling"]
  <2>1. Claimed(context) = next
    BY <1>5 DEF Claimed, expires
  <2>2. /\ next \in Context /\ next.stage = context.stage /\ next.pc = "reconciling"
        /\ next.rev = context.rev /\ next.n = context.n
        /\ next.binding = context.binding /\ next.digest = ReleaseDigest
    <3> HIDE DEF started
    <3> QED
      BY <1>2 DEF Context, Pcs, HandlingPcs
  <2> HIDE DEF next
  <2> QED
    BY <1>5, <2>1, <2>2
<1> QED
  BY <1>3, <1>4, <1>5

\* A step of w changes no other worker's memory, and leaves w with a use for its own.
Moved(w) ==
  /\ worker' \in [Workers -> Context]
  /\ \A v \in Workers \ {w} : UNCHANGED worker[v]
  /\ InHand(worker[w])'

\* A worker may stop.
LEMMA MovesToIdle ==
  ASSUME WorldType, NEW w \in Workers, Goto(w, Idle)
  PROVE  Moved(w)
BY GotoMoves, IdleContext DEF Moved, InHand

\* A worker that has an attempt may fail it.
LEMMA MovesToFailing ==
  ASSUME WorldType, NEW w \in Workers, worker[w].stage \in Stages, NEW retryable \in BOOLEAN,
         Goto(w, Failing(worker[w], retryable))
  PROVE  Moved(w)
<1> DEFINE next == Failing(worker[w], retryable)
<1>1. /\ next \in Context /\ next.pc = "failing" /\ next.stage \in Stages
      /\ next.reason \in Reasons
  BY FailingContext DEF WorldType
<1> HIDE DEF next
<1>2. worker' \in [Workers -> Context] /\ worker'[w] = next /\ \A v \in Workers \ {w} : UNCHANGED worker[v]
  BY <1>1, GotoMoves DEF next
<1> QED
  BY <1>1, <1>2 DEF Moved, InHand

\* A worker that finds a stage queued prepares to claim it.
LEMMA MovesToClaiming ==
  ASSUME IInv, WorldType, NEW w \in Workers, NEW stage \in Stages, Goto(w, Claiming(stage)),
         state' = QueuedState(stage), UNCHANGED <<currentRevision, attempts>>
  PROVE  Moved(w)
<1> DEFINE next == Claiming(stage)
<1>1. /\ next \in Context /\ next.stage = stage /\ next.rev = currentRevision
      /\ next.n = NextAttempt(stage) /\ next.pc \in {"preparing", "claiming"}
      /\ stage = "deliver" /\ attempts[stage][currentRevision] /= <<>> =>
           /\ next.pc = "claiming"
           /\ next.binding = Last(attempts[stage][currentRevision]).binding
  BY ClaimingContext
<1> HIDE DEF next
<1>2. worker' \in [Workers -> Context] /\ worker'[w] = next /\ \A v \in Workers \ {w} : UNCHANGED worker[v]
  BY <1>1, GotoMoves DEF next
<1>3. ClaimInHand(worker[w])'
  BY <1>1, <1>2 DEF ClaimInHand, NextAttempt, Last
<1> QED
  BY <1>1, <1>2, <1>3 DEF Moved, InHand

\* A handler without an effect outside hands its artifact set over.
LEMMA MovesToProduct ==
  ASSUME WorldType, NEW w \in Workers, worker[w].stage \in Stages \ EffectStages,
         NEW digest \in Digests, Goto(w, Returned(worker[w], digest))
  PROVE  Moved(w)
<1> DEFINE next == Returned(worker[w], digest)
<1>1. /\ next \in Context /\ next.stage = worker[w].stage
      /\ \/ next.pc = "failing" /\ next.reason \in Reasons
         \/ next.pc = "committing" /\ next.result = digest
  BY ReturnedContext DEF WorldType
<1> HIDE DEF next
<1>2. worker' \in [Workers -> Context] /\ worker'[w] = next /\ \A v \in Workers \ {w} : UNCHANGED worker[v]
  BY <1>1, GotoMoves DEF next
<1> QED
  BY <1>1, <1>2 DEF Moved, InHand, ResultInHand

\* An effect handler hands the receipt over, of an effect under its own key.
LEMMA MovesToReceipt ==
  ASSUME WorldType, UNCHANGED jobVars, NEW w \in Workers, worker[w].stage \in Stages,
         worker[w].stage \in EffectStages, AttemptInHand(worker[w]),
         NEW effect \in Effect, effect \in effects', effect.key = OwnKey(worker[w]),
         Goto(w, Accepted(worker[w], effect))
  PROVE  Moved(w)
<1> DEFINE next == Returned(worker[w], Receipt(effect))
<1>0. Receipt(effect) \in Receipts
  BY DEF Effect, Receipt, Receipts
<1>1. CASE Goto(w, next)
  <2>1. /\ next \in Context /\ next.stage = worker[w].stage
        /\ \/ next.pc = "failing" /\ next.reason \in Reasons
           \/ /\ next.pc = "committing" /\ next.result = Receipt(effect)
              /\ next.rev = worker[w].rev /\ next.n = worker[w].n
              /\ next.binding = worker[w].binding /\ next.digest = worker[w].digest
    BY <1>0, ReturnedContext DEF WorldType
  <2> HIDE DEF next
  <2>2. worker' \in [Workers -> Context] /\ worker'[w] = next
          /\ \A v \in Workers \ {w} : UNCHANGED worker[v]
    BY <1>1, <2>1, GotoMoves
  <2>3. ReleaseDigest' = ReleaseDigest /\ attempts' = attempts
    BY EligibilityKept DEF jobVars, Judgement
  <2>4. ASSUME next.pc = "committing"
        PROVE  ResultInHand(worker[w])'
    <3>1. AttemptInHand(worker[w])'
      BY <2>1, <2>2, <2>3, <2>4 DEF AttemptInHand
    <3>2. effect.key = OwnKey(worker[w])'
      BY <2>1, <2>2, <2>3, <2>4 DEF OwnKey, KeyOf
    <3>3. worker'[w].result = Receipt(effect) /\ worker'[w].stage \in EffectStages
      BY <2>1, <2>2, <2>4
    <3> QED
      BY <3>1, <3>2, <3>3 DEF ResultInHand, EffectsUnder, Receipt
  <2> QED
    BY <2>1, <2>2, <2>4 DEF Moved, InHand
<1>2. CASE Goto(w, Failing(worker[w], FALSE))
  BY <1>2, MovesToFailing
<1> QED
  BY <1>1, <1>2 DEF Accepted

\* Looking at the job leaves a worker with what it saw.
LEMMA PollsMove ==
  ASSUME IInv, WorldType, NEW w \in Workers, PollExpired(w) \/ PollRetry(w) \/ PollQueued(w)
  PROVE  Moved(w)
<1>1. CASE PollExpired(w)
  <2>1. PICK stage \in Stages, rev \in Revisions : \E n \in DOMAIN attempts[stage][rev] :
          Goto(w, [Idle EXCEPT !.pc = "expiring", !.stage = stage, !.rev = rev,
                               !.n = n, !.at = now])
    BY <1>1 DEF PollExpired
  <2>2. PICK n \in 1 .. Len(attempts[stage][rev]) :
          Goto(w, [Idle EXCEPT !.pc = "expiring", !.stage = stage, !.rev = rev,
                               !.n = n, !.at = now])
    BY <2>1, AttemptLogs DEF IInv
  <2> DEFINE next == [Idle EXCEPT !.pc = "expiring", !.stage = stage, !.rev = rev,
                                  !.n = n, !.at = now]
  <2>3. next \in Context /\ next.pc = "expiring" /\ next.stage = stage
    <3>1. n \in Nat /\ now \in Nat
      BY AttemptLogs DEF IInv, WorldType
    <3> QED
      BY <3>1, IdleContext DEF Context, Pcs, Idle
  <2> HIDE DEF next
  <2>4. worker' \in [Workers -> Context] /\ worker'[w] = next
          /\ \A v \in Workers \ {w} : UNCHANGED worker[v]
    BY <2>2, <2>3, GotoMoves DEF next
  <2> QED
    BY <2>3, <2>4 DEF Moved, InHand
<1>2. CASE PollRetry(w)
  <2> DEFINE next == [Idle EXCEPT !.pc = "resuming", !.stage = retry.stage,
                                  !.expires = retry.availableAt, !.at = now]
  <2>1. Goto(w, next) /\ state = "retry_wait" /\ UNCHANGED jobVars
    BY <1>2 DEF PollRetry
  <2>2. retry.stage \in Stages /\ retry.availableAt \in Nat
    BY <2>1 DEF IInv, RetryAhead
  <2>3. /\ next \in Context /\ next.pc = "resuming" /\ next.stage = retry.stage
        /\ next.expires = retry.availableAt
    BY <2>2, IdleContext DEF WorldType, Context, Pcs, Idle
  <2> HIDE DEF next
  <2>4. worker' \in [Workers -> Context] /\ worker'[w] = next
          /\ \A v \in Workers \ {w} : UNCHANGED worker[v]
    BY <2>1, <2>3, GotoMoves
  <2>5. ResumeInHand(worker[w])'
    BY <2>1, <2>3, <2>4 DEF ResumeInHand, ResumeId, jobVars
  <2> QED
    BY <2>2, <2>3, <2>4, <2>5 DEF Moved, InHand
<1>3. CASE PollQueued(w)
  <2>1. PICK stage \in Stages : state = QueuedState(stage) /\ Goto(w, Claiming(stage))
    BY <1>3 DEF PollQueued
  <2> QED
    BY <1>3, <2>1, MovesToClaiming DEF PollQueued, jobVars
<1> QED
  BY <1>1, <1>2, <1>3

\* A worker that resumed a retry, or finds it resumed, goes on to its stage.
LEMMA ResumeMoves ==
  ASSUME IInv, WorldType, NEW w \in Workers, Resume(w)
  PROVE  Moved(w)
<1> DEFINE context == worker[w]
           id == <<"resume", context.stage, context.expires>>
<1>1. CASE Goto(w, Idle)
  BY <1>1, MovesToIdle
<1>2. CASE ResumeRetry(id, context.at) /\ Goto(w, Claiming(retry.stage))
  <2>1. /\ retry.stage \in Stages /\ state' = QueuedState(retry.stage)
        /\ UNCHANGED <<currentRevision, attempts>>
    BY <1>2 DEF ResumeRetry, CanResume, IInv, RetryAhead
  <2> QED
    BY <1>2, <2>1, MovesToClaiming
<1>3. ASSUME NEW stage \in Stages, state = QueuedState(stage), Goto(w, Claiming(stage)),
             UNCHANGED jobVars
      PROVE  Moved(w)
  BY <1>3, MovesToClaiming DEF jobVars
<1> QED
  BY <1>1, <1>2, <1>3 DEF Resume

\* Resolving the recipient of a first delivery keeps the claim in hand.
LEMMA PrepareMoves ==
  ASSUME IInv, WorldType, NEW w \in Workers, InHand(worker[w]), PrepareDelivery(w)
  PROVE  Moved(w)
<1> DEFINE next == [worker[w] EXCEPT !.pc = "claiming", !.binding = recipient, !.at = now]
<1>1. /\ Goto(w, next) /\ worker[w].pc = "preparing" /\ worker[w] \in Context
      /\ UNCHANGED jobVars
  BY DEF PrepareDelivery, WorldType
<1>2. /\ next \in Context /\ next.pc = "claiming" /\ next.stage = worker[w].stage
      /\ next.rev = worker[w].rev /\ next.n = worker[w].n
  BY <1>1 DEF WorldType, Context, Pcs
<1> HIDE DEF next
<1>3. worker' \in [Workers -> Context] /\ worker'[w] = next
        /\ \A v \in Workers \ {w} : UNCHANGED worker[v]
  BY <1>1, <1>2, GotoMoves
<1>4. ClaimInHand(worker[w]) /\ worker[w].stage \in Stages
  BY <1>1 DEF InHand
<1>5. ClaimInHand(worker[w])'
  <2>1. CASE <<"claim", worker[w].stage, worker[w].rev, worker[w].n>> \in events
    BY <1>1, <1>2, <1>3, <2>1 DEF ClaimInHand, jobVars
  <2>2. CASE <<"claim", worker[w].stage, worker[w].rev, worker[w].n>> \notin events
    <3>1. /\ state = QueuedState(worker[w].stage) /\ worker[w].rev = currentRevision
          /\ worker[w].n = NextAttempt(worker[w].stage)
          /\ ~(worker[w].stage = "deliver" /\ attempts["deliver"][currentRevision] /= <<>>)
      BY <1>1, <1>4, <2>2 DEF ClaimInHand
    <3> QED
      BY <1>1, <1>2, <1>3, <3>1 DEF ClaimInHand, jobVars, NextAttempt
  <2> QED
    BY <2>1, <2>2
<1> QED
  BY <1>2, <1>3, <1>4, <1>5 DEF Moved, InHand

\* An accepted claim puts the new attempt in the worker's hand.
LEMMA ClaimMoves ==
  ASSUME IInv, WorldType, NEW w \in Workers, InHand(worker[w]), Claim(w)
  PROVE  Moved(w)
<1> DEFINE context == worker[w]
<1>0. context \in Context /\ context.at \in Nat
  BY DEF WorldType, Context
<1>1. CASE Goto(w, Idle)
  BY <1>1, MovesToIdle
<1>2. CASE /\ ClaimStage(context.stage, context.rev, context.n, context.binding, context.at)
           /\ Goto(w, Claimed(context))
  <2> DEFINE next == Claimed(context)
             stage == context.stage
             attempt == [op |-> NextOperation(stage), binding |-> context.binding,
                         status |-> "running", expires |-> context.at + LeaseMs[stage]]
  <2>1. <<"claim", context.stage, context.rev, context.n>> \notin events
    BY <1>2 DEF ClaimStage, CanClaim, Fresh
  <2>2. context.stage \in Stages /\ context.rev = currentRevision /\ context.n = NextAttempt(stage)
    BY <2>1 DEF Claim, InHand, ClaimInHand
  <2>3. /\ next \in Context /\ next.stage = context.stage
        /\ \/ next.pc = "failing" /\ next.reason \in Reasons
           \/ next.pc = "handling" /\ context.stage \notin EffectStages
           \/ /\ next.pc = "reconciling" /\ context.stage \in EffectStages
              /\ next.rev = context.rev /\ next.n = context.n
              /\ next.binding = context.binding /\ next.digest = ReleaseDigest
    BY <1>0, <2>2, ClaimedContext DEF IInv, WorldType
  <2> HIDE DEF next
  <2>4. worker' \in [Workers -> Context] /\ worker'[w] = next
          /\ \A v \in Workers \ {w} : UNCHANGED worker[v]
    BY <1>2, <2>3, GotoMoves DEF next
  <2>5. ASSUME next.pc = "reconciling"
        PROVE  AttemptInHand(worker[w])'
    <3>1. Appends(stage, attempt)
      BY <1>2, <2>2, ClaimAppends DEF IInv
    <3>2. currentRevision \in Revisions
      BY DEF IInv, TypeOK
    <3>3. attempt.binding = context.binding
      OBVIOUS
    <3> HIDE DEF attempt
    <3>4. /\ Len(attempts[stage][currentRevision]) \in Nat
          /\ Len(attempts'[stage][currentRevision]) = Len(attempts[stage][currentRevision]) + 1
          /\ attempts'[stage][currentRevision][Len(attempts[stage][currentRevision]) + 1] = attempt
      BY <2>2, <3>1, <3>2, AppendsExtends DEF IInv
    <3>5. ReleaseDigest' = ReleaseDigest
      BY <1>2, EligibilityKept DEF ClaimStage, Judgement
    <3>6. /\ worker'[w].n = Len(attempts[stage][currentRevision]) + 1
          /\ worker'[w].stage = stage /\ worker'[w].rev = currentRevision
          /\ worker'[w].binding = context.binding /\ worker'[w].digest = ReleaseDigest
      BY <2>2, <2>3, <2>4, <2>5 DEF NextAttempt
    <3> HIDE DEF stage, context
    <3> QED
      BY <3>3, <3>4, <3>5, <3>6 DEF AttemptInHand
  <2> QED
    BY <2>2, <2>3, <2>4, <2>5 DEF Moved, InHand
<1> QED
  BY <1>1, <1>2 DEF Claim

\* Acting leaves the provider with one effect under the attempt's key: the one it
\* held, or a new one that is what the attempt asks for.
LEMMA ActAdds ==
  ASSUME IInv, ReleaseInv, WorldType, NEW w \in Workers, InHand(worker[w]), Act(w)
  PROVE  \E effect \in Effect :
           /\ effects' = effects \cup {effect}
           /\ effect.key = OwnKey(worker[w])
           /\ \/ effect \in effects
              \/ /\ EffectsUnder(OwnKey(worker[w])) = {}
                 /\ effect.rev = worker[w].rev /\ effect.digest = worker[w].digest
                 /\ effect.target = worker[w].binding
           /\ \/ Goto(w, Accepted(worker[w], effect))
              \/ \E retryable \in BOOLEAN : Goto(w, Failing(worker[w], retryable))
<1> DEFINE context == worker[w]
           held == EffectsUnder(OwnKey(context))
           new == [key |-> OwnKey(context), rev |-> context.rev, digest |-> context.digest,
                   target |-> context.binding, id |-> Cardinality(EffectsOf(context.stage)) + 1]
           chosen == IF held = {} THEN new ELSE CHOOSE e \in held : TRUE
<1>1. /\ context \in Context /\ context.stage \in Stages /\ context.stage \in EffectStages
      /\ AttemptInHand(context) /\ UNCHANGED jobVars
  BY DEF WorldType, InHand, Act
<1>2. held /= {} => chosen \in held
  OBVIOUS
<1>3. held \subseteq Effect /\ \A e \in held : e \in effects /\ e.key = OwnKey(context)
  BY DEF EffectsUnder, WorldType
<1>4. chosen.id \in Messages
  BY DEF Act
<1>5. held = {} => chosen \in Effect
  <2>1. context.n \in 1 .. Len(attempts[context.stage][context.rev])
          /\ context.rev \in Revisions /\ context.digest = ReleaseDigest
    BY <1>1 DEF AttemptInHand, Context
  <2>2. ReleaseDigest \in Digests /\ attempts[context.stage][context.rev][context.n].op = 1
    BY <1>1, <2>1, ReleaseStands DEF JobSteps
  <2>3. OwnKey(context) \in Keys
    BY <1>1, <2>1, <2>2 DEF OwnKey, KeyOf, Keys
  <2>4. context.binding \in Targets \cup {None}
    BY <1>1 DEF Context
  <2> QED
    BY <1>4, <2>1, <2>2, <2>3, <2>4 DEF Effect
<1>6. /\ chosen \in Effect /\ chosen.key = OwnKey(context)
      /\ \/ chosen \in effects
         \/ /\ held = {}
            /\ chosen.rev = context.rev /\ chosen.digest = context.digest
            /\ chosen.target = context.binding
  BY <1>2, <1>3, <1>5
<1>7. /\ effects' = effects \cup {chosen}
      /\ \/ Goto(w, Accepted(context, chosen))
         \/ \E retryable \in BOOLEAN : Goto(w, Failing(context, retryable))
  BY DEF Act
<1> HIDE DEF chosen
<1> QED
  BY <1>6, <1>7

\* Asking, resolving and acting keep the attempt in hand or end it.
LEMMA EffectStepsMove ==
  ASSUME IInv, ReleaseInv, WorldType, NEW w \in Workers, InHand(worker[w]),
         Reconcile(w) \/ Resolve(w) \/ Act(w)
  PROVE  Moved(w)
<1> DEFINE context == worker[w]
<1>1. /\ context \in Context /\ context.stage \in Stages /\ context.stage \in EffectStages
      /\ AttemptInHand(context) /\ UNCHANGED jobVars
  BY DEF WorldType, InHand, Reconcile, Resolve, Act
<1>2. ASSUME NEW pc \in {"acting", "resolving"}, Goto(w, [context EXCEPT !.pc = pc])
      PROVE  Moved(w)
  <2> DEFINE next == [context EXCEPT !.pc = pc]
  <2>1. /\ next \in Context /\ next.pc = pc /\ next.stage = context.stage
        /\ next.rev = context.rev /\ next.n = context.n
        /\ next.binding = context.binding /\ next.digest = context.digest
    BY <1>1 DEF Context, Pcs, HandlingPcs
  <2> HIDE DEF next
  <2>2. worker' \in [Workers -> Context] /\ worker'[w] = next
          /\ \A v \in Workers \ {w} : UNCHANGED worker[v]
    BY <1>2, <2>1, GotoMoves DEF next
  <2>3. ReleaseDigest' = ReleaseDigest /\ attempts' = attempts
    BY <1>1, EligibilityKept DEF jobVars, Judgement
  <2>4. AttemptInHand(worker[w])'
    BY <1>1, <2>1, <2>2, <2>3 DEF AttemptInHand
  <2> QED
    BY <1>1, <2>1, <2>2, <2>4 DEF Moved, InHand
<1>3. ASSUME NEW retryable \in BOOLEAN, Goto(w, Failing(context, retryable))
      PROVE  Moved(w)
  BY <1>1, <1>3, MovesToFailing
<1>4. ASSUME NEW effect \in Effect, effect \in effects', effect.key = OwnKey(context),
             Goto(w, Accepted(context, effect))
      PROVE  Moved(w)
  BY <1>1, <1>4, MovesToReceipt
<1>5. CASE Reconcile(w)
  <2>1. ASSUME NEW effect \in EffectsUnder(OwnKey(context)), Goto(w, Accepted(context, effect))
        PROVE  Moved(w)
    <3>1. effect \in Effect /\ effect \in effects' /\ effect.key = OwnKey(context)
      BY <1>5 DEF Reconcile, EffectsUnder, WorldType, outside
    <3> QED
      BY <1>4, <2>1, <3>1
  <2> QED
    BY <1>2, <1>5, <2>1 DEF Reconcile
<1>6. CASE Resolve(w)
  BY <1>2, <1>3, <1>6 DEF Resolve
<1>7. CASE Act(w)
  <2>1. PICK effect \in Effect :
          /\ effects' = effects \cup {effect} /\ effect.key = OwnKey(context)
          /\ \/ Goto(w, Accepted(context, effect))
             \/ \E retryable \in BOOLEAN : Goto(w, Failing(context, retryable))
    BY <1>7, ActAdds
  <2>2. effect \in effects'
    BY <2>1
  <2> QED
    BY <1>3, <1>4, <2>1, <2>2
<1> QED
  BY <1>5, <1>6, <1>7

\* Every step of a worker leaves it with memory of use, and the others alone.
LEMMA WorkerMoves ==
  ASSUME IInv, ReleaseInv, WorldType, NEW w \in Workers, InHand(worker[w]),
         RunNext(w) \/ Crash(w)
  PROVE  Moved(w)
<1>1. CASE Expire(w) \/ NoTarget(w) \/ FailAttempt(w) \/ Crash(w)
  BY <1>1, MovesToIdle DEF Expire, NoTarget, FailAttempt, Crash
<1>2. ASSUME NEW digest \in Digests, Produce(w, digest)
      PROVE  Moved(w)
  <2>1. worker[w].stage \in Stages \ EffectStages
    BY <1>2 DEF Produce, InHand
  <2> QED
    BY <1>2, <2>1, MovesToProduct DEF Produce
<1>3. ASSUME NEW retryable \in BOOLEAN, HandlerThrows(w, retryable)
      PROVE  Moved(w)
  <2>1. worker[w].stage \in Stages
    BY <1>3 DEF HandlerThrows, HandlingPcs, InHand
  <2> QED
    BY <1>3, <2>1, MovesToFailing DEF HandlerThrows
<1>4. CASE CommitStage(w)
  <2>1. worker[w].stage \in Stages
    BY <1>4 DEF CommitStage, InHand
  <2> QED
    BY <1>4, <2>1, MovesToIdle, MovesToFailing DEF CommitStage
<1> QED
  BY <1>1, <1>2, <1>3, <1>4, PollsMove, ResumeMoves, PrepareMoves, ClaimMoves, EffectStepsMove
     DEF RunNext

-----------------------------------------------------------------------------
(* Steps, by what they change                                               *)

\* A step changes the job, or the world outside, and providers forget nothing.
LEMMA WorldMoves ==
  ASSUME IInv, ReleaseInv, WorldType, WorkersInHand, Next
  PROVE  /\ effects \subseteq effects'
         /\ UNCHANGED jobVars \/ UNCHANGED <<effects, mail>>
         /\ \/ UNCHANGED effects
            \/ \E w \in Workers : Act(w)
         /\ \/ UNCHANGED mail
            \/ \E m \in Messages, outcome \in {"delivered", "failed"} :
                 /\ mail[m] /= "delivered"
                 /\ mail' = [mail EXCEPT ![m] = outcome]
<1>1. ASSUME NEW w \in Workers, Act(w)
      PROVE  effects \subseteq effects' /\ UNCHANGED jobVars /\ UNCHANGED mail
  <2>1. \E effect : effects' = effects \cup {effect}
    BY <1>1, ActAdds DEF WorkersInHand
  <2> QED
    BY <1>1, <2>1 DEF Act
<1>2. ASSUME NEW w \in Workers, RunNext(w) \/ Crash(w), ~Act(w)
      PROVE  UNCHANGED <<effects, mail>>
  BY <1>2 DEF RunNext, Crash, PollExpired, PollRetry, PollQueued, Expire, Resume,
     PrepareDelivery, NoTarget, Claim, Produce, HandlerThrows, Reconcile, Resolve,
     CommitStage, FailAttempt, outside
<1>3. ASSUME Caller \/ Retarget \/ Tick \/ Delay \/ \E p \in Pollers : ReadStatus(p) \/ RecordStatus(p)
      PROVE  UNCHANGED <<effects, mail>>
  BY <1>3 DEF Caller, ReadStatus, RecordStatus, Retarget, Tick, Delay, outside
<1>4. ASSUME MailMoves
      PROVE  /\ UNCHANGED effects /\ UNCHANGED jobVars
             /\ \E m \in Messages, outcome \in {"delivered", "failed"} :
                  /\ mail[m] /= "delivered"
                  /\ mail' = [mail EXCEPT ![m] = outcome]
  <2>1. PICK effect \in effects, outcome \in {"delivered", "failed"} :
          /\ mail[effect.id] /= "delivered"
          /\ mail' = [mail EXCEPT ![effect.id] = outcome]
    BY <1>4 DEF MailMoves, EffectsOf
  <2>2. effect.id \in Messages
    BY DEF WorldType, Effect
  <2> QED
    BY <1>4, <2>1, <2>2 DEF MailMoves
<1> QED
  BY <1>1, <1>2, <1>3, <1>4 DEF Next

\* The attempts of a job change by a claim of a worker, or one of them is closed.
LEMMA LogMoves ==
  ASSUME IInv, WorldType, WorkersInHand, Next
  PROVE  \/ UNCHANGED attempts
         \/ \E stage, rev, n, status : Closes(stage, rev, n, status)
         \/ \E w \in Workers :
              /\ worker[w].pc = "claiming"
              /\ ClaimStage(worker[w].stage, worker[w].rev, worker[w].n, worker[w].binding,
                            worker[w].at)
<1>1. ASSUME NEW stage \in Stages, NEW rev \in Revisions, NEW n, NEW status,
             HoldsLease(stage, rev, n), CloseAttempt(stage, rev, n, status)
      PROVE  \E s, r, m, st : Closes(s, r, m, st)
  BY <1>1, HeldIsLogged, CloseAttemptCloses DEF IInv
<1>2. ASSUME NEW stage \in Stages, NEW rev \in Revisions, NEW n, NEW id, NEW reason,
             NEW retryable, NEW at, FailStage(id, stage, rev, n, reason, retryable, at)
      PROVE  \E s, r, m, st : Closes(s, r, m, st)
  BY <1>1, <1>2 DEF FailStage, CanFail
<1>3. ASSUME NEW stage \in Stages, NEW rev \in Revisions, NEW n, NEW at,
             CanCommit(stage, rev, n, at), Commit(stage, rev, n, at)
      PROVE  \E s, r, m, st : Closes(s, r, m, st)
  BY <1>1, <1>3 DEF CanCommit, Commit
<1>4. ASSUME NEW w \in Workers, RunNext(w) \/ Crash(w), ~UNCHANGED jobVars
      PROVE  \/ UNCHANGED attempts
             \/ \E s, r, m, st : Closes(s, r, m, st)
             \/ /\ worker[w].pc = "claiming"
                /\ ClaimStage(worker[w].stage, worker[w].rev, worker[w].n, worker[w].binding,
                              worker[w].at)
  <2>0. /\ worker[w].rev \in Revisions /\ InHand(worker[w])
        /\ {"prepare_review", "render_approved", "generate_tts", "publish", "deliver"} = Stages
    BY DEF WorldType, Context, WorkersInHand, Stages
  <2>1. CASE Expire(w)
    <3>1. worker[w].stage \in Stages
      BY <2>0, <2>1 DEF Expire, InHand
    <3> QED
      BY <1>2, <1>4, <2>0, <2>1, <3>1 DEF Expire
  <2>2. CASE FailAttempt(w)
    <3>1. worker[w].stage \in Stages
      BY <2>0, <2>2 DEF FailAttempt, InHand
    <3> QED
      BY <1>2, <1>4, <2>0, <2>2, <3>1 DEF FailAttempt
  <2>3. CASE Resume(w)
    BY <1>4, <2>3 DEF Resume, ResumeRetry
  <2>4. CASE Claim(w)
    BY <1>4, <2>4 DEF Claim
  <2>5. CASE CommitStage(w)
    <3>1. \E stage \in Stages : \E at :
            /\ CanCommit(stage, worker[w].rev, worker[w].n, at)
            /\ Commit(stage, worker[w].rev, worker[w].n, at)
      BY <1>4, <2>0, <2>5 DEF CommitStage, Complete, CompletePrepare, CanCompletePrepare,
         CompleteRender, CanCompleteRender, CompleteNarration, CanCompleteNarration,
         CompletePublish, CanCompletePublish, CompleteDeliver, CanCompleteDeliver
    <3> QED
      BY <1>3, <2>0, <3>1
  <2> QED
    BY <1>4, <2>1, <2>2, <2>3, <2>4, <2>5 DEF RunNext, Crash, PollExpired, PollRetry, PollQueued,
       PrepareDelivery, NoTarget, Produce, HandlerThrows, Reconcile, Resolve, Act
<1>5. ASSUME Caller
      PROVE  UNCHANGED attempts
  BY <1>5 DEF Caller, CallerCreates, CreateJob, CallerPays, RecordPayment, CallerReviews,
     RecordReviewDecision, CallerQueuesDelivery, QueueDelivery, CallerConfirms, ConfirmDelivery
<1>6. ASSUME NEW p \in Pollers, ReadStatus(p) \/ RecordStatus(p)
      PROVE  UNCHANGED attempts
  BY <1>6 DEF ReadStatus, RecordStatus, ReconcileDelivery, jobVars
<1> QED
  BY <1>4, <1>5, <1>6 DEF Next, MailMoves, Retarget, Tick, Delay, jobVars

\* What is recorded changes when a worker commits a publication or a delivery,
\* and when a caller or a poller records what the provider said.
LEMMA RecordMoves ==
  ASSUME IInv, WorldType, WorkersInHand, StatusesRead, Next
  PROVE  \/ /\ UNCHANGED <<publication, deliveries>>
            /\ state' \in {"sent", "complete"} => state' = state
         \/ \E w \in Workers :
              /\ worker[w].pc = "committing" /\ worker[w].stage = "publish"
              /\ CompletePublish(worker[w].rev, worker[w].n, worker[w].result, worker[w].at)
         \/ \E w \in Workers :
              /\ worker[w].pc = "committing" /\ worker[w].stage = "deliver"
              /\ CompleteDeliver(worker[w].rev, worker[w].n, worker[w].result, worker[w].at)
         \/ \E message \in Messages, outcome \in DeliveryOutcomes : \E call, at :
              /\ outcome = "delivered" => mail[message] = "delivered"
              /\ \/ outcome = "delivered" /\ ConfirmDelivery(call, message, at)
                 \/ ReconcileDelivery(call, message, outcome, at)
<1> DEFINE Untouched == /\ UNCHANGED <<publication, deliveries>>
                        /\ state' \in {"sent", "complete"} => state' = state
<1>0. {"sent", "complete"} \cap (QueuedStates \cup RunningStates) = {}
  BY DEF QueuedStates, QueuedState, RunningStates, RunningState, Stages
<1>1. ASSUME UNCHANGED jobVars PROVE Untouched
  BY <1>1 DEF jobVars
<1>2. ASSUME NEW w \in Workers, RunNext(w) \/ Crash(w), ~CommitStage(w)
      PROVE  Untouched
  <2>1. CASE Expire(w)
    BY <1>1, <2>1 DEF Expire, FailStage
  <2>2. CASE FailAttempt(w)
    BY <1>1, <2>2 DEF FailAttempt, FailStage
  <2>3. CASE Resume(w)
    <3>1. ASSUME NEW id, NEW at, ResumeRetry(id, at)
          PROVE  Untouched
      BY <1>0, <3>1, StageStates DEF ResumeRetry, CanResume, IInv, RetryAhead
    <3> QED
      BY <1>1, <2>3, <3>1 DEF Resume
  <2>4. CASE Claim(w)
    <3>1. ASSUME ClaimStage(worker[w].stage, worker[w].rev, worker[w].n, worker[w].binding,
                            worker[w].at)
          PROVE  Untouched
      <4>1. worker[w].stage \in Stages
        BY <2>4 DEF Claim, WorkersInHand, InHand
      <4> QED
        BY <1>0, <3>1, <4>1, StageStates DEF ClaimStage
    <3> QED
      BY <1>1, <2>4, <3>1 DEF Claim
  <2> QED
    BY <1>1, <1>2, <2>1, <2>2, <2>3, <2>4 DEF RunNext, Crash, PollExpired, PollRetry, PollQueued,
       PrepareDelivery, NoTarget, Produce, HandlerThrows, Reconcile, Resolve, Act
<1>3. ASSUME NEW w \in Workers, CommitStage(w)
      PROVE  \/ Untouched
             \/ /\ worker[w].pc = "committing" /\ worker[w].stage = "publish"
                /\ CompletePublish(worker[w].rev, worker[w].n, worker[w].result, worker[w].at)
             \/ /\ worker[w].pc = "committing" /\ worker[w].stage = "deliver"
                /\ CompleteDeliver(worker[w].rev, worker[w].n, worker[w].result, worker[w].at)
  <2>1. ASSUME NEW rev, NEW n, NEW ordinal, NEW d, NEW at,
               \/ CompletePrepare(rev, n, ordinal, d, at) \/ CompleteRender(rev, n, d, at)
               \/ CompleteNarration(rev, n, d, at)
        PROVE  Untouched
    BY <2>1 DEF CompletePrepare, CompleteRender, CompleteNarration
  <2> QED
    BY <1>1, <1>3, <2>1 DEF CommitStage, Complete
<1>4. ASSUME Caller, ~CallerConfirms
      PROVE  Untouched
  <2>1. ASSUME NEW type, NEW outcome \in Outcomes
        PROVE  StateAfterReview(type, outcome) \notin {"sent", "complete"}
    BY DEF StateAfterReview, Outcomes, QueuedState
  <2>2. CASE CallerReviews
    BY <2>1, <2>2 DEF CallerReviews, RecordReviewDecision
  <2> QED
    BY <1>4, <2>2 DEF Caller, CallerCreates, CreateJob, CallerPays, RecordPayment,
       CallerQueuesDelivery, QueueDelivery
<1>5. ASSUME CallerConfirms
      PROVE  \E message \in Messages : \E call, at :
               mail[message] = "delivered" /\ ConfirmDelivery(call, message, at)
  <2>1. PICK effect \in effects : \E call, at :
          mail[effect.id] = "delivered" /\ ConfirmDelivery(call, effect.id, at)
    BY <1>5 DEF CallerConfirms, EffectsOf
  <2>2. effect.id \in Messages
    BY DEF WorldType, Effect
  <2> QED
    BY <2>1, <2>2
<1>6. ASSUME NEW p \in Pollers, RecordStatus(p)
      PROVE  \/ Untouched
             \/ \E message \in Messages, outcome \in DeliveryOutcomes : \E call, at :
                  /\ outcome = "delivered" => mail[message] = "delivered"
                  /\ ReconcileDelivery(call, message, outcome, at)
  <2>1. poller[p].message \in Messages /\ poller[p].outcome \in DeliveryOutcomes
    BY <1>6 DEF RecordStatus, WorldType
  <2>2. poller[p].outcome = "delivered" => mail[poller[p].message] = "delivered"
    BY <1>6 DEF StatusesRead, RecordStatus
  <2>3. \/ UNCHANGED jobVars
        \/ \E call, at : ReconcileDelivery(call, poller[p].message, poller[p].outcome, at)
    BY <1>6 DEF RecordStatus
  <2> QED
    BY <1>1, <2>1, <2>2, <2>3
<1>7. "delivered" \in DeliveryOutcomes
  BY DEF DeliveryOutcomes
<1>8. ASSUME NEW p \in Pollers, ReadStatus(p)
      PROVE  Untouched
  BY <1>1, <1>8 DEF ReadStatus
<1>9. CASE MailMoves \/ Retarget \/ Tick \/ Delay
  BY <1>1, <1>9 DEF MailMoves, Retarget, Tick, Delay
<1>10. CASE \E w \in Workers : RunNext(w) \/ Crash(w)
  BY <1>2, <1>3, <1>10
<1>11. CASE Caller
  BY <1>4, <1>5, <1>7, <1>11
<1>12. CASE \E p \in Pollers : ReadStatus(p) \/ RecordStatus(p)
  BY <1>6, <1>8, <1>12
<1> QED
  BY <1>9, <1>10, <1>11, <1>12 DEF Next

-----------------------------------------------------------------------------
(* Every step keeps the invariant                                           *)

\* Last entry of a log that has one.
LEMMA LastDelivery ==
  ASSUME TypeOK, deliveries /= <<>>
  PROVE  /\ Len(deliveries) \in 1 .. Len(deliveries)
         /\ Last(deliveries) \in Delivery
BY DEF TypeOK, Last

\* Memories of workers stay of use, and the world stays well typed.
LEMMA StepKeepsWorldType ==
  ASSUME Times = Nat, IInv, ReleaseInv, WorldInv, Next
  PROVE  WorldType' /\ WorkersInHand'
<1> USE DEF WorldInv
<1>0. effects \subseteq effects'
  BY WorldMoves
<1>1. JobSteps
  BY StepsAreCommands DEF JobSteps
<1>2. ASSUME NEW w \in Workers, RunNext(w) \/ Crash(w)
      PROVE  worker' \in [Workers -> Context] /\ WorkersInHand'
  <2>1. Moved(w)
    BY <1>2, WorkerMoves DEF WorkersInHand
  <2>2. ASSUME NEW v \in Workers
        PROVE  InHand(worker[v])'
    BY <1>0, <1>1, <2>1, ContextStays DEF Moved, WorkersInHand
  <2> QED
    BY <2>1, <2>2 DEF Moved, WorkersInHand
<1>3. ASSUME UNCHANGED worker
      PROVE  worker' \in [Workers -> Context] /\ WorkersInHand'
  BY <1>0, <1>1, <1>3, ContextStays DEF WorkersInHand, WorldType
<1>4. worker' \in [Workers -> Context] /\ WorkersInHand'
  BY <1>2, <1>3 DEF Next, Caller, ReadStatus, RecordStatus, MailMoves, Retarget, Tick, Delay
<1>5. effects' \subseteq Effect
  <2>1. ASSUME NEW w \in Workers, Act(w)
        PROVE  effects' \subseteq Effect
    BY <2>1, ActAdds DEF WorldType, WorkersInHand
  <2> QED
    BY <2>1, WorldMoves DEF WorldType
<1>6. mail' \in [Messages -> DeliveryOutcomes]
  BY WorldMoves DEF WorldType, DeliveryOutcomes
<1>7. poller' \in [Pollers -> [message: Messages, outcome: DeliveryOutcomes] \cup {Resting}]
  <2>1. ASSUME NEW p \in Pollers, ReadStatus(p)
        PROVE  poller' \in [Pollers -> [message: Messages, outcome: DeliveryOutcomes] \cup {Resting}]
    <3>1. Last(deliveries).message \in Messages
      BY <2>1, LastDelivery DEF ReadStatus, SentIsRecorded, IInv, Delivery
    <3> QED
      BY <2>1, <3>1 DEF ReadStatus, WorldType
  <2>2. ASSUME NEW p \in Pollers, RecordStatus(p)
        PROVE  poller' \in [Pollers -> [message: Messages, outcome: DeliveryOutcomes] \cup {Resting}]
    BY <2>2 DEF RecordStatus, WorldType
  <2>3. ASSUME NEW w \in Workers, RunNext(w) \/ Crash(w)
        PROVE  UNCHANGED poller
    BY <2>3 DEF RunNext, Crash, PollExpired, PollRetry, PollQueued, Expire, Resume,
       PrepareDelivery, NoTarget, Claim, Produce, HandlerThrows, Reconcile, Resolve, Act,
       CommitStage, FailAttempt, outside
  <2> QED
    BY <2>1, <2>2, <2>3 DEF Next, Caller, MailMoves, Retarget, Tick, Delay, WorldType, outside
<1>8. now' \in Nat /\ recipient' \in Targets
  <2>1. ASSUME NEW w \in Workers, RunNext(w) \/ Crash(w)
        PROVE  UNCHANGED <<now, recipient>>
    BY <2>1 DEF RunNext, Crash, PollExpired, PollRetry, PollQueued, Expire, Resume,
       PrepareDelivery, NoTarget, Claim, Produce, HandlerThrows, Reconcile, Resolve, Act,
       CommitStage, FailAttempt, outside
  <2> QED
    BY <2>1 DEF Next, Caller, ReadStatus, RecordStatus, MailMoves, Retarget, Tick, Delay,
       WorldType, outside
<1> QED
  BY <1>4, <1>5, <1>6, <1>7, <1>8 DEF WorldType

\* A claim carries the binding of the attempts before it, or the first one.
LEMMA StepKeepsOneBinding ==
  ASSUME IInv, WorldInv, Next
  PROVE  OneBinding'
<1> USE DEF WorldInv, IInv
<1>0. ASSUME NEW stage \in EffectStages, NEW rev \in Revisions
      PROVE  stage \in Stages /\ Len(attempts[stage][rev]) \in Nat
  BY AttemptLogs DEF EffectStages, Stages
<1>1. CASE UNCHANGED attempts
  BY <1>1 DEF OneBinding
<1>2. ASSUME NEW stage, NEW rev, NEW n, NEW status, Closes(stage, rev, n, status)
      PROVE  OneBinding'
  <2>1. ASSUME NEW s \in EffectStages, NEW r \in Revisions, NEW m \in 1 .. Len(attempts'[s][r])
        PROVE  attempts'[s][r][m].binding = IF s = "publish" THEN None
                                                            ELSE attempts'[s][r][1].binding
    <3>1. Len(attempts'[s][r]) = Len(attempts[s][r])
      BY <1>0, <1>2 DEF Closes
    <3>2. m \in 1 .. Len(attempts[s][r]) /\ 1 \in 1 .. Len(attempts[s][r])
      BY <1>0, <3>1
    <3>3. \A k \in 1 .. Len(attempts[s][r]) :
            attempts'[s][r][k].binding = attempts[s][r][k].binding
      BY <1>0, <1>2, CloseKeepsBinding, AttemptLogs
    <3> QED
      BY <3>2, <3>3 DEF OneBinding
  <2> QED
    BY <2>1 DEF OneBinding
<1>3. ASSUME NEW w \in Workers, worker[w].pc = "claiming",
             ClaimStage(worker[w].stage, worker[w].rev, worker[w].n, worker[w].binding,
                        worker[w].at)
      PROVE  OneBinding'
  <2> DEFINE context == worker[w]
             claimed == context.stage
             attempt == [op |-> NextOperation(claimed), binding |-> context.binding,
                         status |-> "running", expires |-> context.at + LeaseMs[claimed]]
  <2>1. <<"claim", context.stage, context.rev, context.n>> \notin events
    BY <1>3 DEF ClaimStage, CanClaim, Fresh
  <2>2. /\ claimed \in Stages /\ currentRevision \in Revisions
        /\ claimed = "deliver" /\ attempts[claimed][currentRevision] /= <<>> =>
             context.binding = Last(attempts[claimed][currentRevision]).binding
    BY <1>3, <2>1 DEF WorkersInHand, InHand, ClaimInHand, TypeOK
  <2>3. Appends(claimed, attempt)
    BY <1>3, <2>2, ClaimAppends
  <2>4. attempt.binding = context.binding /\ (claimed = "publish" => context.binding = None)
    BY <1>3 DEF ClaimStage, CanClaim
  <2> HIDE DEF attempt, claimed, context
  <2>5. ASSUME NEW s \in EffectStages, NEW r \in Revisions, NEW m \in 1 .. Len(attempts'[s][r])
        PROVE  attempts'[s][r][m].binding = IF s = "publish" THEN None
                                                            ELSE attempts'[s][r][1].binding
    <3> DEFINE len == Len(attempts[s][r])
    <3>1. /\ len \in Nat
          /\ Len(attempts'[s][r]) = IF s = claimed /\ r = currentRevision THEN len + 1 ELSE len
          /\ \A k \in 1 .. len : attempts'[s][r][k] = attempts[s][r][k]
          /\ s = claimed /\ r = currentRevision => attempts'[s][r][len + 1] = attempt
      BY <1>0, <2>2, <2>3, AppendsExtends
    <3> HIDE DEF len
    <3>2. CASE m \in 1 .. len
      <4>1. 1 \in 1 .. len
        BY <3>1, <3>2
      <4> QED
        BY <3>1, <3>2, <4>1 DEF OneBinding, len
    <3>3. CASE m \notin 1 .. len
      <4>1. s = claimed /\ r = currentRevision /\ m = len + 1 /\ attempts'[s][r][m] = attempt
        BY <3>1, <3>3
      <4>2. CASE len = 0
        BY <2>4, <3>1, <4>1, <4>2
      <4>3. CASE len > 0
        <5>1. 1 \in 1 .. len /\ len \in 1 .. len /\ attempts[s][r] /= <<>>
          BY <3>1, <4>3 DEF len
        <5>2. s = "deliver" => context.binding = attempts[s][r][len].binding
          BY <2>2, <4>1, <5>1 DEF Last, len
        <5>3. s = "deliver" => attempts[s][r][len].binding = attempts[s][r][1].binding
          BY <5>1 DEF OneBinding, len
        <5> QED
          BY <2>4, <3>1, <4>1, <5>1, <5>2, <5>3 DEF EffectStages
      <4> QED
        BY <3>1, <4>2, <4>3
    <3> QED
      BY <3>2, <3>3
  <2> QED
    BY <2>5 DEF OneBinding
<1> QED
  BY <1>1, <1>2, <1>3, LogMoves

\* The provider's effects stay those of the release, one under a key.
LEMMA StepKeepsEffects ==
  ASSUME Times = Nat, IInv, ReleaseInv, WorldInv, Next
  PROVE  EffectsInOrder'
<1> USE DEF WorldInv
<1>1. JobSteps
  BY StepsAreCommands DEF JobSteps
<1>2. ASSUME NEW effect \in Effect, EffectOfRelease(effect), effect' = effect
      PROVE  EffectOfRelease(effect)'
  <2> DEFINE stage == effect.key.stage
  <2>1. /\ stage \in EffectStages /\ currentRevision \in Revisions
        /\ attempts[stage][currentRevision] /= <<>>
    BY <1>2 DEF EffectOfRelease, IInv, TypeOK
  <2>2. 1 \in 1 .. Len(attempts[stage][currentRevision])
    <3>1. stage \in Stages
      BY <2>1 DEF EffectStages, Stages
    <3>2. attempts[stage][currentRevision] \in Seq(Attempt)
      BY <2>1, <3>1, AttemptLogs DEF IInv
    <3> QED
      BY <2>1, <3>2
  <2>3. /\ UNCHANGED Judgement /\ ReleaseDigest' = ReleaseDigest
        /\ 1 \in 1 .. Len(attempts'[stage][currentRevision])
        /\ attempts'[stage][currentRevision][1].binding
             = attempts[stage][currentRevision][1].binding
    <3> HIDE DEF stage
    <3> QED
      BY <1>1, <2>1, <2>2, ReleaseStands
  <2>4. currentRevision' = currentRevision /\ attempts'[stage][currentRevision] /= <<>>
    BY <2>3 DEF Judgement
  <2> QED
    BY <1>2, <2>3, <2>4 DEF EffectOfRelease
<1>3. CASE UNCHANGED effects
  BY <1>2, <1>3 DEF EffectsInOrder, WorldType
<1>4. ASSUME NEW w \in Workers, Act(w)
      PROVE  EffectsInOrder'
  <2> DEFINE context == worker[w]
             stage == context.stage
  <2>1. /\ context.stage \in EffectStages /\ AttemptInHand(context) /\ UNCHANGED jobVars
        /\ context.rev \in Revisions /\ InHand(context)
    BY <1>4 DEF WorldType, WorkersInHand, Context, InHand, Act
  <2>2. PICK effect \in Effect :
          /\ effects' = effects \cup {effect}
          /\ effect.key = OwnKey(context)
          /\ \/ effect \in effects
             \/ /\ EffectsUnder(OwnKey(context)) = {}
                /\ effect.rev = context.rev /\ effect.digest = context.digest
                /\ effect.target = context.binding
    BY <1>4, <2>1, ActAdds
  <2>3. /\ context.n \in 1 .. Len(attempts[stage][context.rev])
        /\ context.rev = currentRevision /\ context.digest = ReleaseDigest
        /\ attempts[stage][context.rev][context.n].op = 1
        /\ context.binding = attempts[stage][context.rev][context.n].binding
    BY <1>1, <2>1, ReleaseStands DEF AttemptInHand
  <2>4. 1 \in 1 .. Len(attempts[stage][currentRevision])
    <3>1. stage \in Stages
      BY <2>1 DEF EffectStages, Stages
    <3>2. Len(attempts[stage][currentRevision]) \in Nat
      BY <2>1, <2>3, <3>1, AttemptLogs DEF IInv
    <3> QED
      BY <2>3, <3>2
  <2>5. context.binding = attempts[stage][currentRevision][1].binding
    BY <2>1, <2>3, <2>4 DEF OneBinding
  <2>6. OwnKey(context) = [rev |-> currentRevision, stage |-> stage, op |-> 1]
    BY <2>3 DEF OwnKey, KeyOf
  <2>7. effect \notin effects => EffectOfRelease(effect)
    BY <2>1, <2>2, <2>3, <2>4, <2>5, <2>6 DEF EffectOfRelease
  <2>8. \A e \in effects' : EffectOfRelease(e)
    BY <2>2, <2>7 DEF EffectsInOrder
  <2>9. ASSUME NEW e \in effects'
        PROVE  EffectOfRelease(e)'
    BY <1>2, <2>2, <2>8 DEF WorldType
  <2>10. \A e, other \in effects' : e.key = other.key => e = other
    BY <2>2 DEF EffectsInOrder, EffectsUnder
  <2> QED
    BY <2>9, <2>10 DEF EffectsInOrder
<1> QED
  BY <1>3, <1>4, WorldMoves

\* A provider's "delivered" is final, so a status read of it stays true.
LEMMA StepKeepsStatuses ==
  ASSUME IInv, ReleaseInv, WorldInv, Next
  PROVE  /\ \A m \in Messages : mail[m] = "delivered" => mail'[m] = "delivered"
         /\ StatusesRead'
<1> USE DEF WorldInv
<1>1. ASSUME NEW m \in Messages, mail[m] = "delivered"
      PROVE  mail'[m] = "delivered"
  BY <1>1, WorldMoves DEF WorldType
<1>2. ASSUME NEW p \in Pollers, poller[p] /= Resting
      PROVE  poller[p].message \in Messages
  BY <1>2 DEF WorldType
<1>3. CASE UNCHANGED poller
  BY <1>1, <1>2, <1>3 DEF StatusesRead
<1>4. ASSUME NEW p \in Pollers, ReadStatus(p)
      PROVE  StatusesRead'
  BY <1>1, <1>2, <1>4 DEF ReadStatus, StatusesRead, WorldType
<1>5. ASSUME NEW p \in Pollers, RecordStatus(p)
      PROVE  StatusesRead'
  <2>1. \A q \in Pollers : poller'[q] = Resting \/ poller'[q] = poller[q]
    BY <1>5 DEF RecordStatus, WorldType
  <2> QED
    BY <1>1, <1>2, <2>1 DEF StatusesRead
<1>6. ASSUME NEW w \in Workers, RunNext(w) \/ Crash(w)
      PROVE  UNCHANGED poller
  BY <1>6 DEF RunNext, Crash, PollExpired, PollRetry, PollQueued, Expire, Resume,
     PrepareDelivery, NoTarget, Claim, Produce, HandlerThrows, Reconcile, Resolve, Act, CommitStage,
     FailAttempt, outside
<1>7. StatusesRead'
  BY <1>3, <1>4, <1>5, <1>6 DEF Next, Caller, MailMoves, Retarget, Tick, Delay, outside
<1> QED
  BY <1>1, <1>7

\* A worker commits the receipt of an effect the provider holds, under its key.
LEMMA CommittedEffect ==
  ASSUME WorldInv, NEW w \in Workers, worker[w].pc = "committing",
         worker[w].stage \in EffectStages
  PROVE  \E effect \in effects :
           /\ effect.key = KeyOf(worker[w].stage, worker[w].rev, worker[w].n)
           /\ effect.key.stage = worker[w].stage
           /\ worker[w].result.rev = effect.rev
           /\ worker[w].result.digest = effect.digest
           /\ worker[w].result.id = effect.id
<1>1. ResultInHand(worker[w])
  BY DEF WorldInv, WorkersInHand, InHand
<1>2. PICK effect \in EffectsUnder(OwnKey(worker[w])) : worker[w].result = Receipt(effect)
  BY <1>1 DEF ResultInHand
<1>3. effect \in effects /\ effect.key = KeyOf(worker[w].stage, worker[w].rev, worker[w].n)
  BY DEF EffectsUnder, OwnKey
<1>4. effect.key.stage = worker[w].stage
  BY <1>3 DEF KeyOf
<1>5. /\ worker[w].result.rev = effect.rev /\ worker[w].result.digest = effect.digest
      /\ worker[w].result.id = effect.id
  BY <1>2 DEF Receipt
<1> QED
  BY <1>3, <1>4, <1>5

\* What is recorded is what the provider holds, and completion what it reported.
LEMMA StepKeepsRecords ==
  ASSUME IInv, IInv', ReleaseInv, WorldInv, EffectsInOrder', Next
  PROVE  RecordsMatchProvider' /\ SentIsRecorded'
<1> USE DEF WorldInv
<1>0. /\ effects \subseteq effects'
      /\ \A m \in Messages : mail[m] = "delivered" => mail'[m] = "delivered"
      /\ \A effect \in effects : effect.id \in Messages
  BY WorldMoves, StepKeepsStatuses DEF WorldType, Effect
<1>1. CASE /\ UNCHANGED <<publication, deliveries>>
           /\ state' \in {"sent", "complete"} => state' = state
  BY <1>0, <1>1 DEF RecordsMatchProvider, SentIsRecorded, EffectsOf
<1>2. ASSUME NEW w \in Workers, worker[w].pc = "committing", worker[w].stage = "publish",
             CompletePublish(worker[w].rev, worker[w].n, worker[w].result, worker[w].at)
      PROVE  RecordsMatchProvider' /\ SentIsRecorded'
  <2>1. PICK effect \in effects :
          /\ effect.key = KeyOf("publish", worker[w].rev, worker[w].n)
          /\ effect.key.stage = "publish"
          /\ worker[w].result.rev = effect.rev /\ worker[w].result.digest = effect.digest
          /\ worker[w].result.id = effect.id
    BY <1>2, CommittedEffect DEF EffectStages
  <2>2. publication' = [rev |-> effect.rev, digest |-> effect.digest, key |-> effect.key,
                        receipt |-> effect.id]
    BY <1>2, <2>1 DEF CompletePublish
  <2>3. state' = "published" /\ UNCHANGED deliveries /\ effect \in EffectsOf("publish")'
    BY <1>0, <1>2, <2>1 DEF CompletePublish, EffectsOf
  <2> QED
    BY <1>0, <2>2, <2>3 DEF RecordsMatchProvider, SentIsRecorded, EffectsOf
<1>3. ASSUME NEW w \in Workers, worker[w].pc = "committing", worker[w].stage = "deliver",
             CompleteDeliver(worker[w].rev, worker[w].n, worker[w].result, worker[w].at)
      PROVE  RecordsMatchProvider' /\ SentIsRecorded'
  <2>1. PICK effect \in effects :
          /\ effect.key = KeyOf("deliver", worker[w].rev, worker[w].n)
          /\ effect.key.stage = "deliver"
          /\ worker[w].result.rev = effect.rev /\ worker[w].result.id = effect.id
    BY <1>3, CommittedEffect DEF EffectStages
  <2> DEFINE entry == [rev |-> effect.rev, message |-> effect.id, key |-> effect.key,
                       target |-> attempts["deliver"][worker[w].rev][worker[w].n].binding,
                       status |-> "sent", outcome |-> None]
  <2>2. deliveries' = Append(deliveries, entry) /\ state' = "sent" /\ UNCHANGED publication
    BY <1>3, <2>1 DEF CompleteDeliver
  <2>3. entry.target = effect.target
    <3>1. EffectOfRelease(effect) /\ AttemptInHand(worker[w]) /\ worker[w].rev \in Revisions
      BY <1>3 DEF EffectsInOrder, WorkersInHand, InHand, ResultInHand, EffectStages, WorldType,
         Context
    <3>2. /\ worker[w].n \in 1 .. Len(attempts["deliver"][worker[w].rev])
          /\ worker[w].rev = currentRevision
      BY <1>3, <2>1, <3>1 DEF AttemptInHand, EffectOfRelease, KeyOf
    <3>3. attempts["deliver"][worker[w].rev][worker[w].n].binding
            = attempts["deliver"][worker[w].rev][1].binding
      BY <3>1, <3>2 DEF OneBinding, EffectStages
    <3> QED
      BY <2>1, <3>1, <3>2, <3>3 DEF EffectOfRelease
  <2>4. /\ entry.message = effect.id /\ entry.rev = effect.rev /\ entry.key = effect.key
    OBVIOUS
  <2> HIDE DEF entry
  <2>5. /\ Len(deliveries') = Len(deliveries) + 1
        /\ DOMAIN deliveries' = 1 .. Len(deliveries) + 1
        /\ DOMAIN deliveries = 1 .. Len(deliveries) /\ Len(deliveries) \in Nat
        /\ deliveries' /= <<>>
        /\ \A i \in 1 .. Len(deliveries) : deliveries'[i] = deliveries[i]
        /\ deliveries'[Len(deliveries) + 1] = entry
    <3>1. deliveries \in Seq(Delivery)
      BY DEF IInv, TypeOK
    <3> QED
      BY <2>2, <3>1
  <2>6. ASSUME NEW i \in DOMAIN deliveries'
        PROVE  \E e \in EffectsOf("deliver")' :
                 /\ e.id = deliveries'[i].message /\ e.rev = deliveries'[i].rev
                 /\ e.key = deliveries'[i].key /\ e.target = deliveries'[i].target
    <3>1. CASE i \in DOMAIN deliveries
      BY <1>0, <2>5, <3>1 DEF RecordsMatchProvider, EffectsOf
    <3>2. CASE i = Len(deliveries) + 1
      BY <1>0, <2>1, <2>3, <2>4, <2>5, <3>2 DEF EffectsOf
    <3> QED
      BY <2>5, <3>1, <3>2
  <2>7. publication' /= None =>
          \E e \in EffectsOf("publish")' :
            publication' = [rev |-> e.rev, digest |-> e.digest, key |-> e.key, receipt |-> e.id]
    BY <1>0, <2>2 DEF RecordsMatchProvider, EffectsOf
  <2> QED
    BY <2>2, <2>5, <2>6, <2>7 DEF RecordsMatchProvider, SentIsRecorded
<1>4. ASSUME NEW message \in Messages, NEW outcome \in DeliveryOutcomes, NEW call, NEW at,
             outcome = "delivered" => mail[message] = "delivered",
             \/ outcome = "delivered" /\ ConfirmDelivery(call, message, at)
             \/ ReconcileDelivery(call, message, outcome, at)
      PROVE  RecordsMatchProvider' /\ SentIsRecorded'
  <2>1. /\ state = "sent" /\ deliveries /= <<>> /\ Last(deliveries).message = message
        /\ UNCHANGED publication
        /\ state' = "complete" => mail[message] = "delivered"
    BY <1>4 DEF ConfirmDelivery, ReconcileDelivery, CanSettleDelivery
  <2>2. Len(deliveries) = 1 /\ DOMAIN deliveries = {1} /\ deliveries[1] \in Delivery
        /\ deliveries[1].message = message
    <3>1. deliveries \in Seq(Delivery) /\ Len(deliveries) = 1
      BY <2>1 DEF ReleaseInv, DeliveryRecord, IInv, TypeOK
    <3>2. deliveries[1].message = message
      BY <2>1, <3>1 DEF Last
    <3>3. DOMAIN deliveries = 1 .. 1 /\ 1 .. 1 = {1}
      BY <3>1
    <3>4. deliveries[1] \in Delivery
      BY <2>1, <3>1, LastDelivery DEF IInv, Last
    <3> QED
      BY <3>1, <3>2, <3>3, <3>4
  <2>3. PICK entry :
          /\ deliveries' = [deliveries EXCEPT ![1] = entry]
          /\ entry.rev = deliveries[1].rev /\ entry.message = deliveries[1].message
          /\ entry.key = deliveries[1].key /\ entry.target = deliveries[1].target
    <3>1. CASE MarkDelivered
      <4> DEFINE entry == [deliveries[1] EXCEPT !.status = "delivered", !.outcome = "delivered"]
      <4>1. /\ entry.rev = deliveries[1].rev /\ entry.message = deliveries[1].message
            /\ entry.key = deliveries[1].key /\ entry.target = deliveries[1].target
        BY <2>2 DEF Delivery
      <4>2. deliveries' = [deliveries EXCEPT ![1] = entry]
        BY <2>2, <3>1 DEF MarkDelivered
      <4> QED
        BY <4>1, <4>2
    <3>2. CASE deliveries' = [deliveries EXCEPT ![Len(deliveries)].outcome = outcome]
      <4> DEFINE entry == [deliveries[1] EXCEPT !.outcome = outcome]
      <4>1. /\ entry.rev = deliveries[1].rev /\ entry.message = deliveries[1].message
            /\ entry.key = deliveries[1].key /\ entry.target = deliveries[1].target
        BY <2>2 DEF Delivery
      <4>2. deliveries' = [deliveries EXCEPT ![1] = entry]
        BY <2>2, <3>2
      <4> QED
        BY <4>1, <4>2
    <3> QED
      BY <1>4, <3>1, <3>2 DEF ConfirmDelivery, ReconcileDelivery
  <2>4. DOMAIN deliveries' = {1} /\ deliveries'[1] = entry /\ deliveries' /= <<>>
    <3>1. deliveries \in Seq(Delivery)
      BY DEF IInv, TypeOK
    <3>2. DOMAIN deliveries' = {1} /\ deliveries'[1] = entry
      BY <2>2, <2>3, <3>1
    <3> QED
      BY <3>2
  <2>5. PICK effect \in EffectsOf("deliver") :
          /\ effect.id = deliveries[1].message /\ effect.rev = deliveries[1].rev
          /\ effect.key = deliveries[1].key /\ effect.target = deliveries[1].target
    BY <2>2 DEF RecordsMatchProvider
  <2>6. effect \in EffectsOf("deliver")' /\ (state' = "complete" => mail'[effect.id] = "delivered")
    BY <1>0, <2>1, <2>2, <2>5 DEF EffectsOf
  <2>7. publication' /= None =>
          \E e \in EffectsOf("publish")' :
            publication' = [rev |-> e.rev, digest |-> e.digest, key |-> e.key, receipt |-> e.id]
    BY <1>0, <2>1 DEF RecordsMatchProvider, EffectsOf
  <2> QED
    BY <2>3, <2>4, <2>5, <2>6, <2>7 DEF RecordsMatchProvider, SentIsRecorded
<1> QED
  BY <1>1, <1>2, <1>3, <1>4, RecordMoves

-----------------------------------------------------------------------------
(* Theorems                                                                 *)

\* The invariant of the system: the job's own, and the world's.
SystemInv == IInv /\ ReleaseInv /\ WorldInv

\* A new job, with workers at rest and providers that hold nothing.
LEMMA InitWorld == Init => SystemInv
<1> SUFFICES ASSUME Init PROVE SystemInv
  OBVIOUS
<1>1. IInv /\ ReleaseInv
  BY InitInductive, ReleaseInductive DEF Init
<1>2. WorldType
  BY IdleContext DEF Init, WorldType, DeliveryOutcomes
<1>3. WorkersInHand
  BY IdleContext DEF Init, WorkersInHand, InHand
<1>4. OneBinding
  BY DEF Init, JobInit, OneBinding, EffectStages, Stages
<1>5. EffectsInOrder /\ SentIsRecorded /\ StatusesRead
  BY DEF Init, JobInit, EffectsInOrder, SentIsRecorded, StatusesRead
<1>6. RecordsMatchProvider
  BY DEF Init, JobInit, RecordsMatchProvider
<1> QED
  BY <1>1, <1>2, <1>3, <1>4, <1>5, <1>6 DEF SystemInv, WorldInv

\* Every step is a store command, or none, and keeps the invariant.
LEMMA StepWorld ==
  ASSUME Times = Nat, SystemInv, [Next]_vars
  PROVE  [JobNext]_jobVars /\ SystemInv'
<1> USE DEF SystemInv
<1>1. CASE Next
  <2>1. [JobNext]_jobVars
    BY <1>1, StepsAreCommands DEF WorldInv
  <2>2. IInv' /\ ReleaseInv'
    BY <2>1, StepInductive, ReleaseInductive
  <2>3. EffectsInOrder'
    BY <1>1, StepKeepsEffects
  <2> QED
    BY <1>1, <2>1, <2>2, <2>3, StepKeepsWorldType, StepKeepsOneBinding, StepKeepsStatuses,
       StepKeepsRecords DEF WorldInv
<1>2. CASE UNCHANGED vars
  <2>1. UNCHANGED jobVars
    BY <1>2 DEF vars
  <2>2. IInv' /\ ReleaseInv'
    BY <2>1, StepInductive, ReleaseInductive
  <2>3. JobSteps /\ effects \subseteq effects' /\ UNCHANGED worker
    BY <1>2, <2>1 DEF JobSteps, vars
  <2>4. WorkersInHand'
    BY <2>3, ContextStays DEF WorldInv, WorkersInHand
  <2>5. WorldType' /\ StatusesRead'
    BY <1>2 DEF vars, WorldInv, WorldType, StatusesRead
  <2>6. OneBinding' /\ SentIsRecorded'
    BY <2>1 DEF jobVars, WorldInv, OneBinding, SentIsRecorded
  <2>7. ReleaseDigest' = ReleaseDigest
    BY <2>1, EligibilityKept DEF jobVars, Judgement
  <2>8. EffectsInOrder'
    BY <1>2, <2>1, <2>7 DEF vars, jobVars, WorldInv, EffectsInOrder, EffectOfRelease
  <2>9. RecordsMatchProvider'
    BY <1>2, <2>1 DEF vars, jobVars, WorldInv, RecordsMatchProvider, EffectsOf
  <2> QED
    BY <2>1, <2>2, <2>4, <2>5, <2>6, <2>8, <2>9 DEF WorldInv
<1> QED
  BY <1>1, <1>2

\* The invariant holds however many workers, callers and pollers take part.
THEOREM SystemInvariant ==
  ASSUME Times = Nat
  PROVE  Spec => []SystemInv
<1>1. SystemInv /\ [Next]_vars => SystemInv'
  BY StepWorld
<1> QED
  BY <1>1, InitWorld, PTL DEF Spec

\* The workers, whatever they remember, replay, retry or lose, drive their job by
\* commands a client of the store may send, and number their claims as it does:
\* all that JobSpec promises holds of the system.
THEOREM StoreCommandsOnly ==
  ASSUME Times = Nat
  PROVE  Spec => IssuesStoreCommands
<1>1. Init => JobInit
  BY DEF Init
<1>2. SystemInv /\ [Next]_vars => [JobNext]_jobVars
  BY StepWorld
<1> QED
  BY <1>1, <1>2, SystemInvariant, PTL DEF Spec, IssuesStoreCommands, JobSpec

\* So the job is as good as its store's commands keep it, with any number of
\* workers, crashes and slow clocks: leases stay exclusive, what is released stays
\* approved and on record under one key, the ids workers derive are new, and work
\* that is queued can be claimed.
THEOREM JobStaysGood ==
  ASSUME Times = Nat
  PROVE  Spec => /\ [](OneLease /\ CommandsApplyOnce /\ WorkCanGoOn)
                 /\ [](ApprovalOutlivesRelease /\ ReleasedAsApproved /\ OneKeyPerEffect)
                 /\ RecordsStand
BY StoreCommandsOnly, LeaseExclusive, CommandsCountOnce, WorkNeverStuck, ApprovalsStand,
   RecordsAreApproved, EffectsShareAKey, RecordIsFinal, PTL
   DEF IssuesStoreCommands

\* An effect the provider holds rests on a paid job and its standing approvals.
LEMMA HeldIsApproved ==
  ASSUME SystemInv, NEW effect \in effects
  PROVE  /\ payment = JobCorrelation /\ InRelease /\ ReleaseEligible
         /\ effect.rev = currentRevision /\ effect.digest = ReleaseDigest
         /\ ReleaseDigest \in Digests
         /\ effect.key.stage = "deliver" => PublishedExactly
<1> DEFINE stage == effect.key.stage
<1>1. EffectOfRelease(effect) /\ currentRevision \in Revisions
  BY DEF SystemInv, WorldInv, EffectsInOrder, IInv, TypeOK
<1>2. stage \in EffectStages /\ stage \in Stages /\ attempts[stage][currentRevision] /= <<>>
  BY <1>1 DEF EffectOfRelease, EffectStages, Stages
<1>3. 1 \in 1 .. Len(attempts[stage][currentRevision])
  <2>1. attempts[stage][currentRevision] \in Seq(Attempt)
    BY <1>1, <1>2, AttemptLogs DEF SystemInv, IInv
  <2> QED
    BY <1>2, <2>1
<1>4. InRelease /\ ReleaseEligible /\ (stage = "deliver" => PublishedExactly)
  BY <1>1, <1>2, <1>3 DEF EffectStages, SystemInv, ReleaseInv, PublishAttempts, DeliverAttempts
<1>5. payment = JobCorrelation
  BY <1>4 DEF SystemInv, ReleaseInv, Paid, InRelease, InPublication, PastPublication
<1>6. ReleaseDigest \in Digests
  BY <1>4, ReleaseDigestType, EligibleIsApproved DEF SystemInv, IInv
<1> QED
  BY <1>1, <1>4, <1>5, <1>6 DEF EffectOfRelease

\* Nothing is public or sent that the standing approvals of a paid job do not
\* name, whichever worker asked for it, in time or after its lease.
THEOREM ProvidersHoldApproved ==
  ASSUME Times = Nat
  PROVE  Spec => []EffectsAreApproved
<1>1. SystemInv => EffectsAreApproved
  BY HeldIsApproved, EligibleIsApproved DEF EffectsAreApproved, SystemInv, IInv
<1> QED
  BY <1>1, SystemInvariant, PTL

\* Effects of one stage are one effect: they have the same key.
LEMMA OneOfAStage ==
  ASSUME SystemInv, NEW effect \in effects, NEW other \in effects,
         effect.key.stage = other.key.stage
  PROVE  effect = other
BY DEF SystemInv, WorldInv, EffectsInOrder, EffectOfRelease

\* The customer sees one publication and gets one message, however many workers
\* act, crash and act again.
THEOREM EffectsHappenOnce ==
  ASSUME Times = Nat
  PROVE  Spec => []OneEffectPerStage
<1>1. ASSUME SystemInv, NEW stage \in EffectStages
      PROVE  Cardinality(EffectsOf(stage)) <= 1
  <2>1. CASE EffectsOf(stage) = {}
    BY <2>1, FS_EmptySet
  <2>2. CASE EffectsOf(stage) /= {}
    <3>1. PICK effect \in EffectsOf(stage) : TRUE
      BY <2>2
    <3>2. EffectsOf(stage) = {effect}
      BY <1>1, <3>1, OneOfAStage DEF EffectsOf
    <3>3. Cardinality({effect}) = 1
      BY FS_Singleton
    <3> QED
      BY <3>2, <3>3
  <2> QED
    BY <2>1, <2>2
<1>2. SystemInv => OneEffectPerStage
  BY <1>1 DEF OneEffectPerStage
<1> QED
  BY <1>2, SystemInvariant, PTL

\* The first claim of a delivery fixes its target, for every retry and for the
\* message itself.
THEOREM TargetIsKept ==
  ASSUME Times = Nat
  PROVE  Spec => []OneTarget
<1>1. SystemInv => OneTarget
  <2> SUFFICES ASSUME SystemInv, NEW rev \in Revisions,
                      NEW n \in 1 .. Len(attempts["deliver"][rev])
               PROVE  /\ attempts["deliver"][rev][n].binding = attempts["deliver"][rev][1].binding
                      /\ \A effect \in EffectsOf("deliver") :
                           effect.target = attempts["deliver"][rev][n].binding
    BY DEF OneTarget
  <2>1. attempts["deliver"][rev][n].binding = attempts["deliver"][rev][1].binding
    BY DEF SystemInv, WorldInv, OneBinding, EffectStages
  <2>2. rev = currentRevision
    BY DEF SystemInv, ReleaseInv, DeliverAttempts
  <2>3. \A effect \in EffectsOf("deliver") :
          effect.target = attempts["deliver"][currentRevision][1].binding
    BY DEF SystemInv, WorldInv, EffectsInOrder, EffectOfRelease, EffectsOf
  <2> QED
    BY <2>1, <2>2, <2>3
<1> QED
  BY <1>1, SystemInvariant, PTL

\* The job records what the provider holds, and completion only of a message the
\* provider delivered.
THEOREM RecordsAreHeld ==
  ASSUME Times = Nat
  PROVE  Spec => []RecordsMatchProvider
<1>1. SystemInv => RecordsMatchProvider
  BY DEF SystemInv, WorldInv
<1> QED
  BY <1>1, SystemInvariant, PTL

\* A worker that acts under a key another worker acted under asks for the same.
THEOREM SameKeySameRequest ==
  ASSUME Times = Nat
  PROVE  Spec => []KeyAsksTheSame
<1>1. SystemInv => KeyAsksTheSame
  <2> SUFFICES ASSUME SystemInv, NEW w \in Workers, worker[w].pc = "acting",
                      NEW effect \in EffectsUnder(OwnKey(worker[w]))
               PROVE  /\ effect.rev = worker[w].rev /\ effect.digest = worker[w].digest
                      /\ effect.target = worker[w].binding
    BY DEF KeyAsksTheSame
  <2> DEFINE context == worker[w]
             stage == context.stage
  <2>1. stage \in EffectStages /\ AttemptInHand(context) /\ context.rev \in Revisions
    BY DEF SystemInv, WorldInv, WorkersInHand, InHand, WorldType, Context
  <2>2. effect \in effects /\ effect.key.stage = stage /\ EffectOfRelease(effect)
    BY DEF EffectsUnder, OwnKey, KeyOf, SystemInv, WorldInv, EffectsInOrder
  <2>3. /\ context.n \in 1 .. Len(attempts[stage][context.rev])
        /\ context.binding = attempts[stage][context.rev][context.n].binding
        /\ context.digest = ReleaseDigest
    BY <2>1 DEF AttemptInHand
  <2>4. context.rev = currentRevision
    BY <2>1, <2>3 DEF EffectStages, SystemInv, ReleaseInv, PublishAttempts, DeliverAttempts
  <2>5. stage \in Stages /\ Len(attempts[stage][currentRevision]) \in Nat
    BY <2>1, <2>4, AttemptLogs DEF EffectStages, Stages, SystemInv, IInv
  <2>6. 1 \in 1 .. Len(attempts[stage][currentRevision])
    BY <2>3, <2>4, <2>5
  <2>7. context.binding = attempts[stage][currentRevision][1].binding
    BY <2>1, <2>3, <2>4, <2>6 DEF SystemInv, WorldInv, OneBinding
  <2> QED
    BY <2>2, <2>3, <2>4, <2>7 DEF EffectOfRelease
<1> QED
  BY <1>1, SystemInvariant, PTL

-----------------------------------------------------------------------------
(* Refinement of ReleaseContract                                            *)

Approval == IF ReleaseEligible THEN [rev |-> currentRevision, digest |-> ReleaseDigest]
                               ELSE None
ApprovalType == Approval \in [rev: Revisions, digest: Digests] \cup {None}

\* What an eligible release names is a revision and an artifact set of it.
LEMMA ApprovalIsTyped == SystemInv => ApprovalType
<1> SUFFICES ASSUME SystemInv, ReleaseEligible
             PROVE  [rev |-> currentRevision, digest |-> ReleaseDigest] \in [rev: Revisions, digest: Digests]
  BY DEF ApprovalType, Approval
<1>1. ReleaseDigest \in Digests /\ currentRevision \in Revisions
  BY ReleaseDigestType, EligibleIsApproved DEF SystemInv, IInv, TypeOK
<1> QED
  BY <1>1

\* Nothing is approved, public, announced or done at the start.
LEMMA ContractInit == Init => Contract!Init
<1> SUFFICES ASSUME Init PROVE Contract!Init
  OBVIOUS
<1>1. ~ReleaseEligible
  BY RevisionsAreNaturals DEF Init, JobInit, ReleaseEligible, LatestApproved, ReviewTypes
<1> QED
  BY <1>1 DEF Init, JobInit, Contract!Init, EffectsOf

\* Acting publishes what is approved, announces what is public, or changes nothing.
LEMMA ActKeepsContract ==
  ASSUME SystemInv, EffectsInOrder', NEW w \in Workers, Act(w)
  PROVE  Contract!Next \/ UNCHANGED Contract!vars
<1> DEFINE context == worker[w]
           stage == context.stage
<1> USE DEF SystemInv, WorldInv
<1>1. /\ stage \in EffectStages /\ AttemptInHand(context) /\ UNCHANGED jobVars
      /\ context.rev \in Revisions /\ InHand(context) /\ JobSteps
  BY DEF WorkersInHand, WorldType, Context, InHand, Act, JobSteps
<1>2. PICK effect \in Effect :
        /\ effects' = effects \cup {effect}
        /\ effect.key = OwnKey(context)
        /\ effect \in effects \/ EffectsUnder(OwnKey(context)) = {}
  BY <1>1, ActAdds
<1>3. UNCHANGED <<Approval, state>>
  BY <1>1, EligibilityKept DEF jobVars, Judgement, Approval
<1>4. CASE effect \in effects
  <2>1. effects' = effects
    BY <1>2, <1>4
  <2> QED
    BY <1>3, <2>1 DEF Contract!vars, Approval, EffectsOf, Content
<1>5. CASE EffectsUnder(OwnKey(context)) = {}
  <2>1. /\ context.n \in 1 .. Len(attempts[stage][context.rev])
        /\ context.rev = currentRevision /\ ReleaseEligible
        /\ attempts[stage][context.rev][context.n].op = 1
    BY <1>1, ReleaseStands DEF AttemptInHand
  <2>2. OwnKey(context) = [rev |-> currentRevision, stage |-> stage, op |-> 1]
    BY <2>1 DEF OwnKey, KeyOf
  <2>3. EffectsOf(stage) = {}
    BY <1>5, <2>2 DEF EffectsInOrder, EffectOfRelease, EffectsOf, EffectsUnder
  <2>4. /\ effect.key.stage = stage /\ effect.rev = currentRevision
        /\ effect.digest = ReleaseDigest
        /\ effect.target = attempts[stage][currentRevision][1].binding
    <3>1. EffectOfRelease(effect)'
      BY <1>2 DEF EffectsInOrder
    <3>2. ReleaseDigest' = ReleaseDigest
      BY <1>1, EligibilityKept DEF jobVars, Judgement
    <3> QED
      BY <1>1, <1>2, <2>2, <3>1, <3>2 DEF EffectOfRelease, jobVars
  <2>5. Content(effect) = Approval /\ Approval /= None /\ effect.id \in Messages
    <3>1. Approval = [rev |-> currentRevision, digest |-> ReleaseDigest]
      BY <2>1 DEF Approval
    <3>2. Approval \in [rev: Revisions, digest: Digests]
      BY <2>4, <3>1 DEF Effect
    <3> QED
      BY <2>4, <3>1, <3>2, ConstantsAssumption DEF Content, Effect
  <2>6. CASE stage = "publish"
    <3>1. EffectsOf("publish") = {} /\ EffectsOf("publish")' = {effect}
            /\ EffectsOf("deliver")' = EffectsOf("deliver")
      BY <1>2, <2>3, <2>4, <2>6 DEF EffectsOf
    <3>2. Contract!Publish
      BY <1>3, <2>5, <3>1 DEF Contract!Publish, Approval, Content
    <3> QED
      BY <3>2 DEF Contract!Next
  <2>7. CASE stage = "deliver"
    <3>1. EffectsOf("deliver") = {} /\ EffectsOf("deliver")' = {effect}
            /\ EffectsOf("publish")' = EffectsOf("publish")
      BY <1>2, <2>3, <2>4, <2>7 DEF EffectsOf
    <3>2. PICK made \in EffectsOf("publish") : TRUE
      <4>1. PublishedExactly
        BY <1>1, <2>1, <2>7 DEF ReleaseInv, DeliverAttempts
      <4>2. publication /= None
        BY <4>1 DEF PublishedExactly
      <4> QED
        BY <4>2 DEF RecordsMatchProvider
    <3>3. Content(made) = Approval
      BY <2>1 DEF EffectsOf, EffectsInOrder, EffectOfRelease, Content, Approval
    <3>4. effect.target \in Targets
      <4>1. Len(attempts["deliver"][currentRevision]) \in Nat
        BY <1>1, <2>1, AttemptLogs DEF IInv, Stages
      <4>2. 1 \in 1 .. Len(attempts["deliver"][currentRevision])
        BY <2>1, <2>7, <4>1
      <4> QED
        BY <1>1, <2>1, <2>4, <2>7, <4>2 DEF IInv, DeliveriesBound
    <3>5. Contract!Announce
      <4> DEFINE public == {[content |-> Content(e), receipt |-> e.id] : e \in EffectsOf("publish")}
                 announced == {[content |-> Content(e), receipt |-> e.id, who |-> e.target] :
                                 e \in EffectsOf("deliver")}
      <4>1. \E item \in public : item.content = Approval
        <5> DEFINE shown == [content |-> Content(made), receipt |-> made.id]
        <5>1. shown \in public
          BY <3>2
        <5>2. shown.content = Approval
          BY <3>3
        <5> QED
          BY <5>1, <5>2
      <4>2. announced = {}
        BY <3>1
      <4>3. announced' = {[content |-> Approval, receipt |-> effect.id, who |-> effect.target]}
        BY <2>5, <3>1 DEF Content
      <4>4. Approval' = Approval /\ public' = public /\ (state = "complete")' = (state = "complete")
        BY <1>3, <3>1 DEF Content
      <4> QED
        BY <2>5, <3>4, <4>1, <4>2, <4>3, <4>4 DEF Contract!Announce, Approval
    <3> QED
      BY <3>5 DEF Contract!Next
  <2> QED
    BY <1>1, <2>6, <2>7 DEF EffectStages
<1> QED
  BY <1>2, <1>4, <1>5

\* A command on the job judges what is not public yet, or completes what was sent.
LEMMA CommandKeepsContract ==
  ASSUME SystemInv, SystemInv', ApprovalType', JobNext, UNCHANGED effects
  PROVE  Contract!Next \/ UNCHANGED Contract!vars
<1>1. PICK at \in Times : WorkerCommand(at) \/ CallerCommand(at)
  BY DEF JobNext
<1>2. state /= "complete"
  BY <1>1, CompleteIsFinal DEF SystemInv, IInv
<1>3. CASE UNCHANGED Judgement
  <2>1. UNCHANGED Approval
    BY <1>3, EligibilityKept DEF Approval, Judgement
  <2>2. CASE state' /= "complete"
    BY <1>2, <2>1, <2>2 DEF Contract!vars, Approval, EffectsOf, Content
  <2>3. CASE state' = "complete"
    <3>1. deliveries' /= <<>> /\ deliveries' \in Seq(Delivery)
      BY <2>3 DEF SystemInv, WorldInv, SentIsRecorded, IInv, TypeOK
    <3>2. 1 \in DOMAIN deliveries'
      BY <3>1
    <3>3. EffectsOf("deliver") /= {}
      BY <3>2 DEF SystemInv, WorldInv, RecordsMatchProvider, EffectsOf
    <3>4. Contract!Finish
      BY <2>1, <2>3, <3>3 DEF Contract!Finish, Approval, EffectsOf, Content
    <3> QED
      BY <3>4 DEF Contract!Next
  <2> QED
    BY <2>2, <2>3
<1>4. CASE ~InRelease /\ state' /= "complete"
  <2>1. effects = {}
    BY <1>4, HeldIsApproved
  <2>2. Contract!Judge
    BY <1>2, <1>4, <2>1 DEF Contract!Judge, ApprovalType, Approval, EffectsOf, Content
  <2> QED
    BY <2>2 DEF Contract!Next
<1> QED
  BY <1>1, <1>3, <1>4, JudgementSettles DEF SystemInv, IInv

\* Every step of the system is a step of the contract, or none.
LEMMA ContractStep ==
  ASSUME Times = Nat, SystemInv, SystemInv', ApprovalType', [Next]_vars
  PROVE  [Contract!Next]_Contract!vars
<1>1. CASE UNCHANGED jobVars /\ UNCHANGED effects
  <2>1. UNCHANGED Approval
    BY <1>1, EligibilityKept DEF Approval, jobVars, Judgement
  <2> QED
    BY <1>1, <2>1 DEF jobVars, Contract!vars, Approval, EffectsOf, Content
<1>2. CASE Next /\ ~(UNCHANGED jobVars /\ UNCHANGED effects)
  <2>1. CASE \E w \in Workers : Act(w)
    BY <2>1, ActKeepsContract DEF SystemInv, WorldInv
  <2>2. CASE UNCHANGED effects
    <3>1. JobNext
      BY <1>2, <2>2, StepsAreCommands DEF SystemInv, WorldInv
    <3> QED
      BY <2>2, <3>1, CommandKeepsContract
  <2> QED
    BY <1>2, <2>1, <2>2, WorldMoves DEF SystemInv, WorldInv
<1>3. CASE UNCHANGED vars
  BY <1>1, <1>3 DEF vars
<1> QED
  BY <1>1, <1>2, <1>3

\* The system implements the contract: one publication at most, of what stands
\* approved, one message at most after it, and completion after that.
THEOREM ImplementsContract ==
  ASSUME Times = Nat
  PROVE  Spec => KeepsContract
<1>1. SystemInv /\ SystemInv' /\ ApprovalType' /\ [Next]_vars => [Contract!Next]_Contract!vars
  BY ContractStep
<1> QED
  BY <1>1, ContractInit, ApprovalIsTyped, SystemInvariant, PTL DEF Spec, KeepsContract, Contract!Spec
=============================================================================

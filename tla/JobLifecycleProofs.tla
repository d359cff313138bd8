------------------------- MODULE JobLifecycleProofs -------------------------
(***************************************************************************)
(* Theorems about JobLifecycle, for every number of revisions, attempts    *)
(* and commands, and for every retry policy.                               *)
(***************************************************************************)
EXTENDS JobLifecycle, FiniteSetTheorems, TLAPS

\* A stage's queued and running states are states, and tell the stages apart.
LEMMA StageStates ==
  /\ \A stage \in Stages : /\ QueuedState(stage) \in QueuedStates
                           /\ RunningState(stage) \in RunningStates
                           /\ QueuedState(stage) \in States
                           /\ RunningState(stage) \in States
  /\ QueuedStates \cap RunningStates = {}
  /\ \A stage, other \in Stages :
       RunningState(stage) = RunningState(other) => stage = other
  /\ \A stage, other \in Stages :
       QueuedState(stage) = QueuedState(other) => stage = other
BY DEF Stages, QueuedStates, RunningStates, QueuedState, RunningState, States

\* Revisions are ordinals from 0, which stands for no revision yet.
LEMMA RevisionsAreNaturals == Revisions \subseteq Nat /\ 0 \in Revisions
BY PolicyAssumption DEF Revisions

\* Appending an artifact set keeps the log a log, and never an empty one.
LEMMA WithArtifactSetType ==
  ASSUME NEW sets \in Seq(Digests), NEW digest \in Digests
  PROVE  WithArtifactSet(sets, digest) \in Seq(Digests) /\ WithArtifactSet(sets, digest) /= <<>>
BY DEF WithArtifactSet

\* Every delivery attempt is bound to a target: without this a completed one
\* could record a delivery to nobody, and TypeOK would not be inductive.
DeliveriesBound ==
  \A rev \in Revisions : \A n \in 1 .. Len(attempts["deliver"][rev]) :
    attempts["deliver"][rev][n].binding \in Targets

\* The attempts of a stage on a revision are a sequence, numbered from 1.
LEMMA AttemptLogs ==
  ASSUME TypeOK, NEW stage \in Stages, NEW rev \in Revisions
  PROVE  /\ attempts[stage][rev] \in Seq(Attempt)
         /\ Len(attempts[stage][rev]) \in Nat
         /\ DOMAIN attempts[stage][rev] = 1 .. Len(attempts[stage][rev])
         /\ \A n \in 1 .. Len(attempts[stage][rev]) : attempts[stage][rev][n] \in Attempt
BY DEF TypeOK

\* The next operation of a stage is a natural number: attempts are finitely many.
LEMMA NextOperationType ==
  ASSUME TypeOK, NEW stage \in Stages
  PROVE  NextOperation(stage) \in Nat
<1> DEFINE log == attempts[stage][currentRevision]
           done == {n \in 1 .. Len(log) : log[n].status = "completed"}
<1>1. currentRevision \in Revisions
  BY DEF TypeOK
<1>2. Len(log) \in Nat
  BY <1>1, AttemptLogs
<1>3. IsFiniteSet(1 .. Len(log))
  BY <1>2, FS_Interval
<1>4. IsFiniteSet(done)
  BY <1>3, FS_Subset
<1>5. Cardinality(done) \in Nat
  BY <1>4, FS_CardinalityType
<1> QED
  BY <1>5 DEF NextOperation

\* Closing an attempt keeps the log of attempts a log.
LEMMA CloseAttemptType ==
  ASSUME TypeOK, NEW stage \in Stages, NEW rev \in Revisions,
         NEW n \in 1 .. Len(attempts[stage][rev]),
         NEW status \in {"retry_wait", "failed", "completed"},
         CloseAttempt(stage, rev, n, status)
  PROVE  attempts' \in [Stages -> [Revisions -> Seq(Attempt)]]
<1> DEFINE log == attempts[stage][rev]
           entry == [log[n] EXCEPT !.status = status, !.expires = 0]
           closed == [log EXCEPT ![n] = entry]
<1>1. log \in Seq(Attempt) /\ log[n] \in Attempt
  BY AttemptLogs
<1>2. closed \in Seq(Attempt)
  <2>1. entry \in Attempt
    BY <1>1 DEF Attempt
  <2> HIDE DEF entry, log
  <2> QED
    BY <1>1, <2>1 DEF log
<1>3. attempts' = [attempts EXCEPT ![stage][rev] = closed]
  BY DEF CloseAttempt, TypeOK
<1> QED
  BY <1>2, <1>3 DEF TypeOK

\* An accepted command is stamped and counted.
LEMMA AcceptType ==
  ASSUME TypeOK, NEW id \in EventIds, NEW at \in Nat, Accept(id, at)
  PROVE  events' \subseteq EventIds /\ version' \in Nat /\ updatedAt' \in Nat
BY DEF Accept, TypeOK

\* A command stamps the job, and so is a step of it.
LEMMA CommandIsStep ==
  ASSUME NEW at \in Times, WorkerCommand(at) \/ CallerCommand(at)
  PROVE  JobNext
<1>1. CASE WorkerCommand(at)
  <2>1. updatedAt' = at
    <3>1. /\ \A stage, rev, n, binding : ClaimStage(stage, rev, n, binding, at) => updatedAt' = at
          /\ \A id, stage, rev, n, reason, retryable :
               FailStage(id, stage, rev, n, reason, retryable, at) => updatedAt' = at
          /\ \A id : ResumeRetry(id, at) => updatedAt' = at
      BY DEF ClaimStage, FailStage, ResumeRetry, Accept
    <3>2. \A rev, n, d :
            /\ \A ordinal : CompletePrepare(rev, n, ordinal, d, at) => updatedAt' = at
            /\ CompleteRender(rev, n, d, at) => updatedAt' = at
            /\ CompleteNarration(rev, n, d, at) => updatedAt' = at
            /\ CompletePublish(rev, n, d, at) => updatedAt' = at
            /\ CompleteDeliver(rev, n, d, at) => updatedAt' = at
      BY DEF CompletePrepare, CompleteRender, CompleteNarration, CompletePublish,
             CompleteDeliver, Commit, Accept
    <3> QED
      BY <1>1, <3>1, <3>2, Zenon DEF WorkerCommand
  <2> QED
    BY <1>1, <2>1 DEF JobNext
<1>2. CASE CallerCommand(at)
  <2>1. updatedAt' = at
    BY <1>2 DEF CallerCommand, CreateJob, RecordPayment, RecordReviewDecision, QueueDelivery,
       ConfirmDelivery, ReconcileDelivery, Accept
  <2> QED
    BY <1>2, <2>1 DEF JobNext
<1> QED
  BY <1>1, <1>2

-----------------------------------------------------------------------------
(* Types, one lemma per group of commands.                                  *)

\* The job that does not exist yet is well typed.
LEMMA InitType == JobInit => TypeOK
BY RevisionsAreNaturals DEF JobInit, TypeOK, States, Kinds, ReviewTypes, Stages

\* No command of a caller (payment, review, delivery) breaks the types.
LEMMA CallerType ==
  ASSUME TypeOK, NEW at \in Times, CallerCommand(at)
  PROVE  TypeOK'
<1> USE ConstantsAssumption, PolicyAssumption
<1>0. at \in Nat
  OBVIOUS
<1>1. ASSUME NEW narrated \in NarrationChoices, CreateJob(narrated, at)
      PROVE  TypeOK'
  <2>1. events' \subseteq EventIds /\ version' \in Nat /\ updatedAt' \in Nat
    BY <1>0, <1>1, AcceptType DEF CreateJob, EventIds
  <2> QED
    BY <1>1, <2>1 DEF CreateJob, TypeOK, States
<1>2. ASSUME NEW call \in CallsToTry
      PROVE  <<"call", call>> \in EventIds
  BY <1>2 DEF CallsToTry, EventIds
<1>3. ASSUME NEW call \in CallsToTry, NEW correlation \in Correlations,
             RecordPayment(call, correlation, at)
      PROVE  TypeOK'
  <2>1. events' \subseteq EventIds /\ version' \in Nat /\ updatedAt' \in Nat
    BY <1>0, <1>2, <1>3, AcceptType DEF RecordPayment
  <2>2. "generation_queued" \in States
    BY DEF States, QueuedStates, QueuedState, Stages
  <2> QED
    BY <1>3, <2>1, <2>2 DEF RecordPayment, TypeOK
<1>4. ASSUME NEW call \in CallsToTry, NEW type \in ReviewTypes, NEW rev \in Revisions,
             NEW outcome \in Outcomes, NEW digest \in Digests,
             RecordReviewDecision(call, type, rev, outcome, digest, at)
      PROVE  TypeOK'
  <2>1. events' \subseteq EventIds /\ version' \in Nat /\ updatedAt' \in Nat
    BY <1>0, <1>2, <1>4, AcceptType DEF RecordReviewDecision
  <2>2. StateAfterReview(type, outcome) \in States
    BY DEF StateAfterReview, Outcomes, ReviewTypes, States, QueuedStates, QueuedState, Stages,
           TerminalStates
  <2>3. decisions' \in [ReviewTypes -> [Revisions -> Seq(Decision)]]
    <3>1. [outcome |-> outcome, digest |-> digest] \in Decision
      BY DEF Decision
    <3> QED
      BY <1>4, <3>1 DEF RecordReviewDecision, TypeOK
  <2> QED
    BY <1>4, <2>1, <2>2, <2>3 DEF RecordReviewDecision, TypeOK
<1>5. ASSUME NEW call \in CallsToTry, QueueDelivery(call, at)
      PROVE  TypeOK'
  <2>1. events' \subseteq EventIds /\ version' \in Nat /\ updatedAt' \in Nat
    BY <1>0, <1>2, <1>5, AcceptType DEF QueueDelivery
  <2>2. "delivery_queued" \in States
    BY DEF States, QueuedStates, QueuedState, Stages
  <2> QED
    BY <1>5, <2>1, <2>2 DEF QueueDelivery, TypeOK
<1>6. ASSUME NEW outcome \in DeliveryOutcomes, deliveries /= <<>>
      PROVE  [deliveries EXCEPT ![Len(deliveries)].outcome = outcome] \in Seq(Delivery)
  <2> DEFINE entry == [deliveries[Len(deliveries)] EXCEPT !.outcome = outcome]
  <2>1. Len(deliveries) \in 1 .. Len(deliveries) /\ deliveries[Len(deliveries)] \in Delivery
    BY <1>6 DEF TypeOK
  <2>2. entry \in Delivery
    BY <2>1 DEF Delivery
  <2> HIDE DEF entry
  <2>3. [deliveries EXCEPT ![Len(deliveries)] = entry] \in Seq(Delivery)
    BY <2>1, <2>2 DEF TypeOK
  <2> QED
    BY <2>3 DEF entry
<1>7. ASSUME MarkDelivered, deliveries /= <<>>
      PROVE  deliveries' \in Seq(Delivery) /\ state' \in States
  <2> DEFINE entry == [deliveries[Len(deliveries)] EXCEPT !.status = "delivered",
                                                          !.outcome = "delivered"]
  <2>1. Len(deliveries) \in 1 .. Len(deliveries) /\ deliveries[Len(deliveries)] \in Delivery
    BY <1>7 DEF TypeOK
  <2>2. entry \in Delivery
    BY <2>1 DEF Delivery, DeliveryOutcomes
  <2>3. deliveries' = [deliveries EXCEPT ![Len(deliveries)] = entry]
    BY <1>7 DEF MarkDelivered
  <2> HIDE DEF entry
  <2>4. deliveries' \in Seq(Delivery)
    BY <2>1, <2>2, <2>3 DEF TypeOK
  <2> QED
    BY <1>7, <2>4 DEF MarkDelivered, States, TerminalStates
<1>8. ASSUME NEW call \in CallsToTry, NEW message \in Messages,
             ConfirmDelivery(call, message, at)
      PROVE  TypeOK'
  <2>1. events' \subseteq EventIds /\ version' \in Nat /\ updatedAt' \in Nat
    BY <1>0, <1>2, <1>8, AcceptType DEF ConfirmDelivery
  <2>2. deliveries' \in Seq(Delivery) /\ state' \in States
    BY <1>7, <1>8 DEF ConfirmDelivery, CanSettleDelivery
  <2> QED
    BY <1>8, <2>1, <2>2 DEF ConfirmDelivery, TypeOK
<1>9. ASSUME NEW call \in CallsToTry, NEW message \in Messages,
             NEW outcome \in DeliveryOutcomes,
             ReconcileDelivery(call, message, outcome, at)
      PROVE  TypeOK'
  <2>1. events' \subseteq EventIds /\ version' \in Nat /\ updatedAt' \in Nat
    BY <1>0, <1>2, <1>9, AcceptType DEF ReconcileDelivery
  <2>2. deliveries' \in Seq(Delivery) /\ state' \in States
    BY <1>6, <1>7, <1>9 DEF ReconcileDelivery, CanSettleDelivery, TypeOK
  <2> QED
    BY <1>9, <2>1, <2>2 DEF ReconcileDelivery, TypeOK
<1> QED
  BY <1>1, <1>3, <1>4, <1>5, <1>8, <1>9 DEF CallerCommand

\* A claim appends an attempt.
LEMMA ClaimType ==
  ASSUME TypeOK, NEW at \in Times, NEW stage \in Stages, NEW binding \in Targets \cup {None},
         ClaimStage(stage, currentRevision, NextAttempt(stage), binding, at)
  PROVE  TypeOK'
<1> USE ConstantsAssumption, PolicyAssumption
<1> DEFINE attempt == [op |-> NextOperation(stage), binding |-> binding,
                       status |-> "running", expires |-> at + LeaseMs[stage]]
           id == <<"claim", stage, currentRevision, NextAttempt(stage)>>
<1>1. attempt \in Attempt
  <2>1. at + LeaseMs[stage] \in Nat
    OBVIOUS
  <2> QED
    BY <2>1, NextOperationType DEF Attempt
<1>2. currentRevision \in Revisions
  BY DEF TypeOK
<1>3. Append(attempts[stage][currentRevision], attempt) \in Seq(Attempt)
  BY <1>1, <1>2, AttemptLogs
<1>4. attempts' \in [Stages -> [Revisions -> Seq(Attempt)]]
  BY <1>2, <1>3 DEF ClaimStage, TypeOK
<1>5. id \in EventIds
  BY <1>2, AttemptLogs DEF EventIds, NextAttempt
<1>6. Accept(id, at)
  BY DEF ClaimStage
<1>7. events' \subseteq EventIds /\ version' \in Nat /\ updatedAt' \in Nat
  BY <1>5, <1>6, AcceptType
<1> QED
  BY <1>4, <1>7, StageStates DEF ClaimStage, TypeOK

\* A completion closes an attempt and records what the stage produced.
LEMMA CommitType ==
  ASSUME TypeOK, NEW at \in Times, NEW stage \in Stages, NEW rev \in Revisions,
         NEW n \in DOMAIN attempts[stage][rev], Commit(stage, rev, n, at)
  PROVE  /\ attempts' \in [Stages -> [Revisions -> Seq(Attempt)]]
         /\ events' \subseteq EventIds
         /\ version' \in Nat
         /\ updatedAt' \in Nat
<1>1. at \in Nat /\ n \in 1 .. Len(attempts[stage][rev]) /\ n \in Nat
  BY ConstantsAssumption, AttemptLogs
<1>2. attempts' \in [Stages -> [Revisions -> Seq(Attempt)]]
  BY <1>1, CloseAttemptType DEF Commit
<1>3. <<"complete", stage, rev, n>> \in EventIds
  BY <1>1 DEF EventIds
<1> QED
  BY <1>1, <1>2, <1>3, AcceptType DEF Commit

\* No stage's completion breaks the types, and its output is recorded whole.
LEMMA CompletionType ==
  ASSUME TypeOK, DeliveriesBound, NEW at \in Times, NEW rev \in Revisions
  PROVE  /\ \A n \in DOMAIN attempts["prepare_review"][rev], ordinal \in Revisions, d \in Digests :
              CompletePrepare(rev, n, ordinal, d, at) => TypeOK'
         /\ \A n \in DOMAIN attempts["render_approved"][rev], d \in Digests :
              CompleteRender(rev, n, d, at) => TypeOK'
         /\ \A n \in DOMAIN attempts["generate_tts"][rev], d \in Digests :
              CompleteNarration(rev, n, d, at) => TypeOK'
         /\ \A n \in DOMAIN attempts["publish"][rev], receipt \in Receipts :
              CompletePublish(rev, n, receipt, at) => TypeOK'
         /\ \A n \in DOMAIN attempts["deliver"][rev], receipt \in Receipts :
              CompleteDeliver(rev, n, receipt, at) => TypeOK'
<1>0. /\ {"tts_queued", "publish_ready", "content_review_required", "narration_review_required",
          "published", "sent"} \subseteq States
      /\ currentRevision \in Revisions
      /\ {"prepare_review", "render_approved", "generate_tts", "publish", "deliver"} = Stages
  BY DEF States, QueuedStates, QueuedState, Stages, ReviewStates, ReviewState, ReviewTypes, TypeOK
<1>1. ASSUME NEW n \in DOMAIN attempts["prepare_review"][rev], NEW ordinal \in Revisions,
             NEW d \in Digests, CompletePrepare(rev, n, ordinal, d, at)
      PROVE  TypeOK'
  <2>1. artifacts["private_review"][ordinal] \in Seq(Digests)
    BY DEF TypeOK, Kinds
  <2>2. WithArtifactSet(artifacts["private_review"][ordinal], d) \in Seq(Digests)
    BY <2>1, WithArtifactSetType
  <2>3. artifacts' \in [Kinds -> [Revisions -> Seq(Digests)]]
    BY <1>1, <2>2 DEF CompletePrepare, TypeOK
  <2> QED
    BY <1>0, <1>1, <2>3, CommitType DEF CompletePrepare, TypeOK
<1>2. ASSUME NEW n \in DOMAIN attempts["render_approved"][rev], NEW d \in Digests,
             CompleteRender(rev, n, d, at)
      PROVE  TypeOK'
  <2>1. artifacts["prepared_bundle"][currentRevision] \in Seq(Digests)
    BY <1>0 DEF TypeOK, Kinds
  <2>2. WithArtifactSet(artifacts["prepared_bundle"][currentRevision], d) \in Seq(Digests)
    BY <2>1, WithArtifactSetType
  <2>3. artifacts' \in [Kinds -> [Revisions -> Seq(Digests)]]
    BY <1>2, <2>2 DEF CompleteRender, TypeOK
  <2> QED
    BY <1>0, <1>2, <2>3, CommitType DEF CompleteRender, TypeOK
<1>3. ASSUME NEW n \in DOMAIN attempts["generate_tts"][rev], NEW d \in Digests,
             CompleteNarration(rev, n, d, at)
      PROVE  TypeOK'
  <2>1. artifacts["narration_review"][currentRevision] \in Seq(Digests)
    BY <1>0 DEF TypeOK, Kinds
  <2>2. WithArtifactSet(artifacts["narration_review"][currentRevision], d) \in Seq(Digests)
    BY <2>1, WithArtifactSetType
  <2>3. artifacts' \in [Kinds -> [Revisions -> Seq(Digests)]]
    BY <1>3, <2>2 DEF CompleteNarration, TypeOK
  <2> QED
    BY <1>0, <1>3, <2>3, CommitType DEF CompleteNarration, TypeOK
<1>4. ASSUME NEW stage \in Stages, NEW n \in DOMAIN attempts[stage][rev]
      PROVE  KeyOf(stage, rev, n) \in Keys /\ attempts[stage][rev][n].binding \in Targets \cup {None}
  <2>1. attempts[stage][rev][n] \in Attempt
    BY <1>4, AttemptLogs
  <2> QED
    BY <2>1 DEF KeyOf, Keys, Attempt
<1>5. ASSUME NEW n \in DOMAIN attempts["publish"][rev], NEW receipt \in Receipts,
             CompletePublish(rev, n, receipt, at)
      PROVE  TypeOK'
  <2>1. KeyOf("publish", rev, n) \in Keys
    BY <1>0, <1>4
  <2>2. publication' \in Publication
    BY <1>5, <2>1 DEF CompletePublish, Publication, Receipts
  <2> QED
    BY <1>0, <1>5, <2>2, CommitType DEF CompletePublish, TypeOK
<1>6. ASSUME NEW n \in DOMAIN attempts["deliver"][rev], NEW receipt \in Receipts,
             CompleteDeliver(rev, n, receipt, at)
      PROVE  TypeOK'
  <2> DEFINE entry == [rev |-> receipt.rev, message |-> receipt.id,
                       key |-> KeyOf("deliver", rev, n),
                       target |-> attempts["deliver"][rev][n].binding,
                       status |-> "sent", outcome |-> None]
  <2>1. KeyOf("deliver", rev, n) \in Keys /\ attempts["deliver"][rev][n].binding \in Targets
    BY <1>0, <1>4, AttemptLogs DEF DeliveriesBound
  <2>2. entry \in Delivery
    BY <2>1 DEF Delivery, Receipts
  <2>3. deliveries' = Append(deliveries, entry)
    BY <1>6 DEF CompleteDeliver
  <2> HIDE DEF entry
  <2>4. deliveries' \in Seq(Delivery)
    BY <2>2, <2>3 DEF TypeOK
  <2> QED
    BY <1>0, <1>6, <2>4, CommitType DEF CompleteDeliver, TypeOK
<1> QED
  BY <1>1, <1>2, <1>3, <1>5, <1>6

\* A failure closes an attempt and either schedules a retry or ends the job.
LEMMA FailType ==
  ASSUME TypeOK, NEW at \in Times, NEW stage \in Stages, NEW rev \in Revisions,
         NEW n \in DOMAIN attempts[stage][rev], NEW reason \in Reasons,
         NEW retryable \in BOOLEAN, NEW id \in EventIds,
         FailStage(id, stage, rev, n, reason, retryable, at)
  PROVE  TypeOK'
<1> USE PolicyAssumption
<1>1. at \in Nat /\ n \in 1 .. Len(attempts[stage][rev]) /\ n \in Nat
  BY ConstantsAssumption, AttemptLogs
<1>2. events' \subseteq EventIds /\ version' \in Nat /\ updatedAt' \in Nat
  BY <1>1, AcceptType DEF FailStage
<1>3. "retry_wait" \in States /\ "failed" \in States
  BY DEF States, TerminalStates
<1>4. CASE WillRetry(stage, n, retryable)
  <2>1. attempts' \in [Stages -> [Revisions -> Seq(Attempt)]]
    BY <1>1, <1>4, CloseAttemptType DEF FailStage
  <2>2. at + BackoffMs[stage][n] \in Nat
    <3>1. n \in 1 .. Len(BackoffMs[stage])
      BY <1>1, <1>4 DEF FailStage, CanFail
    <3>2. BackoffMs[stage][n] \in Nat
      BY <3>1
    <3> QED
      BY <1>1, <3>2
  <2>3. retry' \in [stage: Stages, availableAt: Nat]
    BY <1>4, <2>2 DEF FailStage
  <2> QED
    BY <1>2, <1>3, <1>4, <2>1, <2>3 DEF FailStage, TypeOK
<1>5. CASE ~WillRetry(stage, n, retryable)
  <2>1. attempts' \in [Stages -> [Revisions -> Seq(Attempt)]]
    BY <1>1, <1>5, CloseAttemptType DEF FailStage
  <2> QED
    BY <1>2, <1>3, <1>5, <2>1 DEF FailStage, TypeOK
<1> QED
  BY <1>4, <1>5

\* A retry whose backoff is over queues its stage again.
LEMMA ResumeType ==
  ASSUME TypeOK, NEW at \in Times, retry /= None, ResumeRetry(ResumeId(retry), at)
  PROVE  TypeOK'
<1>1. retry.stage \in Stages /\ ResumeId(retry) \in EventIds
  BY DEF TypeOK, ResumeId, EventIds
<1>2. events' \subseteq EventIds /\ version' \in Nat /\ updatedAt' \in Nat
  BY <1>1, ConstantsAssumption, AcceptType DEF ResumeRetry
<1> QED
  BY <1>1, <1>2, StageStates DEF ResumeRetry, TypeOK

\* No command of a worker (claim, completion, failure, resume) breaks the types.
LEMMA WorkerType ==
  ASSUME TypeOK, DeliveriesBound, NEW at \in Times, WorkerCommand(at)
  PROVE  TypeOK'
<1>1. ASSUME NEW stage \in Stages, NEW rev \in Revisions, NEW n \in DOMAIN attempts[stage][rev]
      PROVE  /\ \A reason \in Reasons : <<"fail", stage, rev, n, reason>> \in EventIds
             /\ <<"expire", stage, rev, n>> \in EventIds
  BY AttemptLogs DEF EventIds
<1>2. "lease_expired" \in Reasons /\ TRUE \in BOOLEAN
  BY DEF Reasons
<1> QED
  BY <1>1, <1>2, ClaimType, CompletionType, FailType, ResumeType DEF WorkerCommand

-----------------------------------------------------------------------------
(* What a step does to the attempts: nothing, append one, or close one.     *)

Appends(stage, attempt) ==
  \A s \in Stages, r \in Revisions :
    attempts'[s][r] = IF s = stage /\ r = currentRevision THEN Append(attempts[s][r], attempt)
                                                          ELSE attempts[s][r]

\* Only the attempt <<stage, rev, n>> changes: its status, and no lease is left.
Closes(stage, rev, n, status) ==
  \A s \in Stages, r \in Revisions :
    /\ Len(attempts'[s][r]) = Len(attempts[s][r])
    /\ \A m \in 1 .. Len(attempts[s][r]) :
         attempts'[s][r][m] = IF s = stage /\ r = rev /\ m = n
                                THEN [attempts[s][r][m] EXCEPT !.status = status, !.expires = 0]
                                ELSE attempts[s][r][m]

\* An accepted claim appends one running attempt, and touches no other log.
LEMMA ClaimAppends ==
  ASSUME TypeOK, NEW at, NEW stage \in Stages, NEW rev, NEW n, NEW binding,
         ClaimStage(stage, rev, n, binding, at)
  PROVE  Appends(stage, [op |-> NextOperation(stage), binding |-> binding,
                         status |-> "running", expires |-> at + LeaseMs[stage]])
BY DEF Appends, ClaimStage, TypeOK

\* Appending an attempt keeps the ones before it, and every other log.
LEMMA AppendsExtends ==
  ASSUME TypeOK, NEW stage \in Stages, NEW attempt, Appends(stage, attempt),
         NEW s \in Stages, NEW r \in Revisions
  PROVE  /\ Len(attempts[s][r]) \in Nat
         /\ Len(attempts'[s][r]) = IF s = stage /\ r = currentRevision
                                     THEN Len(attempts[s][r]) + 1 ELSE Len(attempts[s][r])
         /\ \A n \in 1 .. Len(attempts[s][r]) : attempts'[s][r][n] = attempts[s][r][n]
         /\ s = stage /\ r = currentRevision =>
              attempts'[s][r][Len(attempts[s][r]) + 1] = attempt
<1> DEFINE log == attempts[s][r]
           next == attempts'[s][r]
<1>1. log \in Seq(Attempt) /\ Len(log) \in Nat
  BY AttemptLogs
<1>2. next = IF s = stage /\ r = currentRevision THEN Append(log, attempt) ELSE log
  BY DEF Appends
<1> HIDE DEF log, next
<1>3. /\ Len(Append(log, attempt)) = Len(log) + 1
      /\ Append(log, attempt)[Len(log) + 1] = attempt
      /\ \A n \in 1 .. Len(log) : Append(log, attempt)[n] = log[n]
  BY <1>1
<1>4. /\ Len(next) = IF s = stage /\ r = currentRevision THEN Len(log) + 1 ELSE Len(log)
      /\ \A n \in 1 .. Len(log) : next[n] = log[n]
      /\ s = stage /\ r = currentRevision => next[Len(log) + 1] = attempt
  BY <1>2, <1>3
<1> QED
  BY <1>1, <1>4 DEF log, next

\* Closing an attempt changes its status and its lease, and no other attempt.
LEMMA CloseAttemptCloses ==
  ASSUME TypeOK, NEW stage \in Stages, NEW rev \in Revisions,
         NEW n \in 1 .. Len(attempts[stage][rev]), NEW status,
         CloseAttempt(stage, rev, n, status)
  PROVE  Closes(stage, rev, n, status)
<1> DEFINE log == attempts[stage][rev]
           entry == [log[n] EXCEPT !.status = status, !.expires = 0]
           closed == [log EXCEPT ![n] = entry]
<1>1. attempts' = [attempts EXCEPT ![stage][rev] = closed]
  BY DEF CloseAttempt, TypeOK
<1>2. log \in Seq(Attempt)
  BY AttemptLogs
<1>3. /\ Len(closed) = Len(log)
      /\ \A m \in 1 .. Len(log) : closed[m] = IF m = n THEN entry ELSE log[m]
  <2> HIDE DEF log, entry
  <2> QED
    BY <1>2 DEF log
<1> HIDE DEF closed
<1>4. ASSUME NEW s \in Stages, NEW r \in Revisions
      PROVE  attempts'[s][r] = IF s = stage /\ r = rev THEN closed ELSE attempts[s][r]
  BY <1>1 DEF TypeOK
<1> QED
  BY <1>3, <1>4 DEF Closes

ClosingIds(stage, rev, n) ==
  {<<"complete", stage, rev, n>>, <<"expire", stage, rev, n>>}
    \cup {<<"fail", stage, rev, n, reason>> : reason \in Reasons}

\* A worker closes the attempt whose lease it holds, under an id of its own.
Closing(stage, rev, n, at) ==
  /\ HoldsLease(stage, rev, n)
  /\ \E status \in {"retry_wait", "failed", "completed"} : Closes(stage, rev, n, status)
  /\ \E id \in ClosingIds(stage, rev, n) : Fresh(id, at) /\ Accept(id, at)
  /\ state' \notin RunningStates \cup {"absent"}
  /\ state' = "retry_wait" => /\ retry' \in [stage: Stages, availableAt: Nat]
                              /\ retry'.availableAt > at

AttemptCloses(at) ==
  \E stage \in Stages, rev \in Revisions : \E n \in 1 .. Len(attempts[stage][rev]) :
    Closing(stage, rev, n, at)

AttemptClaimed(at) ==
  \E stage \in Stages, binding \in Targets \cup {None} :
    ClaimStage(stage, currentRevision, NextAttempt(stage), binding, at)

RetryResumes(at) ==
  /\ UNCHANGED attempts
  /\ state = "retry_wait" /\ state' \in QueuedStates
  /\ retry \in [stage: Stages, availableAt: Nat] /\ retry.availableAt <= at
  /\ Fresh(ResumeId(retry), at) /\ Accept(ResumeId(retry), at)

\* A worker's command claims an attempt, closes the one whose lease it holds, or
\* resumes the waiting retry.
LEMMA WorkerSteps ==
  ASSUME TypeOK, NEW at \in Times, WorkerCommand(at)
  PROVE  AttemptClaimed(at) \/ AttemptCloses(at) \/ RetryResumes(at)
<1>0. /\ {"retry_wait", "failed", "tts_queued", "publish_ready", "content_review_required",
          "narration_review_required", "published", "sent"}
            \cap (RunningStates \cup {"absent"}) = {}
      /\ {"prepare_review", "render_approved", "generate_tts", "publish", "deliver"} = Stages
  BY DEF RunningStates, RunningState, Stages
<1>1. ASSUME NEW stage \in Stages, NEW rev \in Revisions, NEW n \in DOMAIN attempts[stage][rev],
             CanCommit(stage, rev, n, at), Commit(stage, rev, n, at),
             state' \notin RunningStates \cup {"absent"}, state' /= "retry_wait"
      PROVE  AttemptCloses(at)
  <2>1. n \in 1 .. Len(attempts[stage][rev])
    BY AttemptLogs
  <2>2. Closes(stage, rev, n, "completed")
    BY <1>1, <2>1, CloseAttemptCloses DEF Commit
  <2>3. Closing(stage, rev, n, at)
    BY <1>1, <2>2 DEF CanCommit, Commit, Closing, ClosingIds
  <2> QED
    BY <2>1, <2>3 DEF AttemptCloses
<1>2. ASSUME NEW stage \in Stages, NEW rev \in Revisions, NEW n \in DOMAIN attempts[stage][rev],
             NEW id \in ClosingIds(stage, rev, n), NEW reason, NEW retryable,
             FailStage(id, stage, rev, n, reason, retryable, at)
      PROVE  AttemptCloses(at)
  <2>1. n \in 1 .. Len(attempts[stage][rev])
    BY AttemptLogs
  <2>2. /\ HoldsLease(stage, rev, n)
        /\ Fresh(id, at) /\ Accept(id, at)
    BY <1>2 DEF FailStage, CanFail
  <2>3. CASE WillRetry(stage, n, retryable)
    <3>1. Closes(stage, rev, n, "retry_wait")
      BY <1>2, <2>1, <2>3, CloseAttemptCloses DEF FailStage
    <3>2. BackoffMs[stage][n] \in Nat \ {0}
      <4>1. n \in 1 .. Len(BackoffMs[stage])
        BY <1>2, <2>1, <2>3, PolicyAssumption, AttemptLogs DEF FailStage, CanFail
      <4> QED
        BY <4>1, PolicyAssumption
    <3>3. retry' = [stage |-> stage, availableAt |-> at + BackoffMs[stage][n]]
      BY <1>2, <2>3 DEF FailStage
    <3>4. retry' \in [stage: Stages, availableAt: Nat] /\ retry'.availableAt > at
      BY <3>2, <3>3, ConstantsAssumption
    <3>5. state' = "retry_wait"
      BY <1>2, <2>3 DEF FailStage
    <3>6. Closing(stage, rev, n, at)
      BY <1>0, <2>2, <3>1, <3>4, <3>5 DEF Closing
    <3> QED
      BY <2>1, <3>6 DEF AttemptCloses
  <2>4. CASE ~WillRetry(stage, n, retryable)
    <3>1. Closes(stage, rev, n, "failed") /\ state' = "failed"
      BY <1>2, <2>1, <2>4, CloseAttemptCloses DEF FailStage
    <3>2. Closing(stage, rev, n, at)
      BY <1>0, <2>2, <3>1 DEF Closing
    <3> QED
      BY <2>1, <3>2 DEF AttemptCloses
  <2> QED
    BY <2>3, <2>4
<1>3. ASSUME NEW rev \in Revisions, NEW n \in DOMAIN attempts["prepare_review"][rev],
             NEW ordinal, NEW d, CompletePrepare(rev, n, ordinal, d, at)
      PROVE  AttemptCloses(at)
  BY <1>0, <1>1, <1>3 DEF CompletePrepare, CanCompletePrepare
<1>4. ASSUME NEW rev \in Revisions, NEW n \in DOMAIN attempts["render_approved"][rev],
             NEW d, CompleteRender(rev, n, d, at)
      PROVE  AttemptCloses(at)
  BY <1>0, <1>1, <1>4 DEF CompleteRender, CanCompleteRender
<1>5. ASSUME NEW rev \in Revisions, NEW n \in DOMAIN attempts["generate_tts"][rev],
             NEW d, CompleteNarration(rev, n, d, at)
      PROVE  AttemptCloses(at)
  BY <1>0, <1>1, <1>5 DEF CompleteNarration, CanCompleteNarration
<1>6. ASSUME NEW rev \in Revisions, NEW n \in DOMAIN attempts["publish"][rev],
             NEW receipt, CompletePublish(rev, n, receipt, at)
      PROVE  AttemptCloses(at)
  BY <1>0, <1>1, <1>6 DEF CompletePublish, CanCompletePublish
<1>7. ASSUME NEW rev \in Revisions, NEW n \in DOMAIN attempts["deliver"][rev],
             NEW receipt, CompleteDeliver(rev, n, receipt, at)
      PROVE  AttemptCloses(at)
  BY <1>0, <1>1, <1>7 DEF CompleteDeliver, CanCompleteDeliver
<1>8. ASSUME retry /= None, ResumeRetry(ResumeId(retry), at)
      PROVE  RetryResumes(at)
  BY <1>8, StageStates DEF ResumeRetry, CanResume, TypeOK, RetryResumes
<1>9. ASSUME NEW stage \in Stages, NEW rev, NEW n
      PROVE  /\ \A reason \in Reasons : <<"fail", stage, rev, n, reason>> \in ClosingIds(stage, rev, n)
             /\ <<"expire", stage, rev, n>> \in ClosingIds(stage, rev, n)
  BY DEF ClosingIds
<1> QED
  BY <1>2, <1>3, <1>4, <1>5, <1>6, <1>7, <1>8, <1>9 DEF WorkerCommand, AttemptClaimed

\* A caller's command leaves the attempts alone and is accepted under its id.
CallerActs(at) ==
  /\ UNCHANGED attempts
  /\ state \notin RunningStates
  /\ state' \notin RunningStates \cup {"absent", "retry_wait"}
  /\ \/ state = "absent" /\ Accept(<<"create">>, at)
     \/ \E call \in CommandIds : Fresh(<<"call", call>>, at) /\ Accept(<<"call", call>>, at)

\* A caller's command leaves the attempts alone, and is neither taken nor ends
\* while a stage runs.
LEMMA CallerSteps ==
  ASSUME TypeOK, NEW at \in Times, CallerCommand(at)
  PROVE  CallerActs(at)
<1>0. /\ {"awaiting_payment", "generation_queued", "render_queued", "tts_queued",
          "publish_ready", "delivery_queued", "published", "sent", "complete", "rejected",
          "content_review_required", "narration_review_required"}
            \cap (RunningStates \cup {"absent", "retry_wait"}) = {}
      /\ "absent" \notin RunningStates
      /\ CallsToTry \subseteq CommandIds
  BY DEF RunningStates, RunningState, Stages, CallsToTry
<1>1. ASSUME NEW narrated, CreateJob(narrated, at)
      PROVE  CallerActs(at)
  BY <1>0, <1>1 DEF CreateJob, CallerActs
<1>2. ASSUME NEW call \in CallsToTry, NEW correlation, RecordPayment(call, correlation, at)
      PROVE  CallerActs(at)
  BY <1>0, <1>2 DEF RecordPayment, CallerActs
<1>3. ASSUME NEW call \in CallsToTry, NEW type \in ReviewTypes, NEW rev,
             NEW outcome \in Outcomes, NEW digest,
             RecordReviewDecision(call, type, rev, outcome, digest, at)
      PROVE  CallerActs(at)
  <2>1. StateAfterReview(type, outcome) \in
          {"rejected", "generation_queued", "tts_queued", "render_queued", "publish_ready"}
    BY DEF StateAfterReview, Outcomes, ReviewTypes, QueuedState
  <2> QED
    BY <1>0, <1>3, <2>1 DEF RecordReviewDecision, CanDecide, ReviewState, ReviewTypes, CallerActs
<1>4. ASSUME NEW call \in CallsToTry, QueueDelivery(call, at)
      PROVE  CallerActs(at)
  BY <1>0, <1>4 DEF QueueDelivery, CallerActs
<1>5. ASSUME NEW call \in CallsToTry, NEW message, ConfirmDelivery(call, message, at)
      PROVE  CallerActs(at)
  BY <1>0, <1>5 DEF ConfirmDelivery, CanSettleDelivery, MarkDelivered, CallerActs
<1>6. ASSUME NEW call \in CallsToTry, NEW message, NEW outcome,
             ReconcileDelivery(call, message, outcome, at)
      PROVE  CallerActs(at)
  BY <1>0, <1>6 DEF ReconcileDelivery, CanSettleDelivery, MarkDelivered, CallerActs
<1> QED
  BY <1>1, <1>2, <1>3, <1>4, <1>5, <1>6 DEF CallerCommand

-----------------------------------------------------------------------------
(* Leases                                                                   *)

NoneRunning ==
  \A stage \in Stages, rev \in Revisions : \A n \in 1 .. Len(attempts[stage][rev]) :
    ~Running(stage, rev, n)

\* No attempt runs while the job is in no stage's running state.
LEMMA NoneRunningOutside ==
  ASSUME OneLease, state \notin RunningStates
  PROVE  NoneRunning
BY StageStates DEF OneLease, NoneRunning

\* A job with no attempt running, in no running state, has its leases in order.
LEMMA NoLeaseNeeded ==
  ASSUME NoneRunning', state' \notin RunningStates
  PROVE  OneLease'
BY StageStates DEF OneLease, NoneRunning

\* Closing the attempt that holds the lease leaves no attempt running: by
\* OneLease there was no other.
LEMMA CloseKeepsOneLease ==
  ASSUME TypeOK, OneLease, NEW at, AttemptCloses(at)
  PROVE  OneLease'
<1>1. PICK stage \in Stages, rev \in Revisions : \E n \in 1 .. Len(attempts[stage][rev]) :
        Closing(stage, rev, n, at)
  BY DEF AttemptCloses
<1>2. PICK n \in 1 .. Len(attempts[stage][rev]) : Closing(stage, rev, n, at)
  BY <1>1
<1>3. Running(stage, rev, n) /\ state = RunningState(stage)
        /\ rev = currentRevision /\ n = Len(attempts[stage][rev])
  BY <1>2 DEF Closing, HoldsLease, OneLease
<1>4. PICK status \in {"retry_wait", "failed", "completed"} : Closes(stage, rev, n, status)
  BY <1>2 DEF Closing
<1>5. ASSUME NEW s \in Stages, NEW r \in Revisions, NEW m \in 1 .. Len(attempts'[s][r])
      PROVE  attempts'[s][r][m].status /= "running"
  <2>1. m \in 1 .. Len(attempts[s][r]) /\ attempts[s][r][m] \in Attempt
    BY <1>4, <1>5, AttemptLogs DEF Closes
  <2>2. CASE s = stage /\ r = rev /\ m = n
    <3>1. attempts'[s][r][m].status = status
      BY <1>4, <2>1, <2>2 DEF Closes, Attempt
    <3> QED
      BY <3>1
  <2>3. CASE ~(s = stage /\ r = rev /\ m = n)
    <3>1. attempts'[s][r][m] = attempts[s][r][m]
      BY <1>4, <2>1, <2>3 DEF Closes
    <3>2. ~Running(s, r, m)
      BY <1>3, <2>1, <2>3, StageStates DEF OneLease
    <3> QED
      BY <2>1, <3>1, <3>2 DEF Running
  <2> QED
    BY <2>2, <2>3
<1>6. NoneRunning'
  BY <1>5 DEF NoneRunning, Running
<1> QED
  BY <1>2, <1>6, NoLeaseNeeded DEF Closing

\* A claim is accepted only of a queued job, where nothing runs: its lease is the only one.
LEMMA ClaimKeepsOneLease ==
  ASSUME TypeOK, OneLease, NEW at, NEW stage \in Stages, NEW n, NEW rev, NEW binding,
         ClaimStage(stage, rev, n, binding, at)
  PROVE  OneLease'
<1> DEFINE attempt == [op |-> NextOperation(stage), binding |-> binding,
                       status |-> "running", expires |-> at + LeaseMs[stage]]
<1>0. attempt.status = "running"
  OBVIOUS
<1> HIDE DEF attempt
<1>1. NoneRunning
  BY StageStates, NoneRunningOutside DEF ClaimStage, CanClaim
<1>2. Appends(stage, attempt)
  BY ClaimAppends DEF attempt
<1>3. state' = RunningState(stage) /\ currentRevision' = currentRevision
        /\ currentRevision \in Revisions
  BY DEF ClaimStage, TypeOK
<1>4. ASSUME NEW s \in Stages, NEW r \in Revisions, NEW m \in 1 .. Len(attempts'[s][r]),
             attempts'[s][r][m].status = "running"
      PROVE  s = stage /\ r = currentRevision /\ m = Len(attempts'[s][r])
  <2>1. /\ Len(attempts[s][r]) \in Nat
        /\ Len(attempts'[s][r]) = IF s = stage /\ r = currentRevision
                                    THEN Len(attempts[s][r]) + 1 ELSE Len(attempts[s][r])
        /\ \A k \in 1 .. Len(attempts[s][r]) : attempts'[s][r][k] = attempts[s][r][k]
    BY <1>2, AppendsExtends
  <2>2. m \in 1 .. Len(attempts[s][r]) => attempts'[s][r][m].status /= "running"
    BY <1>1, <2>1 DEF NoneRunning, Running
  <2> QED
    BY <1>4, <2>1, <2>2
<1>5. /\ Len(attempts'[stage][currentRevision]) \in 1 .. Len(attempts'[stage][currentRevision])
      /\ attempts'[stage][currentRevision][Len(attempts'[stage][currentRevision])].status = "running"
  BY <1>0, <1>2, <1>3, AppendsExtends
<1> QED
  BY <1>3, <1>4, <1>5, StageStates DEF OneLease, Running

\* No command, of worker or caller, breaks the exclusiveness of leases.
LEMMA StepKeepsOneLease ==
  ASSUME TypeOK, OneLease, NEW at \in Times, WorkerCommand(at) \/ CallerCommand(at)
  PROVE  OneLease'
<1>1. CASE AttemptCloses(at)
  BY <1>1, CloseKeepsOneLease
<1>2. CASE AttemptClaimed(at)
  BY <1>2, ClaimKeepsOneLease DEF AttemptClaimed
<1>3. CASE UNCHANGED attempts /\ state \notin RunningStates /\ state' \notin RunningStates
  <2>1. NoneRunning'
    BY <1>3, NoneRunningOutside DEF NoneRunning, Running
  <2> QED
    BY <1>3, <2>1, NoLeaseNeeded
<1>4. "retry_wait" \notin RunningStates
  BY DEF RunningStates, RunningState, Stages
<1> QED
  BY <1>1, <1>2, <1>3, <1>4, WorkerSteps, CallerSteps, StageStates DEF RetryResumes, CallerActs

-----------------------------------------------------------------------------
(* Command ids                                                              *)

\* The log of accepted commands, as long as the version says.
CommandLog ==
  /\ IsFiniteSet(events)
  /\ version = Cardinality(events)
  /\ state = "absent" => events = {}

\* An id that names an attempt was used only if the attempt exists, a closing
\* id only if it is closed, and a resume id only once its backoff was over.
IdsAreUsed ==
  /\ \A stage \in Stages, rev \in Revisions, n \in Nat :
       /\ <<"claim", stage, rev, n>> \in events => n <= Len(attempts[stage][rev])
       /\ \A id \in ClosingIds(stage, rev, n) : id \in events =>
            n \in 1 .. Len(attempts[stage][rev]) /\ ~Running(stage, rev, n)
  /\ \A stage \in Stages, time \in Nat : <<"resume", stage, time>> \in events => time <= updatedAt

RetryAhead ==
  state = "retry_wait" => /\ retry \in [stage: Stages, availableAt: Nat]
                          /\ retry.availableAt > updatedAt

\* Every command that changes the job is accepted under one id, new unless it creates the job.
LEMMA StepAccepts ==
  ASSUME TypeOK, NEW at \in Times, WorkerCommand(at) \/ CallerCommand(at)
  PROVE  /\ \E id : (id \notin events \/ state = "absent") /\ Accept(id, at)
         /\ state' /= "absent"
<1>0. "absent" \notin QueuedStates \cup RunningStates
  BY DEF QueuedStates, RunningStates, QueuedState, RunningState, Stages
<1>1. CASE AttemptClaimed(at)
  BY <1>0, <1>1, StageStates DEF AttemptClaimed, ClaimStage, CanClaim, Fresh
<1>2. CASE AttemptCloses(at)
  BY <1>2 DEF AttemptCloses, Closing, Fresh
<1>3. CASE RetryResumes(at)
  BY <1>0, <1>3 DEF RetryResumes, Fresh
<1>4. CASE CallerActs(at)
  BY <1>4 DEF CallerActs, Fresh
<1> QED
  BY <1>1, <1>2, <1>3, <1>4, WorkerSteps, CallerSteps

\* Version and log of accepted ids grow together.
LEMMA StepKeepsCommandLog ==
  ASSUME TypeOK, CommandLog, NEW at \in Times, WorkerCommand(at) \/ CallerCommand(at)
  PROVE  CommandLog'
<1>1. PICK id : (id \notin events \/ state = "absent") /\ Accept(id, at)
  BY StepAccepts
<1>2. id \notin events
  BY <1>1 DEF CommandLog
<1>3. events' = events \cup {id} /\ version' = version + 1
  BY <1>1 DEF Accept
<1>4. IsFiniteSet(events') /\ Cardinality(events') = Cardinality(events) + 1
  BY <1>2, <1>3, FS_AddElement DEF CommandLog
<1> QED
  BY <1>3, <1>4, StepAccepts DEF CommandLog

\* A failure's backoff is positive, so the retry lies ahead of the failure's stamp.
LEMMA StepKeepsRetryAhead ==
  ASSUME TypeOK, NEW at \in Times, WorkerCommand(at) \/ CallerCommand(at)
  PROVE  RetryAhead'
<1>0. "retry_wait" \notin QueuedStates \cup RunningStates
  BY DEF QueuedStates, RunningStates, QueuedState, RunningState, Stages
<1>1. CASE AttemptClaimed(at)
  BY <1>0, <1>1, StageStates DEF AttemptClaimed, ClaimStage, RetryAhead
<1>2. CASE AttemptCloses(at)
  BY <1>2 DEF AttemptCloses, Closing, Accept, RetryAhead
<1>3. CASE RetryResumes(at)
  BY <1>0, <1>3 DEF RetryResumes, RetryAhead
<1>4. CASE CallerActs(at)
  BY <1>4 DEF CallerActs, RetryAhead
<1> QED
  BY <1>1, <1>2, <1>3, <1>4, WorkerSteps, CallerSteps

\* Ids in the log are those of attempts already made, attempts already over, and
\* waits already past.
LEMMA StepKeepsIdsUsed ==
  ASSUME TypeOK, OneLease, CommandLog, IdsAreUsed,
         NEW at \in Times, WorkerCommand(at) \/ CallerCommand(at)
  PROVE  IdsAreUsed'
<1> USE ConstantsAssumption
<1>1. CASE AttemptClaimed(at)
  <2>1. PICK stage \in Stages, binding \in Targets \cup {None} :
          ClaimStage(stage, currentRevision, NextAttempt(stage), binding, at)
    BY <1>1 DEF AttemptClaimed
  <2> DEFINE attempt == [op |-> NextOperation(stage), binding |-> binding,
                         status |-> "running", expires |-> at + LeaseMs[stage]]
             log == attempts[stage][currentRevision]
  <2>2. Appends(stage, attempt)
    BY <2>1, ClaimAppends
  <2> HIDE DEF attempt
  <2>3. /\ events' = events \cup {<<"claim", stage, currentRevision, Len(log) + 1>>}
        /\ updatedAt' = at /\ at >= updatedAt
    BY <2>1 DEF ClaimStage, CanClaim, Accept, Fresh, NextAttempt
  <2>4. currentRevision \in Revisions
    BY DEF TypeOK
  <2>5. ASSUME NEW s \in Stages, NEW r \in Revisions
        PROVE  /\ Len(attempts[s][r]) \in Nat /\ Len(attempts'[s][r]) \in Nat
               /\ Len(attempts'[s][r]) >= Len(attempts[s][r])
               /\ \A n \in 1 .. Len(attempts[s][r]) : attempts'[s][r][n] = attempts[s][r][n]
               /\ s = stage /\ r = currentRevision => Len(attempts'[s][r]) = Len(log) + 1
    BY <2>2, AppendsExtends
  <2> HIDE DEF log
  <2>6. ASSUME NEW s \in Stages, NEW r \in Revisions, NEW n \in Nat,
               <<"claim", s, r, n>> \in events'
        PROVE  n <= Len(attempts'[s][r])
    <3>1. CASE <<"claim", s, r, n>> \in events
      BY <2>5, <3>1 DEF IdsAreUsed
    <3>2. CASE s = stage /\ r = currentRevision /\ n = Len(log) + 1
      BY <2>4, <2>5, <3>2
    <3> QED
      BY <2>3, <2>6, <3>1, <3>2
  <2>7. ASSUME NEW s \in Stages, NEW r \in Revisions, NEW n \in Nat,
               NEW id \in ClosingIds(s, r, n), id \in events'
        PROVE  n \in 1 .. Len(attempts'[s][r]) /\ ~Running(s, r, n)'
    <3>1. id \in events
      BY <2>3, <2>7 DEF ClosingIds
    <3>2. n \in 1 .. Len(attempts[s][r]) /\ ~Running(s, r, n)
      BY <3>1 DEF IdsAreUsed
    <3> QED
      BY <2>5, <3>2 DEF Running
  <2>8. ASSUME NEW s \in Stages, NEW time \in Nat, <<"resume", s, time>> \in events'
        PROVE  time <= updatedAt'
    <3>1. <<"resume", s, time>> \in events
      BY <2>3, <2>8
    <3>2. time <= updatedAt
      BY <3>1 DEF IdsAreUsed
    <3> QED
      BY <2>3, <3>2 DEF TypeOK
  <2> QED
    BY <2>6, <2>7, <2>8 DEF IdsAreUsed
<1>2. CASE AttemptCloses(at)
  <2>1. PICK stage \in Stages, rev \in Revisions : \E n \in 1 .. Len(attempts[stage][rev]) :
          Closing(stage, rev, n, at)
    BY <1>2 DEF AttemptCloses
  <2>2. PICK n \in 1 .. Len(attempts[stage][rev]) : Closing(stage, rev, n, at)
    BY <2>1
  <2>3. PICK id \in ClosingIds(stage, rev, n) : Fresh(id, at) /\ Accept(id, at)
    BY <2>2 DEF Closing
  <2>4. events' = events \cup {id} /\ updatedAt' = at /\ at >= updatedAt
    BY <2>3 DEF Fresh, Accept
  <2>5. PICK status \in {"retry_wait", "failed", "completed"} : Closes(stage, rev, n, status)
    BY <2>2 DEF Closing
  <2>6. ASSUME NEW s \in Stages, NEW r \in Revisions, NEW m \in 1 .. Len(attempts[s][r]),
               Running(s, r, m)'
        PROVE  Running(s, r, m) /\ ~(s = stage /\ r = rev /\ m = n)
    <3>1. attempts[s][r][m] \in Attempt
      BY AttemptLogs
    <3>2. CASE s = stage /\ r = rev /\ m = n
      <4>1. attempts'[s][r][m].status = status
        BY <2>5, <3>1, <3>2 DEF Closes, Attempt
      <4> QED
        BY <2>6, <4>1 DEF Running
    <3>3. CASE ~(s = stage /\ r = rev /\ m = n)
      BY <2>5, <2>6, <3>3 DEF Closes, Running
    <3> QED
      BY <3>2, <3>3
  <2>7. ASSUME NEW s \in Stages, NEW r \in Revisions, NEW m \in Nat,
               <<"claim", s, r, m>> \in events'
        PROVE  m <= Len(attempts'[s][r])
    <3>1. <<"claim", s, r, m>> \in events
      BY <2>3, <2>4, <2>7 DEF ClosingIds
    <3> QED
      BY <2>5, <3>1 DEF IdsAreUsed, Closes
  <2>8. ASSUME NEW s \in Stages, NEW r \in Revisions, NEW m \in Nat,
               NEW used \in ClosingIds(s, r, m), used \in events'
        PROVE  m \in 1 .. Len(attempts'[s][r]) /\ ~Running(s, r, m)'
    <3>1. CASE used = id
      <4>1. s = stage /\ r = rev /\ m = n
        BY <2>3, <2>8, <3>1 DEF ClosingIds
      <4> QED
        BY <2>5, <2>6, <4>1 DEF Closes
    <3>2. CASE used \in events
      <4>1. m \in 1 .. Len(attempts[s][r]) /\ ~Running(s, r, m)
        BY <2>8, <3>2 DEF IdsAreUsed
      <4> QED
        BY <2>5, <2>6, <4>1 DEF Closes
    <3> QED
      BY <2>4, <2>8, <3>1, <3>2
  <2>9. ASSUME NEW s \in Stages, NEW time \in Nat, <<"resume", s, time>> \in events'
        PROVE  time <= updatedAt'
    <3>1. <<"resume", s, time>> \in events
      BY <2>3, <2>4, <2>9 DEF ClosingIds
    <3> QED
      BY <2>4, <3>1 DEF IdsAreUsed, TypeOK
  <2> QED
    BY <2>7, <2>8, <2>9 DEF IdsAreUsed
<1>3. ASSUME NEW id, Accept(id, at), UNCHANGED attempts,
             \/ at >= updatedAt
             \/ events = {},
             \A s \in Stages, r \in Revisions, n \in Nat :
               id /= <<"claim", s, r, n>> /\ id \notin ClosingIds(s, r, n),
             \A s \in Stages, time \in Nat : id = <<"resume", s, time>> => time <= at
      PROVE  IdsAreUsed'
  <2>1. events' = events \cup {id} /\ updatedAt' = at /\ attempts' = attempts
    BY <1>3 DEF Accept
  <2>2. ASSUME NEW s \in Stages, NEW r \in Revisions, NEW n \in Nat
        PROVE  /\ <<"claim", s, r, n>> \in events' => n <= Len(attempts'[s][r])
               /\ \A used \in ClosingIds(s, r, n) : used \in events' =>
                    n \in 1 .. Len(attempts'[s][r]) /\ ~Running(s, r, n)'
    BY <1>3, <2>1 DEF IdsAreUsed, Running
  <2>3. ASSUME NEW s \in Stages, NEW time \in Nat, <<"resume", s, time>> \in events'
        PROVE  time <= updatedAt'
    BY <1>3, <2>1, <2>3 DEF IdsAreUsed, TypeOK
  <2> QED
    BY <2>2, <2>3 DEF IdsAreUsed
<1>4. CASE RetryResumes(at)
  <2>1. retry \in [stage: Stages, availableAt: Nat] /\ retry.availableAt <= at
          /\ Accept(ResumeId(retry), at) /\ UNCHANGED attempts /\ at >= updatedAt
    BY <1>4 DEF RetryResumes, Fresh
  <2>2. \A s \in Stages, r \in Revisions, n \in Nat :
          ResumeId(retry) /= <<"claim", s, r, n>> /\ ResumeId(retry) \notin ClosingIds(s, r, n)
    BY DEF ResumeId, ClosingIds
  <2>3. \A s \in Stages, time \in Nat : ResumeId(retry) = <<"resume", s, time>> => time <= at
    BY <2>1 DEF ResumeId
  <2> QED
    BY <1>3, <2>1, <2>2, <2>3
<1>5. CASE CallerActs(at)
  <2>1. CASE state = "absent" /\ Accept(<<"create">>, at)
    <3>1. \A s \in Stages, r \in Revisions, n \in Nat :
            <<"create">> /= <<"claim", s, r, n>> /\ <<"create">> \notin ClosingIds(s, r, n)
      BY DEF ClosingIds
    <3>2. \A s \in Stages, time \in Nat : <<"create">> /= <<"resume", s, time>>
      OBVIOUS
    <3> QED
      BY <1>3, <1>5, <2>1, <3>1, <3>2 DEF CallerActs, CommandLog
  <2>2. ASSUME NEW call \in CommandIds, Fresh(<<"call", call>>, at), Accept(<<"call", call>>, at)
        PROVE  IdsAreUsed'
    <3>1. \A s \in Stages, r \in Revisions, n \in Nat :
            <<"call", call>> /= <<"claim", s, r, n>> /\ <<"call", call>> \notin ClosingIds(s, r, n)
      BY DEF ClosingIds
    <3>2. \A s \in Stages, time \in Nat : <<"call", call>> /= <<"resume", s, time>>
      OBVIOUS
    <3> QED
      BY <1>3, <1>5, <2>2, <3>1, <3>2 DEF CallerActs, Fresh
  <2> QED
    BY <1>5, <2>1, <2>2 DEF CallerActs
<1> QED
  BY <1>1, <1>2, <1>4, <1>5, WorkerSteps, CallerSteps

-----------------------------------------------------------------------------
(* Delivery bindings                                                        *)

\* Closing an attempt keeps the target it is bound to.
LEMMA CloseKeepsBinding ==
  ASSUME NEW stage, NEW rev, NEW n, NEW status, Closes(stage, rev, n, status),
         NEW s \in Stages, NEW r \in Revisions, NEW m \in 1 .. Len(attempts[s][r]),
         attempts[s][r][m] \in Attempt
  PROVE  attempts'[s][r][m].binding = attempts[s][r][m].binding
<1> DEFINE entry == attempts[s][r][m]
<1>1. [entry EXCEPT !.status = status, !.expires = 0].binding = entry.binding
  BY DEF Attempt
<1>2. \/ attempts'[s][r][m] = entry
      \/ attempts'[s][r][m] = [entry EXCEPT !.status = status, !.expires = 0]
  BY DEF Closes
<1> QED
  BY <1>1, <1>2

\* Every command keeps delivery attempts bound to a target.
LEMMA StepKeepsDeliveriesBound ==
  ASSUME TypeOK, DeliveriesBound, NEW at \in Times, WorkerCommand(at) \/ CallerCommand(at)
  PROVE  DeliveriesBound'
<1>0. "deliver" \in Stages
  BY DEF Stages
<1>1. CASE AttemptClaimed(at)
  <2>1. PICK stage \in Stages, binding \in Targets \cup {None} :
          ClaimStage(stage, currentRevision, NextAttempt(stage), binding, at)
    BY <1>1 DEF AttemptClaimed
  <2> DEFINE attempt == [op |-> NextOperation(stage), binding |-> binding,
                         status |-> "running", expires |-> at + LeaseMs[stage]]
  <2>2. Appends(stage, attempt)
    BY <2>1, ClaimAppends
  <2>3. stage = "deliver" => attempt.binding \in Targets
    BY <2>1 DEF ClaimStage, CanClaim
  <2> HIDE DEF attempt
  <2>4. ASSUME NEW r \in Revisions, NEW n \in 1 .. Len(attempts'["deliver"][r])
        PROVE  attempts'["deliver"][r][n].binding \in Targets
    <3>1. /\ Len(attempts["deliver"][r]) \in Nat
          /\ Len(attempts'["deliver"][r]) = IF "deliver" = stage /\ r = currentRevision
               THEN Len(attempts["deliver"][r]) + 1 ELSE Len(attempts["deliver"][r])
          /\ \A k \in 1 .. Len(attempts["deliver"][r]) :
               attempts'["deliver"][r][k] = attempts["deliver"][r][k]
          /\ "deliver" = stage /\ r = currentRevision =>
               attempts'["deliver"][r][Len(attempts["deliver"][r]) + 1] = attempt
      BY <1>0, <2>2, AppendsExtends
    <3> QED
      BY <2>3, <2>4, <3>1 DEF DeliveriesBound
  <2> QED
    BY <2>4 DEF DeliveriesBound
<1>2. CASE AttemptCloses(at)
  <2>1. PICK stage \in Stages, rev \in Revisions : \E n \in 1 .. Len(attempts[stage][rev]) :
          Closing(stage, rev, n, at)
    BY <1>2 DEF AttemptCloses
  <2>2. PICK n \in 1 .. Len(attempts[stage][rev]),
             status \in {"retry_wait", "failed", "completed"} : Closes(stage, rev, n, status)
    BY <2>1 DEF Closing
  <2>3. ASSUME NEW r \in Revisions, NEW m \in 1 .. Len(attempts'["deliver"][r])
        PROVE  attempts'["deliver"][r][m].binding \in Targets
    <3>1. m \in 1 .. Len(attempts["deliver"][r])
      BY <1>0, <2>2, <2>3 DEF Closes
    <3>2. attempts["deliver"][r][m] \in Attempt /\ attempts["deliver"][r][m].binding \in Targets
      BY <1>0, <3>1, AttemptLogs DEF DeliveriesBound
    <3>3. attempts'["deliver"][r][m].binding = attempts["deliver"][r][m].binding
      BY <1>0, <2>2, <3>1, <3>2, CloseKeepsBinding
    <3> QED
      BY <3>2, <3>3
  <2> QED
    BY <2>3 DEF DeliveriesBound
<1>3. CASE UNCHANGED attempts
  BY <1>3 DEF DeliveriesBound
<1> QED
  BY <1>1, <1>2, <1>3, WorkerSteps, CallerSteps DEF RetryResumes, CallerActs

-----------------------------------------------------------------------------
(* The inductive invariant and what follows from it                         *)

IInv ==
  /\ TypeOK
  /\ DeliveriesBound
  /\ OneLease
  /\ CommandLog
  /\ IdsAreUsed
  /\ RetryAhead

\* A new job has no attempts, no leases and no commands behind it.
LEMMA InitInductive == JobInit => IInv
<1> SUFFICES ASSUME JobInit PROVE IInv
  OBVIOUS
<1>1. TypeOK
  BY InitType
<1>2. \A stage \in Stages, rev \in Revisions : attempts[stage][rev] = <<>>
  BY DEF JobInit
<1>3. "deliver" \in Stages /\ state \notin RunningStates
  BY DEF JobInit, Stages, RunningStates, RunningState
<1>4. DeliveriesBound /\ OneLease
  BY <1>2, <1>3, StageStates DEF DeliveriesBound, OneLease, Running
<1>5. CommandLog
  BY FS_EmptySet DEF JobInit, CommandLog
<1>6. IdsAreUsed /\ RetryAhead
  BY DEF JobInit, IdsAreUsed, RetryAhead
<1> QED
  BY <1>1, <1>4, <1>5, <1>6 DEF IInv

\* Every command that a transition accepts, and every step that is none, keeps it.
LEMMA StepInductive == IInv /\ [JobNext]_jobVars => IInv'
<1> SUFFICES ASSUME IInv, [JobNext]_jobVars PROVE IInv'
  OBVIOUS
<1>1. CASE JobNext
  <2>1. PICK at \in Times : WorkerCommand(at) \/ CallerCommand(at)
    BY <1>1 DEF JobNext
  <2>2. TypeOK'
    BY <2>1, WorkerType, CallerType DEF IInv
  <2>3. DeliveriesBound' /\ OneLease' /\ CommandLog' /\ IdsAreUsed' /\ RetryAhead'
    BY <2>1, StepKeepsDeliveriesBound, StepKeepsOneLease, StepKeepsCommandLog, StepKeepsIdsUsed,
       StepKeepsRetryAhead DEF IInv
  <2> QED
    BY <2>2, <2>3 DEF IInv
<1>2. CASE UNCHANGED jobVars
  BY <1>2 DEF jobVars, IInv, TypeOK, DeliveriesBound, OneLease, Running, CommandLog, IdsAreUsed,
              RetryAhead
<1> QED
  BY <1>1, <1>2

\* The inductive invariant: types, bindings, leases, the command log and the retry
\* hold together in every reachable job.
THEOREM Inductive == JobSpec => []IInv
BY InitInductive, StepInductive, PTL DEF JobSpec

\* The job is always well typed, whatever commands clients send: in particular
\* every recorded delivery names a target.
THEOREM TypeCorrect == JobSpec => []TypeOK
<1>1. IInv => TypeOK
  BY DEF IInv
<1> QED
  BY <1>1, Inductive, PTL

\* Leases are exclusive: one attempt at most runs, it is the newest of its
\* stage on the current revision, and the job is in its running state.
THEOREM LeaseExclusive == JobSpec => []OneLease
<1>1. IInv => OneLease
  BY DEF IInv
<1> QED
  BY <1>1, Inductive, PTL

\* The id a worker derives for its next claim, completion, failure, expiry or
\* resume was never used before, so the store never mistakes it for a replay.
THEOREM NextIdsFresh == JobSpec => []NextCommandIsNew
<1>1. IInv => NextCommandIsNew
  <2> SUFFICES ASSUME IInv PROVE NextCommandIsNew
    OBVIOUS
  <2>1. ASSUME NEW stage \in Stages
        PROVE  <<"claim", stage, currentRevision, NextAttempt(stage)>> \notin events
    <3>1. currentRevision \in Revisions /\ Len(attempts[stage][currentRevision]) \in Nat
      BY AttemptLogs DEF IInv, TypeOK
    <3> QED
      BY <3>1 DEF IInv, IdsAreUsed, NextAttempt
  <2>2. ASSUME NEW stage \in Stages, NEW rev \in Revisions,
               NEW n \in 1 .. Len(attempts[stage][rev]), Running(stage, rev, n)
        PROVE  /\ <<"complete", stage, rev, n>> \notin events
               /\ <<"expire", stage, rev, n>> \notin events
               /\ \A reason \in Reasons : <<"fail", stage, rev, n, reason>> \notin events
    <3>1. n \in Nat
      BY AttemptLogs DEF IInv
    <3>2. \A id \in ClosingIds(stage, rev, n) : id \notin events
      BY <2>2, <3>1 DEF IInv, IdsAreUsed
    <3> QED
      BY <3>2 DEF ClosingIds
  <2>3. ASSUME state = "retry_wait"
        PROVE  ResumeId(retry) \notin events
    BY <2>3 DEF IInv, IdsAreUsed, RetryAhead, ResumeId, TypeOK
  <2> QED
    BY <2>1, <2>2, <2>3 DEF NextCommandIsNew
<1> QED
  BY <1>1, Inductive, PTL

\* The version of a job is the number of its accepted commands: none counts twice,
\* and none that a worker gives next is taken for a replay.
THEOREM CommandsCountOnce == JobSpec => []CommandsApplyOnce
<1>1. IInv => version = Cardinality(events)
  BY DEF IInv, CommandLog
<1>2. version = Cardinality(events) /\ NextCommandIsNew => CommandsApplyOnce
  BY DEF CommandsApplyOnce
<1> QED
  BY <1>1, <1>2, Inductive, NextIdsFresh, PTL

\* No step changes an attempt that is over, whoever still works on it.
THEOREM ClosedAttemptsFinal == JobSpec => [][AttemptsStand]_jobVars
<1>1. IInv /\ [JobNext]_jobVars => [AttemptsStand]_jobVars
  <2> SUFFICES ASSUME IInv, JobNext PROVE AttemptsStand
    OBVIOUS
  <2>1. PICK at \in Times : WorkerCommand(at) \/ CallerCommand(at)
    BY DEF JobNext
  <2>2. CASE AttemptClaimed(at)
    <3>1. PICK stage \in Stages, binding \in Targets \cup {None} :
            ClaimStage(stage, currentRevision, NextAttempt(stage), binding, at)
      BY <2>2 DEF AttemptClaimed
    <3> DEFINE attempt == [op |-> NextOperation(stage), binding |-> binding,
                           status |-> "running", expires |-> at + LeaseMs[stage]]
    <3>2. Appends(stage, attempt)
      BY <3>1, ClaimAppends DEF IInv
    <3> HIDE DEF attempt
    <3>3. \A s \in Stages, r \in Revisions : \A n \in 1 .. Len(attempts[s][r]) :
            attempts'[s][r][n] = attempts[s][r][n]
      BY <3>2, AppendsExtends DEF IInv
    <3> QED
      BY <3>3 DEF AttemptsStand
  <2>3. CASE AttemptCloses(at)
    <3>1. PICK stage \in Stages, rev \in Revisions : \E n \in 1 .. Len(attempts[stage][rev]) :
            Closing(stage, rev, n, at)
      BY <2>3 DEF AttemptCloses
    <3>2. PICK n \in 1 .. Len(attempts[stage][rev]) : Closing(stage, rev, n, at)
      BY <3>1
    <3>3. PICK status \in {"retry_wait", "failed", "completed"} : Closes(stage, rev, n, status)
      BY <3>2 DEF Closing
    <3>4. Running(stage, rev, n)
      BY <3>2 DEF Closing, HoldsLease
    <3> QED
      BY <3>3, <3>4 DEF Closes, AttemptsStand
  <2>4. CASE UNCHANGED attempts
    BY <2>4 DEF AttemptsStand
  <2> QED
    BY <2>1, <2>2, <2>3, <2>4, WorkerSteps, CallerSteps DEF RetryResumes, CallerActs, IInv
<1> QED
  BY <1>1, Inductive, PTL DEF JobSpec
=============================================================================

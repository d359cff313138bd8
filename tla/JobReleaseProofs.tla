-------------------------- MODULE JobReleaseProofs --------------------------
(***************************************************************************)
(* Theorems about what a job of JobLifecycle releases: the approvals a     *)
(* publication rests on, what it records, and the keys it acts under.      *)
(***************************************************************************)
EXTENDS JobLifecycleProofs

ReleaseStages == {"publish", "deliver"}

\* The job waits for its publication, or is past it; a job that failed has ended.
InPublication ==
  \/ state \in {"publish_ready", "publishing"}
  \/ state = "retry_wait" /\ retry.stage = "publish"
PastPublication ==
  \/ state \in {"published", "delivery_queued", "sending", "sent", "complete"}
  \/ state = "retry_wait" /\ retry.stage = "deliver"
InRelease == InPublication \/ PastPublication \/ state = "failed"

Paid == state \notin {"absent", "awaiting_payment"} => payment = JobCorrelation

\* An attempt to publish or deliver is of the current revision, which stays
\* eligible, under the stage's first operation; one that was completed has moved
\* the job on, so that no attempt comes after it.
PublishAttempts ==
  \A rev \in Revisions : \A n \in 1 .. Len(attempts["publish"][rev]) :
    /\ rev = currentRevision /\ ReleaseEligible /\ InRelease
    /\ attempts["publish"][rev][n].op = 1
    /\ attempts["publish"][rev][n].status = "completed" => ~InPublication

DeliverAttempts ==
  \A rev \in Revisions : \A n \in 1 .. Len(attempts["deliver"][rev]) :
    /\ rev = currentRevision /\ ReleaseEligible /\ InRelease /\ ~InPublication
    /\ PublishedExactly
    /\ attempts["deliver"][rev][n].op = 1
    /\ attempts["deliver"][rev][n].status = "completed" => state \in {"sent", "complete"}

\* What is recorded as published was attempted, and is the release.
PublicationRecord ==
  publication /= None =>
    /\ 1 <= Len(attempts["publish"][currentRevision])
    /\ publishedRevision = currentRevision
    /\ publication.rev = currentRevision
    /\ publication.digest = ReleaseDigest

DeliveryRecord ==
  deliveries /= <<>> =>
    /\ Len(deliveries) = 1
    /\ state \in {"sent", "complete"}
    /\ publication /= None
    /\ deliveries[1].rev = currentRevision

ReleaseInv ==
  Paid /\ PublishAttempts /\ DeliverAttempts /\ PublicationRecord /\ DeliveryRecord

-----------------------------------------------------------------------------
(* Before the release                                                       *)

NothingReleased ==
  /\ \A stage \in ReleaseStages, rev \in Revisions : Len(attempts[stage][rev]) = 0
  /\ publication = None
  /\ deliveries = <<>>

\* A job that is not in its release has attempted, published and sent nothing.
LEMMA BeforeRelease ==
  ASSUME TypeOK, ReleaseInv, ~InRelease
  PROVE  NothingReleased
<1>1. ASSUME NEW stage \in ReleaseStages, NEW rev \in Revisions
      PROVE  Len(attempts[stage][rev]) = 0
  <2>1. stage \in Stages
    BY DEF ReleaseStages, Stages
  <2>2. Len(attempts[stage][rev]) \in Nat
    BY <2>1, AttemptLogs
  <2>3. 1 \notin 1 .. Len(attempts[stage][rev])
    BY DEF ReleaseInv, PublishAttempts, DeliverAttempts, ReleaseStages
  <2> QED
    BY <2>2, <2>3
<1>2. publication = None
  <2>1. currentRevision \in Revisions
    BY DEF TypeOK
  <2> QED
    BY <1>1, <2>1 DEF ReleaseInv, PublicationRecord, ReleaseStages
<1>3. deliveries = <<>>
  BY <1>2 DEF ReleaseInv, DeliveryRecord
<1> QED
  BY <1>1, <1>2, <1>3 DEF NothingReleased

\* A step that touches no attempt to publish or deliver keeps it so.
LEMMA StillBeforeRelease ==
  ASSUME NothingReleased, Paid', UNCHANGED <<publication, deliveries>>,
         \A stage \in ReleaseStages, rev \in Revisions :
           attempts'[stage][rev] = attempts[stage][rev]
  PROVE  ReleaseInv'
BY DEF NothingReleased, ReleaseInv, PublishAttempts, DeliverAttempts, PublicationRecord,
       DeliveryRecord, ReleaseStages

\* Closing an attempt touches no other stage's.
LEMMA CloseKeepsOthers ==
  ASSUME TypeOK, NEW stage \in Stages, NEW rev, NEW n, NEW status,
         CloseAttempt(stage, rev, n, status),
         NEW other \in Stages, other /= stage
  PROVE  attempts'[other] = attempts[other]
BY DEF CloseAttempt, TypeOK

\* The states of the stages that are no release stage are not in the release.
LEMMA StagesBeforeRelease ==
  ASSUME NEW stage \in Stages \ ReleaseStages
  PROVE  /\ state = QueuedState(stage) => ~InRelease /\ state \notin {"absent", "awaiting_payment"}
         /\ state = RunningState(stage) => ~InRelease /\ state \notin {"absent", "awaiting_payment"}
         /\ state = "retry_wait" /\ retry.stage = stage => ~InRelease
BY DEF Stages, ReleaseStages, QueuedState, RunningState, InRelease, InPublication, PastPublication

\* Creating, paying and reviewing a job happens before its release.
LEMMA JudgingSteps ==
  ASSUME TypeOK, ReleaseInv, NEW at \in Times
  PROVE  /\ \A narrated \in NarrationChoices : CreateJob(narrated, at) => ReleaseInv'
         /\ \A call, correlation : RecordPayment(call, correlation, at) => ReleaseInv'
         /\ \A type \in ReviewTypes : \A call, rev, outcome, digest :
              RecordReviewDecision(call, type, rev, outcome, digest, at) => ReleaseInv'
<1>1. ASSUME ~InRelease, UNCHANGED <<attempts, publication, deliveries>>, Paid'
      PROVE  ReleaseInv'
  BY <1>1, BeforeRelease, StillBeforeRelease
<1>2. ASSUME NEW narrated \in NarrationChoices, CreateJob(narrated, at)
      PROVE  ReleaseInv'
  <2>1. ~InRelease /\ Paid'
    BY <1>2 DEF CreateJob, InRelease, InPublication, PastPublication, Paid
  <2> QED
    BY <1>1, <1>2, <2>1 DEF CreateJob
<1>3. ASSUME NEW call, NEW correlation, RecordPayment(call, correlation, at)
      PROVE  ReleaseInv'
  <2>1. ~InRelease /\ Paid'
    BY <1>3 DEF RecordPayment, InRelease, InPublication, PastPublication, Paid
  <2> QED
    BY <1>1, <1>3, <2>1 DEF RecordPayment
<1>4. ASSUME NEW call, NEW type \in ReviewTypes, NEW rev, NEW outcome, NEW digest,
             RecordReviewDecision(call, type, rev, outcome, digest, at)
      PROVE  ReleaseInv'
  <2>1. state \in {"content_review_required", "narration_review_required"}
    BY <1>4 DEF RecordReviewDecision, CanDecide, ReviewState
  <2>2. ~InRelease /\ Paid'
    BY <1>4, <2>1 DEF RecordReviewDecision, ReleaseInv, InRelease, InPublication,
                      PastPublication, Paid
  <2> QED
    BY <1>1, <1>4, <2>2 DEF RecordReviewDecision
<1> QED
  BY <1>2, <1>3, <1>4

\* So do the attempts of the stages that prepare, render and narrate: neither a
\* claim, a failure, a completion nor a retry of theirs is part of a release.
LEMMA PreparingSteps ==
  ASSUME TypeOK, OneLease, ReleaseInv, NEW at, NEW stage \in Stages \ ReleaseStages,
         UNCHANGED <<payment, publication, deliveries>>,
         \/ UNCHANGED attempts /\ state = "retry_wait" /\ retry.stage = stage
         \/ state = QueuedState(stage) /\ \E attempt : Appends(stage, attempt)
         \/ /\ state = RunningState(stage)
            /\ \E rev, n, status : CloseAttempt(stage, rev, n, status)
  PROVE  ReleaseInv'
<1>1. ~InRelease /\ state \notin {"absent", "awaiting_payment"}
  BY StagesBeforeRelease
<1>2. NothingReleased /\ Paid'
  BY <1>1, BeforeRelease DEF ReleaseInv, Paid
<1>3. \A other \in ReleaseStages, rev \in Revisions : attempts'[other][rev] = attempts[other][rev]
  BY CloseKeepsOthers DEF Appends, ReleaseStages, Stages
<1> QED
  BY <1>2, <1>3, StillBeforeRelease

-----------------------------------------------------------------------------
(* In the release                                                           *)

Judgement == <<narrationRequired, payment, currentRevision, artifacts, decisions>>

\* As long as neither artifacts nor decisions change, eligibility does not.
LEMMA EligibilityKept ==
  ASSUME UNCHANGED Judgement
  PROVE  ReleaseEligible' = ReleaseEligible /\ ReleaseDigest' = ReleaseDigest
BY DEF Judgement, ReleaseEligible, ReleaseDigest, LatestApproved, LatestArtifactSet

\* Closing an attempt keeps its operation, and completes no other.
LEMMA CloseKeepsOperation ==
  ASSUME NEW stage, NEW rev, NEW n, NEW status, Closes(stage, rev, n, status),
         NEW s \in Stages, NEW r \in Revisions, NEW m \in 1 .. Len(attempts[s][r]),
         attempts[s][r][m] \in Attempt
  PROVE  /\ attempts'[s][r][m].op = attempts[s][r][m].op
         /\ attempts'[s][r][m].status = "completed" =>
              \/ attempts[s][r][m].status = "completed"
              \/ s = stage /\ status = "completed"
<1> DEFINE entry == attempts[s][r][m]
           closed == [entry EXCEPT !.status = status, !.expires = 0]
<1>1. closed.op = entry.op /\ closed.status = status
  BY DEF Attempt
<1> HIDE DEF closed
<1>2. attempts'[s][r][m] = IF s = stage /\ r = rev /\ m = n THEN closed ELSE entry
  BY DEF Closes, closed
<1> QED
  BY <1>1, <1>2

\* The release goes on: no attempt is added, one may be over, and the job moves
\* from its publication to what comes after it, never back.
LEMMA ReleaseGoesOn ==
  ASSUME ReleaseInv, UNCHANGED Judgement, InRelease, InRelease',
         state \notin {"absent", "awaiting_payment"},
         \A stage \in ReleaseStages, rev \in Revisions :
           /\ Len(attempts'[stage][rev]) = Len(attempts[stage][rev])
           /\ \A n \in 1 .. Len(attempts[stage][rev]) :
                /\ attempts'[stage][rev][n].op = attempts[stage][rev][n].op
                /\ attempts'[stage][rev][n].status = "completed" =>
                     \/ attempts[stage][rev][n].status = "completed"
                     \/ stage = "publish" /\ ~InPublication'
                     \/ stage = "deliver" /\ state' \in {"sent", "complete"},
         ~InPublication => /\ ~InPublication'
                           /\ UNCHANGED <<publication, publishedRevision>>,
         state \in {"sent", "complete"} => state' \in {"sent", "complete"}
  PROVE  Paid' /\ PublishAttempts' /\ DeliverAttempts'
<1>1. ReleaseEligible' = ReleaseEligible /\ currentRevision' = currentRevision
  BY EligibilityKept DEF Judgement
<1>2. Paid'
  BY DEF ReleaseInv, Paid, Judgement
<1>3. PublishAttempts'
  BY <1>1 DEF ReleaseInv, PublishAttempts, ReleaseStages
<1>4. DeliverAttempts'
  BY <1>1 DEF ReleaseInv, DeliverAttempts, ReleaseStages, PublishedExactly
<1> QED
  BY <1>2, <1>3, <1>4

\* Records that a step leaves alone stay true of the release.
LEMMA RecordsKept ==
  ASSUME TypeOK, ReleaseInv, UNCHANGED Judgement,
         UNCHANGED <<publication, publishedRevision, deliveries>>,
         \A rev \in Revisions : Len(attempts'["publish"][rev]) >= Len(attempts["publish"][rev]),
         state \in {"sent", "complete"} => state' \in {"sent", "complete"}
  PROVE  PublicationRecord' /\ DeliveryRecord'
<1>1. ReleaseDigest' = ReleaseDigest /\ currentRevision' = currentRevision
  BY EligibilityKept DEF Judgement
<1>2. /\ currentRevision \in Revisions
      /\ Len(attempts["publish"][currentRevision]) \in Nat
  BY AttemptLogs DEF TypeOK, Stages
<1>3. PublicationRecord'
  BY <1>1, <1>2 DEF ReleaseInv, PublicationRecord
<1>4. DeliveryRecord'
  BY <1>1 DEF ReleaseInv, DeliveryRecord
<1> QED
  BY <1>3, <1>4

\* A claim to publish or deliver rests on an eligible release, and finds no
\* attempt of its stage completed: its operation is the first.
LEMMA ReleaseClaims ==
  ASSUME TypeOK, ReleaseInv, NEW at, NEW stage \in ReleaseStages, NEW rev, NEW n, NEW binding,
         ClaimStage(stage, rev, n, binding, at)
  PROVE  ReleaseInv'
<1> DEFINE attempt == [op |-> NextOperation(stage), binding |-> binding,
                       status |-> "running", expires |-> at + LeaseMs[stage]]
<1>0. stage \in Stages /\ "publish" \in Stages /\ "deliver" \in Stages
        /\ currentRevision \in Revisions
  BY DEF ReleaseStages, Stages, TypeOK
<1>1. /\ state = QueuedState(stage) /\ state' = RunningState(stage)
      /\ ReleaseEligible /\ (stage = "deliver" => PublishedExactly)
      /\ UNCHANGED Judgement /\ UNCHANGED <<publication, publishedRevision, deliveries>>
  BY DEF ClaimStage, CanClaim, ClaimEligible, ReleaseStages, Judgement
<1>2. /\ stage = "publish" => InPublication /\ InPublication'
      /\ stage = "deliver" => InRelease /\ ~InPublication /\ InRelease' /\ ~InPublication'
      /\ InRelease' /\ state \notin {"absent", "awaiting_payment", "sent", "complete"}
  BY <1>1 DEF ReleaseStages, QueuedState, RunningState, InRelease, InPublication, PastPublication
<1>3. /\ attempt.op = 1
      /\ attempt.status = "running"
  <2>1. {m \in 1 .. Len(attempts[stage][currentRevision]) :
           attempts[stage][currentRevision][m].status = "completed"} = {}
    BY <1>0, <1>1, <1>2 DEF ReleaseInv, PublishAttempts, DeliverAttempts, ReleaseStages
  <2> QED
    BY <2>1, FS_EmptySet DEF NextOperation
<1>4. Appends(stage, attempt)
  BY <1>0, ClaimAppends
<1> HIDE DEF attempt
<1>5. ASSUME NEW s \in ReleaseStages, NEW r \in Revisions
      PROVE  /\ Len(attempts[s][r]) \in Nat
             /\ Len(attempts'[s][r]) \in Nat
             /\ Len(attempts'[s][r]) >= Len(attempts[s][r])
             /\ \A m \in 1 .. Len(attempts'[s][r]) :
                  \/ m \in 1 .. Len(attempts[s][r]) /\ attempts'[s][r][m] = attempts[s][r][m]
                  \/ s = stage /\ r = currentRevision /\ attempts'[s][r][m] = attempt
  <2>1. s \in Stages
    BY <1>0, <1>5 DEF ReleaseStages
  <2>2. /\ Len(attempts[s][r]) \in Nat
        /\ Len(attempts'[s][r]) = IF s = stage /\ r = currentRevision
                                    THEN Len(attempts[s][r]) + 1 ELSE Len(attempts[s][r])
        /\ \A m \in 1 .. Len(attempts[s][r]) : attempts'[s][r][m] = attempts[s][r][m]
        /\ s = stage /\ r = currentRevision =>
             attempts'[s][r][Len(attempts[s][r]) + 1] = attempt
    BY <1>0, <1>4, <2>1, AppendsExtends
  <2> QED
    BY <2>2
<1>6. ReleaseEligible' = ReleaseEligible /\ currentRevision' = currentRevision
        /\ (PublishedExactly => PublishedExactly')
  BY <1>1, EligibilityKept DEF Judgement, PublishedExactly
<1>7. Paid'
  BY <1>1, <1>2 DEF ReleaseInv, Paid, Judgement
<1>8. PublishAttempts'
  BY <1>1, <1>2, <1>3, <1>5, <1>6 DEF ReleaseInv, PublishAttempts, ReleaseStages
<1>9. DeliverAttempts'
  BY <1>1, <1>2, <1>3, <1>5, <1>6 DEF ReleaseInv, DeliverAttempts, ReleaseStages
<1>10. PublicationRecord' /\ DeliveryRecord'
  BY <1>1, <1>2, <1>5, RecordsKept DEF ReleaseStages
<1> QED
  BY <1>7, <1>8, <1>9, <1>10 DEF ReleaseInv

\* A publication or delivery that fails waits for its retry, or ends the job.
LEMMA ReleaseFailures ==
  ASSUME TypeOK, OneLease, ReleaseInv, NEW at, NEW id, NEW stage \in ReleaseStages,
         NEW rev \in Revisions, NEW n \in 1 .. Len(attempts[stage][rev]), NEW reason,
         NEW retryable, FailStage(id, stage, rev, n, reason, retryable, at)
  PROVE  ReleaseInv'
<1>0. stage \in Stages /\ ReleaseStages \subseteq Stages
  BY DEF ReleaseStages, Stages
<1>1. state = RunningState(stage)
  BY <1>0 DEF FailStage, CanFail, HoldsLease, OneLease
<1>2. PICK status \in {"retry_wait", "failed"} :
        /\ CloseAttempt(stage, rev, n, status)
        /\ state' = status
        /\ status = "retry_wait" => retry'.stage = stage
  BY DEF FailStage
<1>3. Closes(stage, rev, n, status)
  BY <1>0, <1>2, CloseAttemptCloses
<1>4. UNCHANGED Judgement /\ UNCHANGED <<publication, publishedRevision, deliveries>>
  BY DEF FailStage, Judgement
<1>5. /\ stage = "publish" => InPublication
      /\ stage = "deliver" => ~InPublication /\ ~InPublication'
      /\ InRelease /\ InRelease' /\ state \notin {"absent", "awaiting_payment", "sent", "complete"}
  BY <1>1, <1>2 DEF ReleaseStages, RunningState, InRelease, InPublication, PastPublication
<1>6. ASSUME NEW s \in ReleaseStages, NEW r \in Revisions
      PROVE  /\ Len(attempts[s][r]) \in Nat
             /\ Len(attempts'[s][r]) = Len(attempts[s][r])
             /\ \A m \in 1 .. Len(attempts[s][r]) :
                  /\ attempts'[s][r][m].op = attempts[s][r][m].op
                  /\ attempts'[s][r][m].status = "completed" =>
                       attempts[s][r][m].status = "completed"
  <2>1. s \in Stages
    BY <1>0, <1>6
  <2>2. Len(attempts[s][r]) \in Nat /\ Len(attempts'[s][r]) = Len(attempts[s][r])
    BY <1>3, <2>1, AttemptLogs DEF Closes
  <2>3. ASSUME NEW m \in 1 .. Len(attempts[s][r])
        PROVE  /\ attempts'[s][r][m].op = attempts[s][r][m].op
               /\ attempts'[s][r][m].status = "completed" =>
                    attempts[s][r][m].status = "completed"
    <3>1. attempts[s][r][m] \in Attempt
      BY <2>1, AttemptLogs
    <3> QED
      BY <1>3, <2>1, <3>1, CloseKeepsOperation
  <2> QED
    BY <2>2, <2>3
<1>7. Paid' /\ PublishAttempts' /\ DeliverAttempts'
  BY <1>4, <1>5, <1>6, ReleaseGoesOn DEF ReleaseStages
<1>8. PublicationRecord' /\ DeliveryRecord'
  BY <1>4, <1>5, <1>6, RecordsKept DEF ReleaseStages
<1> QED
  BY <1>7, <1>8 DEF ReleaseInv

\* Queueing the delivery, settling it and resuming a retry touch no attempt.
LEMMA ReleaseWithoutAttempt ==
  ASSUME TypeOK, ReleaseInv, UNCHANGED Judgement,
         UNCHANGED <<attempts, publication, publishedRevision, deliveries>>,
         InRelease, InRelease', state \notin {"absent", "awaiting_payment"},
         ~InPublication => ~InPublication',
         state \in {"sent", "complete"} => state' \in {"sent", "complete"}
  PROVE  ReleaseInv'
<1>1. Paid' /\ PublishAttempts' /\ DeliverAttempts'
  BY ReleaseGoesOn
<1>2. \A rev \in Revisions : Len(attempts["publish"][rev]) \in Nat
  BY AttemptLogs DEF Stages
<1>3. PublicationRecord' /\ DeliveryRecord'
  BY <1>2, RecordsKept
<1> QED
  BY <1>1, <1>3 DEF ReleaseInv

\* A completed publication is recorded as the release it was claimed for.
LEMMA PublishCompletes ==
  ASSUME TypeOK, OneLease, ReleaseInv, NEW rev \in Revisions,
         NEW n \in 1 .. Len(attempts["publish"][rev]), NEW receipt, NEW at,
         CompletePublish(rev, n, receipt, at)
  PROVE  ReleaseInv'
<1>0. "publish" \in Stages /\ "deliver" \in Stages
  BY DEF Stages
<1>1. /\ state = "publishing" /\ state' = "published"
      /\ ReleaseEligible
      /\ Running("publish", rev, n)
      /\ CloseAttempt("publish", rev, n, "completed")
  BY DEF CompletePublish, CanCompletePublish, CanCommit, HoldsLease, Commit, RunningState
<1>2. rev = currentRevision
  BY <1>0, <1>1 DEF OneLease
<1>3. Closes("publish", rev, n, "completed")
  BY <1>0, <1>1, CloseAttemptCloses
<1>4. UNCHANGED Judgement /\ UNCHANGED deliveries
  BY DEF CompletePublish, Judgement
<1>5. InRelease /\ InPublication /\ InRelease' /\ ~InPublication'
  BY <1>1 DEF InRelease, InPublication, PastPublication
<1>6. ASSUME NEW s \in ReleaseStages, NEW r \in Revisions
      PROVE  /\ Len(attempts[s][r]) \in Nat
             /\ Len(attempts'[s][r]) = Len(attempts[s][r])
             /\ \A m \in 1 .. Len(attempts[s][r]) :
                  /\ attempts'[s][r][m].op = attempts[s][r][m].op
                  /\ attempts'[s][r][m].status = "completed" =>
                       attempts[s][r][m].status = "completed" \/ s = "publish"
  <2>1. s \in Stages
    BY <1>0, <1>6 DEF ReleaseStages
  <2>2. Len(attempts[s][r]) \in Nat /\ Len(attempts'[s][r]) = Len(attempts[s][r])
    BY <1>3, <2>1, AttemptLogs DEF Closes
  <2>3. ASSUME NEW m \in 1 .. Len(attempts[s][r])
        PROVE  /\ attempts'[s][r][m].op = attempts[s][r][m].op
               /\ attempts'[s][r][m].status = "completed" =>
                    attempts[s][r][m].status = "completed" \/ s = "publish"
    <3>1. attempts[s][r][m] \in Attempt
      BY <2>1, AttemptLogs
    <3> QED
      BY <1>3, <2>1, <3>1, CloseKeepsOperation
  <2> QED
    BY <2>2, <2>3
<1>7. Paid' /\ PublishAttempts' /\ DeliverAttempts'
  BY <1>1, <1>4, <1>5, <1>6, ReleaseGoesOn
<1>8. PublicationRecord'
  <2>1. /\ publication' = [rev |-> receipt.rev, digest |-> receipt.digest,
                           key |-> KeyOf("publish", rev, n), receipt |-> receipt.id]
        /\ receipt.rev = currentRevision /\ receipt.digest = ReleaseDigest
        /\ publishedRevision' = currentRevision
    BY DEF CompletePublish, CanCompletePublish
  <2>2. ReleaseDigest' = ReleaseDigest /\ currentRevision' = currentRevision
    BY <1>4, EligibilityKept DEF Judgement
  <2>3. 1 <= Len(attempts'["publish"][currentRevision])
    BY <1>2, <1>6 DEF ReleaseStages
  <2> QED
    BY <2>1, <2>2, <2>3 DEF PublicationRecord
<1>9. DeliveryRecord'
  BY <1>1, <1>4 DEF ReleaseInv, DeliveryRecord
<1> QED
  BY <1>7, <1>8, <1>9 DEF ReleaseInv

\* A completed delivery is the first that is recorded, and of the published revision.
LEMMA DeliverCompletes ==
  ASSUME TypeOK, OneLease, ReleaseInv, NEW rev \in Revisions,
         NEW n \in 1 .. Len(attempts["deliver"][rev]), NEW receipt, NEW at,
         CompleteDeliver(rev, n, receipt, at)
  PROVE  ReleaseInv'
<1>0. "publish" \in Stages /\ "deliver" \in Stages
  BY DEF Stages
<1>1. /\ state = "sending" /\ state' = "sent"
      /\ CloseAttempt("deliver", rev, n, "completed")
      /\ receipt.rev = currentRevision
  BY DEF CompleteDeliver, CanCompleteDeliver, CanCommit, Commit, RunningState
<1>2. PublishedExactly
  BY DEF ReleaseInv, DeliverAttempts
<1>3. Closes("deliver", rev, n, "completed")
  BY <1>0, <1>1, CloseAttemptCloses
<1>4. UNCHANGED Judgement /\ UNCHANGED <<publication, publishedRevision>>
  BY DEF CompleteDeliver, Judgement
<1>5. InRelease /\ ~InPublication /\ InRelease' /\ ~InPublication'
  BY <1>1 DEF InRelease, InPublication, PastPublication
<1>6. ASSUME NEW s \in ReleaseStages, NEW r \in Revisions
      PROVE  /\ Len(attempts[s][r]) \in Nat
             /\ Len(attempts'[s][r]) = Len(attempts[s][r])
             /\ \A m \in 1 .. Len(attempts[s][r]) :
                  /\ attempts'[s][r][m].op = attempts[s][r][m].op
                  /\ attempts'[s][r][m].status = "completed" =>
                       attempts[s][r][m].status = "completed" \/ s = "deliver"
  <2>1. s \in Stages
    BY <1>0, <1>6 DEF ReleaseStages
  <2>2. Len(attempts[s][r]) \in Nat /\ Len(attempts'[s][r]) = Len(attempts[s][r])
    BY <1>3, <2>1, AttemptLogs DEF Closes
  <2>3. ASSUME NEW m \in 1 .. Len(attempts[s][r])
        PROVE  /\ attempts'[s][r][m].op = attempts[s][r][m].op
               /\ attempts'[s][r][m].status = "completed" =>
                    attempts[s][r][m].status = "completed" \/ s = "deliver"
    <3>1. attempts[s][r][m] \in Attempt
      BY <2>1, AttemptLogs
    <3> QED
      BY <1>3, <2>1, <3>1, CloseKeepsOperation
  <2> QED
    BY <2>2, <2>3
<1>7. Paid' /\ PublishAttempts' /\ DeliverAttempts'
  BY <1>1, <1>4, <1>5, <1>6, ReleaseGoesOn
<1>8. PublicationRecord'
  <2>1. ReleaseDigest' = ReleaseDigest /\ currentRevision' = currentRevision
          /\ currentRevision \in Revisions
    BY <1>4, EligibilityKept DEF Judgement, TypeOK
  <2>2. Len(attempts'["publish"][currentRevision]) = Len(attempts["publish"][currentRevision])
    BY <1>6, <2>1 DEF ReleaseStages
  <2> QED
    BY <1>4, <2>1, <2>2 DEF ReleaseInv, PublicationRecord
<1>9. DeliveryRecord'
  <2> DEFINE entry == [rev |-> receipt.rev, message |-> receipt.id,
                       key |-> KeyOf("deliver", rev, n),
                       target |-> attempts["deliver"][rev][n].binding,
                       status |-> "sent", outcome |-> None]
  <2>1. deliveries = <<>>
    BY <1>1 DEF ReleaseInv, DeliveryRecord
  <2>2. entry.rev = currentRevision
    BY <1>1
  <2>3. deliveries' = Append(deliveries, entry)
    BY DEF CompleteDeliver
  <2> HIDE DEF entry
  <2>4. Len(deliveries') = 1 /\ deliveries'[1] = entry
    BY <2>1, <2>3
  <2> QED
    BY <1>1, <1>2, <1>4, <2>2, <2>4 DEF DeliveryRecord, PublishedExactly, Judgement
<1> QED
  BY <1>7, <1>8, <1>9 DEF ReleaseInv

\* What the provider says of a message changes its entry, and nothing it records
\* about the release.
LEMMA DeliverySettles ==
  ASSUME TypeOK, ReleaseInv, NEW call, NEW message, NEW at,
         ConfirmDelivery(call, message, at)
           \/ \E outcome : ReconcileDelivery(call, message, outcome, at)
  PROVE  ReleaseInv'
<1>1. /\ state = "sent" /\ state' \in {"sent", "complete"} /\ deliveries /= <<>>
      /\ UNCHANGED Judgement /\ UNCHANGED <<attempts, publication, publishedRevision>>
  BY DEF ConfirmDelivery, ReconcileDelivery, CanSettleDelivery, MarkDelivered, Judgement
<1>2. /\ InRelease /\ ~InPublication /\ InRelease' /\ ~InPublication'
  BY <1>1 DEF InRelease, InPublication, PastPublication
<1>3. \A rev \in Revisions : Len(attempts["publish"][rev]) \in Nat
  BY AttemptLogs DEF Stages
<1>4. Paid' /\ PublishAttempts' /\ DeliverAttempts'
  BY <1>1, <1>2, ReleaseGoesOn
<1>5. PublicationRecord'
  BY <1>1, EligibilityKept DEF ReleaseInv, PublicationRecord, Judgement
<1>6. DeliveryRecord'
  <2>1. Len(deliveries) = 1 /\ deliveries[1] \in Delivery /\ deliveries[1].rev = currentRevision
    BY <1>1 DEF ReleaseInv, DeliveryRecord, TypeOK
  <2>2. PICK entry : deliveries' = [deliveries EXCEPT ![1] = entry] /\ entry.rev = deliveries[1].rev
    <3>1. CASE MarkDelivered
      <4> DEFINE entry == [deliveries[1] EXCEPT !.status = "delivered", !.outcome = "delivered"]
      <4>1. entry.rev = deliveries[1].rev
        BY <2>1 DEF Delivery
      <4> QED
        BY <2>1, <3>1, <4>1 DEF MarkDelivered
    <3>2. ASSUME NEW outcome, deliveries' = [deliveries EXCEPT ![Len(deliveries)].outcome = outcome]
          PROVE  \E entry : deliveries' = [deliveries EXCEPT ![1] = entry]
                              /\ entry.rev = deliveries[1].rev
      <4> DEFINE entry == [deliveries[1] EXCEPT !.outcome = outcome]
      <4>1. entry.rev = deliveries[1].rev
        BY <2>1 DEF Delivery
      <4> QED
        BY <2>1, <3>2, <4>1
    <3> QED
      BY <3>1, <3>2 DEF ConfirmDelivery, ReconcileDelivery
  <2>3. Len(deliveries') = 1 /\ deliveries'[1].rev = currentRevision
    <3>1. deliveries \in Seq(Delivery)
      BY DEF TypeOK
    <3> QED
      BY <2>1, <2>2, <3>1
  <2> QED
    BY <1>1, <2>3 DEF ReleaseInv, DeliveryRecord, Judgement
<1> QED
  BY <1>4, <1>5, <1>6 DEF ReleaseInv

-----------------------------------------------------------------------------
(* Every step                                                               *)

\* No command of a caller disturbs the release.
LEMMA CallerKeepsRelease ==
  ASSUME TypeOK, ReleaseInv, NEW at \in Times, CallerCommand(at)
  PROVE  ReleaseInv'
<1>1. ASSUME NEW call, QueueDelivery(call, at)
      PROVE  ReleaseInv'
  <2>1. /\ InRelease /\ ~InPublication /\ InRelease' /\ ~InPublication'
        /\ state = "published"
    BY <1>1 DEF QueueDelivery, InRelease, InPublication, PastPublication
  <2> QED
    BY <1>1, <2>1, ReleaseWithoutAttempt DEF QueueDelivery, Judgement
<1>2. ASSUME NEW narrated \in NarrationChoices, CreateJob(narrated, at)
      PROVE  ReleaseInv'
  BY <1>2, JudgingSteps
<1>3. ASSUME NEW call, NEW correlation, RecordPayment(call, correlation, at)
      PROVE  ReleaseInv'
  BY <1>3, JudgingSteps
<1>4. ASSUME NEW call, NEW type \in ReviewTypes, NEW rev, NEW outcome, NEW digest,
             RecordReviewDecision(call, type, rev, outcome, digest, at)
      PROVE  ReleaseInv'
  BY <1>4, JudgingSteps
<1>5. ASSUME NEW call, NEW message, ConfirmDelivery(call, message, at)
      PROVE  ReleaseInv'
  BY <1>5, DeliverySettles
<1>6. ASSUME NEW call, NEW message, NEW outcome, ReconcileDelivery(call, message, outcome, at)
      PROVE  ReleaseInv'
  BY <1>6, DeliverySettles
<1> QED
  BY <1>1, <1>2, <1>3, <1>4, <1>5, <1>6 DEF CallerCommand

\* Nor does the end of a wait: the stage that waited is queued again.
LEMMA ResumeKeepsRelease ==
  ASSUME TypeOK, OneLease, RetryAhead, ReleaseInv, NEW id, NEW at, ResumeRetry(id, at)
  PROVE  ReleaseInv'
<1>1. state = "retry_wait" /\ retry.stage \in Stages /\ state' = QueuedState(retry.stage)
  BY DEF ResumeRetry, CanResume, RetryAhead
<1>2. CASE retry.stage \in ReleaseStages
  <2>1. /\ InRelease /\ InRelease'
        /\ ~InPublication => ~InPublication'
    BY <1>1, <1>2 DEF ReleaseStages, QueuedState, InRelease, InPublication, PastPublication
  <2> QED
    BY <1>1, <2>1, ReleaseWithoutAttempt DEF ResumeRetry, Judgement
<1>3. CASE retry.stage \notin ReleaseStages
  BY <1>1, <1>3, PreparingSteps DEF ResumeRetry
<1> QED
  BY <1>2, <1>3

\* Claims and failures of any stage keep the release in order.
LEMMA AttemptKeepsRelease ==
  ASSUME TypeOK, OneLease, ReleaseInv, NEW at, NEW stage \in Stages
  PROVE  /\ \A rev, n, binding : ClaimStage(stage, rev, n, binding, at) => ReleaseInv'
         /\ \A rev \in Revisions : \A n \in 1 .. Len(attempts[stage][rev]) :
              \A id, reason, retryable :
                FailStage(id, stage, rev, n, reason, retryable, at) => ReleaseInv'
<1>1. ASSUME NEW rev, NEW n, NEW binding, ClaimStage(stage, rev, n, binding, at)
      PROVE  ReleaseInv'
  <2>1. CASE stage \in ReleaseStages
    BY <1>1, <2>1, ReleaseClaims
  <2>2. CASE stage \notin ReleaseStages
    <3>1. \E attempt : Appends(stage, attempt)
      BY <1>1, ClaimAppends
    <3> QED
      BY <1>1, <2>2, <3>1, PreparingSteps DEF ClaimStage, CanClaim
  <2> QED
    BY <2>1, <2>2
<1>2. ASSUME NEW id, NEW rev \in Revisions, NEW n \in 1 .. Len(attempts[stage][rev]),
             NEW reason, NEW retryable, FailStage(id, stage, rev, n, reason, retryable, at)
      PROVE  ReleaseInv'
  <2>1. CASE stage \in ReleaseStages
    BY <1>2, <2>1, ReleaseFailures
  <2>2. CASE stage \notin ReleaseStages
    <3>1. state = RunningState(stage)
      BY <1>2 DEF FailStage, CanFail, HoldsLease, OneLease
    <3>2. \E status : CloseAttempt(stage, rev, n, status)
      BY <1>2 DEF FailStage
    <3> QED
      BY <1>2, <2>2, <3>1, <3>2, PreparingSteps DEF FailStage
  <2> QED
    BY <2>1, <2>2
<1> QED
  BY <1>1, <1>2

\* A completed preparation, rendering or narration comes before any release.
LEMMA ProductKeepsRelease ==
  ASSUME TypeOK, OneLease, ReleaseInv, NEW at, NEW rev, NEW n, NEW digest
  PROVE  /\ \A ordinal : CompletePrepare(rev, n, ordinal, digest, at) => ReleaseInv'
         /\ CompleteRender(rev, n, digest, at) => ReleaseInv'
         /\ CompleteNarration(rev, n, digest, at) => ReleaseInv'
<1>0. {"prepare_review", "render_approved", "generate_tts"} \subseteq Stages \ ReleaseStages
  BY DEF Stages, ReleaseStages
<1>1. ASSUME NEW stage \in Stages \ ReleaseStages, CanCommit(stage, rev, n, at),
             Commit(stage, rev, n, at), UNCHANGED <<payment, publication, deliveries>>
      PROVE  ReleaseInv'
  BY <1>1, PreparingSteps DEF CanCommit, Commit
<1> QED
  BY <1>0, <1>1 DEF CompletePrepare, CanCompletePrepare, CompleteRender, CanCompleteRender,
                    CompleteNarration, CanCompleteNarration

\* No command of a worker disturbs the release.
LEMMA WorkerKeepsRelease ==
  ASSUME TypeOK, OneLease, RetryAhead, ReleaseInv, NEW at \in Times, WorkerCommand(at)
  PROVE  ReleaseInv'
<1>0. \A stage \in Stages, rev \in Revisions :
        DOMAIN attempts[stage][rev] = 1 .. Len(attempts[stage][rev])
  BY AttemptLogs
<1>1. "publish" \in Stages /\ "deliver" \in Stages
  BY DEF Stages
<1>2. ASSUME NEW stage \in Stages, NEW binding,
             ClaimStage(stage, currentRevision, NextAttempt(stage), binding, at)
      PROVE  ReleaseInv'
  BY <1>2, AttemptKeepsRelease
<1>3. ASSUME NEW rev \in Revisions, NEW n, NEW ordinal, NEW digest,
             CompletePrepare(rev, n, ordinal, digest, at)
      PROVE  ReleaseInv'
  BY <1>3, ProductKeepsRelease
<1>4. ASSUME NEW rev \in Revisions, NEW n, NEW digest,
             CompleteRender(rev, n, digest, at) \/ CompleteNarration(rev, n, digest, at)
      PROVE  ReleaseInv'
  BY <1>4, ProductKeepsRelease
<1>5. ASSUME NEW rev \in Revisions, NEW n \in DOMAIN attempts["publish"][rev],
             NEW receipt \in Receipts, CompletePublish(rev, n, receipt, at)
      PROVE  ReleaseInv'
  BY <1>0, <1>1, <1>5, PublishCompletes
<1>6. ASSUME NEW rev \in Revisions, NEW n \in DOMAIN attempts["deliver"][rev],
             NEW receipt \in Receipts, CompleteDeliver(rev, n, receipt, at)
      PROVE  ReleaseInv'
  BY <1>0, <1>1, <1>6, DeliverCompletes
<1>7. ASSUME NEW stage \in Stages, NEW rev \in Revisions, NEW n \in DOMAIN attempts[stage][rev],
             NEW id, NEW reason, NEW retryable,
             FailStage(id, stage, rev, n, reason, retryable, at)
      PROVE  ReleaseInv'
  BY <1>0, <1>7, AttemptKeepsRelease
<1>8. ASSUME ResumeRetry(ResumeId(retry), at)
      PROVE  ReleaseInv'
  BY <1>8, ResumeKeepsRelease
<1> QED
  BY <1>2, <1>3, <1>4, <1>5, <1>6, <1>7, <1>8 DEF WorkerCommand

\* A job starts before its release, and every step keeps the release in order.
LEMMA ReleaseInductive ==
  /\ JobInit => ReleaseInv
  /\ IInv /\ ReleaseInv /\ [JobNext]_jobVars => ReleaseInv'
<1>1. JobInit => ReleaseInv
  BY DEF JobInit, ReleaseInv, Paid, PublishAttempts, DeliverAttempts, PublicationRecord,
         DeliveryRecord, Stages
<1>2. ASSUME IInv, ReleaseInv, [JobNext]_jobVars
      PROVE  ReleaseInv'
  <2>1. CASE JobNext
    BY <1>2, <2>1, WorkerKeepsRelease, CallerKeepsRelease DEF JobNext, IInv
  <2>2. CASE UNCHANGED jobVars
    BY <1>2, <2>2 DEF jobVars, ReleaseInv, Paid, PublishAttempts, DeliverAttempts,
         PublicationRecord, DeliveryRecord, InRelease, InPublication, PastPublication,
         ReleaseEligible, ReleaseDigest, LatestApproved, LatestArtifactSet, PublishedExactly
  <2> QED
    BY <1>2, <2>1, <2>2
<1> QED
  BY <1>1, <1>2

\* The release is in order in every reachable job.
THEOREM ReleaseInOrder == JobSpec => []ReleaseInv
BY ReleaseInductive, Inductive, PTL DEF JobSpec

-----------------------------------------------------------------------------
(* What follows from it                                                     *)

\* An eligible release is what the standing approvals name.
LEMMA EligibleIsApproved ==
  ASSUME TypeOK, ReleaseEligible
  PROVE  ReleaseDigest /= None /\ ApprovedForRelease(currentRevision, ReleaseDigest)
<1>1. ASSUME NEW type \in ReviewTypes, LatestApproved(type)
      PROVE  /\ LatestArtifactSet(ReviewedKind(type)) \in Digests
             /\ Stands(type, currentRevision, LatestArtifactSet(ReviewedKind(type)))
  <2> DEFINE log == decisions[type][currentRevision]
  <2>1. log \in Seq(Decision) /\ log /= <<>>
    BY <1>1 DEF LatestApproved, TypeOK
  <2>2. Last(log) \in Decision
    BY <2>1 DEF Last
  <2>3. Last(log).outcome = "approved" /\ Last(log).digest = LatestArtifactSet(ReviewedKind(type))
    BY <1>1 DEF LatestApproved
  <2>4. Last(log) = [outcome |-> "approved", digest |-> LatestArtifactSet(ReviewedKind(type))]
    BY <2>2, <2>3 DEF Decision
  <2> QED
    BY <2>1, <2>2, <2>3, <2>4 DEF Stands, Decision
<1>2. Stands("content", currentRevision, LatestArtifactSet("private_review"))
        /\ LatestArtifactSet("private_review") \in Digests
  BY <1>1 DEF ReleaseEligible, ReviewTypes, ReviewedKind
<1>3. ~narrationRequired => ReleaseDigest = LatestArtifactSet("private_review")
  BY DEF ReleaseEligible, ReleaseDigest, LatestApproved, ReviewedKind
<1>4. narrationRequired => /\ Stands("narration", currentRevision, ReleaseDigest)
                           /\ ReleaseDigest = LatestArtifactSet("narration_review")
  BY <1>1 DEF ReleaseEligible, ReleaseDigest, ReviewTypes, ReviewedKind
<1> QED
  BY <1>2, <1>3, <1>4 DEF ReleaseEligible, ApprovedForRelease

\* From the first claim of a publication on, the approvals of content and
\* narration that it rests on stand, over the newest artifact sets, for a job
\* that is paid: no decision, rework, failure or retry takes them back.
THEOREM ApprovalsStand == JobSpec => []ApprovalOutlivesRelease
<1>1. IInv /\ ReleaseInv => ApprovalOutlivesRelease
  <2> SUFFICES ASSUME IInv, ReleaseInv, NEW stage \in ReleaseStages, NEW rev \in Revisions,
                      attempts[stage][rev] /= <<>>
               PROVE  /\ payment = JobCorrelation
                      /\ ReleaseDigest /= None
                      /\ ApprovedForRelease(rev, ReleaseDigest)
    BY DEF ApprovalOutlivesRelease, ReleaseStages
  <2>1. 1 \in 1 .. Len(attempts[stage][rev])
    <3>1. attempts[stage][rev] \in Seq(Attempt)
      BY AttemptLogs DEF IInv, ReleaseStages, Stages
    <3> QED
      BY <3>1
  <2>2. rev = currentRevision /\ ReleaseEligible /\ InRelease
    BY <2>1 DEF ReleaseInv, PublishAttempts, DeliverAttempts, ReleaseStages
  <2>3. payment = JobCorrelation
    BY <2>2 DEF ReleaseInv, Paid, InRelease, InPublication, PastPublication
  <2> QED
    BY <2>2, <2>3, EligibleIsApproved DEF IInv
<1> QED
  BY <1>1, Inductive, ReleaseInOrder, PTL

\* The recorded publication and delivery are of exactly the approved revision
\* and artifacts of a paid job.
THEOREM RecordsAreApproved == JobSpec => []ReleasedAsApproved
<1>1. IInv /\ ReleaseInv => ReleasedAsApproved
  <2> SUFFICES ASSUME IInv, ReleaseInv PROVE ReleasedAsApproved
    OBVIOUS
  <2>1. ASSUME publication /= None
        PROVE  /\ payment = JobCorrelation
               /\ publishedRevision = publication.rev
               /\ ApprovedForRelease(publication.rev, publication.digest)
    <3>1. 1 \in 1 .. Len(attempts["publish"][currentRevision]) /\ currentRevision \in Revisions
      BY <2>1, AttemptLogs DEF ReleaseInv, PublicationRecord, IInv, TypeOK, Stages
    <3>2. ReleaseEligible /\ InRelease
      BY <3>1 DEF ReleaseInv, PublishAttempts
    <3>3. payment = JobCorrelation
      BY <3>2 DEF ReleaseInv, Paid, InRelease, InPublication, PastPublication
    <3> QED
      BY <2>1, <3>2, <3>3, EligibleIsApproved DEF ReleaseInv, PublicationRecord, IInv
  <2>2. ASSUME NEW i \in DOMAIN deliveries
        PROVE  publication /= None /\ deliveries[i].rev = publication.rev
    <3>1. deliveries /= <<>> /\ DOMAIN deliveries = 1 .. Len(deliveries)
      BY <2>2 DEF IInv, TypeOK
    <3>2. i = 1
      BY <2>2, <3>1 DEF ReleaseInv, DeliveryRecord
    <3> QED
      BY <3>1, <3>2 DEF ReleaseInv, DeliveryRecord, PublicationRecord
  <2> QED
    BY <2>1, <2>2 DEF ReleasedAsApproved
<1> QED
  BY <1>1, Inductive, ReleaseInOrder, PTL

\* A job publishes and sends under one idempotency key each, and records one
\* delivery at most, however many attempts, failures and expired leases it takes.
THEOREM EffectsShareAKey == JobSpec => []OneKeyPerEffect
<1>1. IInv /\ ReleaseInv => OneKeyPerEffect
  <2> SUFFICES ASSUME IInv, ReleaseInv PROVE OneKeyPerEffect
    OBVIOUS
  <2>1. Len(deliveries) <= 1
    BY DEF ReleaseInv, DeliveryRecord
  <2>2. ASSUME NEW stage \in ReleaseStages, NEW rev \in Revisions,
               NEW n \in 1 .. Len(attempts[stage][rev])
        PROVE  attempts[stage][rev][n].op = 1
    BY DEF ReleaseInv, PublishAttempts, DeliverAttempts, ReleaseStages
  <2> QED
    BY <2>1, <2>2 DEF OneKeyPerEffect, ReleaseStages
<1> QED
  BY <1>1, Inductive, ReleaseInOrder, PTL

-----------------------------------------------------------------------------
(* Work can go on                                                           *)

StageRank == [prepare_review |-> 1, render_approved |-> 2, generate_tts |-> 3,
              publish |-> 4, deliver |-> 5]

\* How far the current revision has come: a review of its content comes before
\* all its stages, and what has ended is past them.
Phase ==
  CASE state \in {"absent", "awaiting_payment", "content_review_required"} -> 0
    [] AtStage("prepare_review")  -> 1
    [] AtStage("render_approved") -> 2
    [] AtStage("generate_tts") \/ state = "narration_review_required" -> 3
    [] AtStage("publish") \/ state = "published" -> 4
    [] AtStage("deliver") \/ state \in {"sent", "complete"} -> 5
    [] OTHER -> 6

\* No stage was attempted that the job has not reached.
AttemptsBehind ==
  \A stage \in Stages, rev \in Revisions :
    Len(attempts[stage][rev]) > 0 =>
      /\ rev <= currentRevision
      /\ rev = currentRevision => StageRank[stage] <= Phase

\* What each phase works on stays approved.
ApprovalsAhead ==
  /\ Phase \in {2, 3} => LatestApproved("content")
  /\ Phase = 3 => narrationRequired /\ LatestArtifactSet("prepared_bundle") /= None
  /\ Phase \in {4, 5} => ReleaseEligible
  /\ Phase = 5 \/ state = "published" => PublishedExactly

AttemptsLeft ==
  \A stage \in Stages : AtStage(stage) =>
    \/ state = RunningState(stage)
    \/ NextAttempt(stage) <= MaxAttempts[stage]
    \/ state = "tts_queued" /\ ReworkAsked

WorkInv == AttemptsBehind /\ ApprovalsAhead /\ AttemptsLeft

\* The states of a stage are no others, and give the job's phase.
LEMMA PhaseOfStage ==
  ASSUME NEW stage \in Stages
  PROVE  /\ AtStage(stage) => Phase = StageRank[stage]
         /\ AtStage(stage)' => Phase' = StageRank[stage]
BY DEF Stages, AtStage, Phase, StageRank, QueuedState, RunningState

LEMMA PhaseType ==
  /\ \A stage \in Stages : StageRank[stage] \in 1 .. 5
  /\ Phase \in 0 .. 6 /\ Phase' \in 0 .. 6
<1>1. \A stage \in Stages : StageRank[stage] \in 1 .. 5
  BY DEF Stages, StageRank
<1>2. Phase \in 0 .. 6
  BY DEF Phase
<1>3. Phase' \in 0 .. 6
  BY DEF Phase
<1> QED
  BY <1>1, <1>2, <1>3

\* The states in which no stage is under way.
PausedStates ==
  {"absent", "awaiting_payment", "published", "sent"} \cup ReviewStates \cup TerminalStates

LEMMA PhaseOfPause ==
  /\ state' \in PausedStates => \A stage \in Stages : ~AtStage(stage)'
  /\ state \in {"absent", "awaiting_payment", "content_review_required"} => Phase = 0
  /\ state' \in {"awaiting_payment", "content_review_required"} => Phase' = 0
  /\ state = "narration_review_required" => Phase = 3
  /\ state' = "narration_review_required" => Phase' = 3
  /\ state = "published" => Phase = 4
  /\ state' = "published" => Phase' = 4
  /\ state \in {"sent", "complete"} => Phase = 5
  /\ state' \in {"sent", "complete"} => Phase' = 5
  /\ state' \in {"failed", "rejected"} => Phase' = 6
<1>1. state' \in PausedStates => \A stage \in Stages : ~AtStage(stage)'
  BY DEF PausedStates, ReviewStates, ReviewTypes, ReviewState, TerminalStates, AtStage, Stages,
         QueuedState, RunningState
<1> QED
  BY <1>1 DEF Phase, AtStage, QueuedState, RunningState

SameAttempts ==
  \A stage \in Stages, rev \in Revisions : Len(attempts'[stage][rev]) = Len(attempts[stage][rev])

\* Within a revision the job only goes on, and attempts only what it has reached.
LEMMA BehindGoesOn ==
  ASSUME TypeOK, AttemptsBehind, UNCHANGED currentRevision, Phase <= Phase',
         \A stage \in Stages, rev \in Revisions :
           \/ Len(attempts'[stage][rev]) = Len(attempts[stage][rev])
           \/ rev = currentRevision /\ StageRank[stage] = Phase'
  PROVE  AttemptsBehind'
<1> SUFFICES ASSUME NEW stage \in Stages, NEW rev \in Revisions, Len(attempts'[stage][rev]) > 0
             PROVE  rev <= currentRevision /\ (rev = currentRevision => StageRank[stage] <= Phase')
  BY DEF AttemptsBehind
<1>1. CASE Len(attempts'[stage][rev]) = Len(attempts[stage][rev])
  <2>1. rev <= currentRevision /\ (rev = currentRevision => StageRank[stage] <= Phase)
    BY <1>1 DEF AttemptsBehind
  <2> QED
    BY <2>1, PhaseType
<1>2. CASE rev = currentRevision /\ StageRank[stage] = Phase'
  BY <1>2, PhaseType, RevisionsAreNaturals
<1> QED
  BY <1>1, <1>2

\* What is approved stays so as long as the job stays in its phase, or ends.
LEMMA ApprovalsStay ==
  ASSUME ApprovalsAhead, UNCHANGED Judgement, UNCHANGED <<publication, publishedRevision>>,
         Phase' \in {Phase, 6}, state' = "published" => state = "published"
  PROVE  ApprovalsAhead'
<1>1. ReleaseEligible' = ReleaseEligible
  BY EligibilityKept
<1>2. /\ LatestApproved("content")' = LatestApproved("content")
      /\ LatestArtifactSet("prepared_bundle")' = LatestArtifactSet("prepared_bundle")
      /\ PublishedExactly' = PublishedExactly /\ narrationRequired' = narrationRequired
  BY DEF Judgement, LatestApproved, LatestArtifactSet, PublishedExactly
<1>3. CASE Phase' = Phase
  BY <1>1, <1>2, <1>3 DEF ApprovalsAhead
<1>4. CASE Phase' = 6 /\ state' /= "published"
  BY <1>4 DEF ApprovalsAhead
<1>5. state' = "published" => Phase' = 4
  BY PhaseOfPause
<1> QED
  BY <1>3, <1>4, <1>5

\* A stage the job has not reached was not attempted: its first attempt is free.
LEMMA UnreachedIsFresh ==
  ASSUME TypeOK, AttemptsBehind, NEW stage \in Stages, Phase < StageRank[stage]
  PROVE  NextAttempt(stage) = 1
<1>1. currentRevision \in Revisions /\ Len(attempts[stage][currentRevision]) \in Nat
  BY AttemptLogs DEF TypeOK
<1> QED
  BY <1>1, PhaseType, RevisionsAreNaturals DEF AttemptsBehind, NextAttempt

\* The job comes to a stage it has not been at in this revision.
LEMMA Arrives ==
  ASSUME TypeOK, WorkInv, NEW stage \in Stages, Phase < StageRank[stage],
         UNCHANGED currentRevision, SameAttempts, state' = QueuedState(stage), ApprovalsAhead'
  PROVE  WorkInv'
<1>1. AtStage(stage)' /\ Phase' = StageRank[stage]
  BY PhaseOfStage DEF AtStage
<1>2. AttemptsBehind'
  BY <1>1, PhaseType, BehindGoesOn DEF WorkInv, SameAttempts
<1>3. NextAttempt(stage)' <= MaxAttempts[stage]
  BY UnreachedIsFresh, PolicyAssumption DEF WorkInv, NextAttempt, SameAttempts, TypeOK
<1>4. \A other \in Stages : AtStage(other)' => other = stage
  BY DEF AtStage, Stages, QueuedState, RunningState
<1> QED
  BY <1>2, <1>3, <1>4 DEF WorkInv, AttemptsLeft

\* The job comes to a state in which no stage is under way.
LEMMA Pauses ==
  ASSUME TypeOK, WorkInv, UNCHANGED currentRevision, SameAttempts, state' \in PausedStates,
         Phase <= Phase', ApprovalsAhead'
  PROVE  WorkInv'
<1>1. AttemptsBehind'
  BY BehindGoesOn DEF WorkInv, SameAttempts
<1>2. AttemptsLeft'
  BY PhaseOfPause DEF AttemptsLeft
<1> QED
  BY <1>1, <1>2 DEF WorkInv

\* A claim takes the stage the job is at.
LEMMA ClaimGoesOn ==
  ASSUME TypeOK, WorkInv, NEW at, NEW stage \in Stages, NEW rev, NEW n, NEW binding,
         ClaimStage(stage, rev, n, binding, at)
  PROVE  WorkInv'
<1>1. /\ state = QueuedState(stage) /\ state' = RunningState(stage)
      /\ UNCHANGED Judgement /\ UNCHANGED <<publication, publishedRevision>>
  BY DEF ClaimStage, CanClaim, Judgement
<1>2. Phase = StageRank[stage] /\ Phase' = StageRank[stage]
  BY <1>1, PhaseOfStage DEF AtStage
<1>3. /\ \A other \in Stages : AtStage(other)' => other = stage
      /\ state' /= "published"
  BY <1>1 DEF AtStage, Stages, QueuedState, RunningState
<1>4. ASSUME NEW s \in Stages, NEW r \in Revisions
      PROVE  \/ Len(attempts'[s][r]) = Len(attempts[s][r])
             \/ r = currentRevision /\ StageRank[s] = Phase'
  <2>1. PICK attempt : Appends(stage, attempt)
    BY ClaimAppends
  <2> QED
    BY <1>2, <2>1 DEF Appends
<1>5. AttemptsBehind'
  BY <1>1, <1>2, <1>4, PhaseType, BehindGoesOn DEF WorkInv, Judgement
<1>6. ApprovalsAhead'
  BY <1>1, <1>2, <1>3, ApprovalsStay DEF WorkInv
<1> QED
  BY <1>1, <1>3, <1>5, <1>6 DEF WorkInv, AttemptsLeft

\* A failure waits for a retry that the limit allows, or ends the job.
LEMMA FailureGoesOn ==
  ASSUME TypeOK, OneLease, WorkInv, NEW at, NEW id, NEW stage \in Stages, NEW rev \in Revisions,
         NEW n \in 1 .. Len(attempts[stage][rev]), NEW reason, NEW retryable,
         FailStage(id, stage, rev, n, reason, retryable, at)
  PROVE  WorkInv'
<1>1. /\ state = RunningState(stage) /\ rev = currentRevision
      /\ n = Len(attempts[stage][currentRevision])
  BY DEF FailStage, CanFail, HoldsLease, OneLease
<1>2. UNCHANGED Judgement /\ UNCHANGED <<publication, publishedRevision>>
  BY DEF FailStage, Judgement
<1>3. SameAttempts
  <2>1. \E status : CloseAttempt(stage, rev, n, status)
    BY DEF FailStage
  <2>2. \E status : Closes(stage, rev, n, status)
    BY <2>1, CloseAttemptCloses
  <2> QED
    BY <2>2 DEF Closes, SameAttempts
<1>4. AtStage(stage) /\ Phase = StageRank[stage]
  BY <1>1, PhaseOfStage DEF AtStage
<1>5. CASE WillRetry(stage, n, retryable)
  <2>1. state' = "retry_wait" /\ retry'.stage = stage /\ n < MaxAttempts[stage]
    BY <1>5 DEF FailStage, WillRetry
  <2>2. AtStage(stage)' /\ \A other \in Stages : AtStage(other)' => other = stage
    BY <2>1 DEF AtStage, Stages, QueuedState, RunningState
  <2>3. Phase' = Phase
    BY <1>4, <2>2, PhaseOfStage
  <2>4. NextAttempt(stage)' <= MaxAttempts[stage]
    BY <1>1, <1>2, <1>3, <2>1, PolicyAssumption, AttemptLogs
       DEF NextAttempt, Judgement, SameAttempts, TypeOK
  <2>5. AttemptsBehind'
    BY <1>2, <1>3, <2>3, PhaseType, BehindGoesOn DEF WorkInv, Judgement, SameAttempts
  <2>6. ApprovalsAhead'
    BY <1>2, <2>1, <2>3, ApprovalsStay DEF WorkInv
  <2> QED
    BY <2>2, <2>4, <2>5, <2>6 DEF WorkInv, AttemptsLeft
<1>6. CASE ~WillRetry(stage, n, retryable)
  <2>1. state' = "failed"
    BY <1>6 DEF FailStage
  <2>2. Phase' = 6 /\ state' \in PausedStates
    BY <2>1, PhaseOfPause DEF PausedStates, TerminalStates
  <2>3. ApprovalsAhead'
    BY <1>2, <2>1, <2>2, ApprovalsStay DEF WorkInv
  <2> QED
    BY <1>2, <1>3, <2>2, <2>3, PhaseType, Pauses DEF Judgement
<1> QED
  BY <1>5, <1>6

\* The stage that waited is queued again, with the attempt the failure left it.
LEMMA ResumeGoesOn ==
  ASSUME TypeOK, RetryAhead, WorkInv, NEW id, NEW at, ResumeRetry(id, at)
  PROVE  WorkInv'
<1>0. state = "retry_wait" /\ retry.stage \in Stages /\ state' = QueuedState(retry.stage)
  BY DEF ResumeRetry, CanResume, RetryAhead
<1> PICK stage \in Stages : stage = retry.stage
  BY <1>0
<1>1. state = "retry_wait" /\ retry.stage = stage /\ state' = QueuedState(stage)
  BY <1>0
<1>2. UNCHANGED Judgement /\ UNCHANGED <<attempts, publication, publishedRevision>>
  BY DEF ResumeRetry, Judgement
<1>3. AtStage(stage) /\ AtStage(stage)'
  BY <1>1 DEF AtStage
<1>4. Phase' = Phase /\ state' /= "published"
  BY <1>1, <1>3, PhaseOfStage DEF Stages, QueuedState
<1>5. \A other \in Stages : AtStage(other)' => other = stage
  BY <1>1 DEF AtStage, Stages, QueuedState, RunningState
<1>6. NextAttempt(stage)' <= MaxAttempts[stage]
  <2>1. state /= RunningState(stage) /\ state /= "tts_queued"
    BY <1>1 DEF Stages, RunningState
  <2>2. NextAttempt(stage) <= MaxAttempts[stage]
    BY <1>1, <1>3, <2>1 DEF WorkInv, AttemptsLeft
  <2> QED
    BY <1>2, <2>2 DEF NextAttempt, Judgement
<1>7. AttemptsBehind'
  BY <1>2, <1>4, PhaseType, BehindGoesOn DEF WorkInv, Judgement
<1>8. ApprovalsAhead'
  BY <1>2, <1>4, ApprovalsStay DEF WorkInv
<1> QED
  BY <1>1, <1>5, <1>6, <1>7, <1>8 DEF WorkInv, AttemptsLeft

\* A completion closes an attempt, and adds none.
LEMMA CommitKeepsAttempts ==
  ASSUME TypeOK, NEW stage \in Stages, NEW rev \in Revisions,
         NEW n \in 1 .. Len(attempts[stage][rev]), NEW at, Commit(stage, rev, n, at)
  PROVE  SameAttempts
<1>1. Closes(stage, rev, n, "completed")
  BY CloseAttemptCloses DEF Commit
<1> QED
  BY <1>1 DEF Closes, SameAttempts

\* A new revision starts with its review, and no attempt of its own.
LEMMA PreparationGoesOn ==
  ASSUME TypeOK, WorkInv, NEW rev \in Revisions,
         NEW n \in 1 .. Len(attempts["prepare_review"][rev]), NEW ordinal, NEW digest, NEW at,
         CompletePrepare(rev, n, ordinal, digest, at)
  PROVE  WorkInv'
<1>1. /\ currentRevision' = currentRevision + 1 /\ state' = "content_review_required"
      /\ Commit("prepare_review", rev, n, at)
  BY DEF CompletePrepare, CanCompletePrepare
<1>2. SameAttempts
  BY <1>1, CommitKeepsAttempts DEF Stages
<1>3. Phase' = 0 /\ state' \in PausedStates /\ state' /= "published"
  BY <1>1, PhaseOfPause DEF PausedStates, ReviewStates, ReviewTypes, ReviewState
<1>4. AttemptsBehind'
  <2> SUFFICES ASSUME NEW stage \in Stages, NEW r \in Revisions, Len(attempts'[stage][r]) > 0
               PROVE  r <= currentRevision' /\ r # currentRevision'
    BY DEF AttemptsBehind
  <2>1. Len(attempts[stage][r]) > 0
    BY <1>2 DEF SameAttempts
  <2>2. r <= currentRevision
    BY <2>1 DEF WorkInv, AttemptsBehind
  <2>3. r \in Nat /\ currentRevision \in Nat
    BY RevisionsAreNaturals DEF TypeOK
  <2> QED
    BY <1>1, <2>2, <2>3
<1>5. ApprovalsAhead'
  BY <1>3 DEF ApprovalsAhead
<1>6. AttemptsLeft'
  BY <1>3, PhaseOfPause DEF AttemptsLeft
<1> QED
  BY <1>4, <1>5, <1>6 DEF WorkInv

\* A rendering leads to the narration of its revision, or to its publication.
LEMMA RenderingGoesOn ==
  ASSUME TypeOK, OneLease, WorkInv, NEW rev \in Revisions,
         NEW n \in 1 .. Len(attempts["render_approved"][rev]), NEW digest \in Digests, NEW at,
         CompleteRender(rev, n, digest, at)
  PROVE  WorkInv'
<1> DEFINE sets == artifacts["prepared_bundle"][currentRevision]
           added == WithArtifactSet(sets, digest)
<1>1. /\ state = "rendering" /\ Commit("render_approved", rev, n, at)
      /\ LatestApproved("content") /\ CanCompleteRender(rev, n, digest, at)
      /\ UNCHANGED <<narrationRequired, currentRevision, decisions>>
      /\ artifacts' = [artifacts EXCEPT !["prepared_bundle"][currentRevision] = added]
      /\ state' = IF narrationRequired THEN "tts_queued" ELSE "publish_ready"
  BY DEF CompleteRender, CanCompleteRender, CanCommit, RunningState
<1>2. /\ "prepared_bundle" \in Kinds /\ "private_review" \in Kinds /\ currentRevision \in Revisions
      /\ artifacts \in [Kinds -> [Revisions -> Seq(Digests)]]
      /\ {"render_approved", "generate_tts", "publish"} \subseteq Stages
  BY DEF TypeOK, Kinds, Stages
<1>3. SameAttempts /\ Phase = 2
  BY <1>1, <1>2, CommitKeepsAttempts, PhaseOfStage DEF AtStage, RunningState, StageRank
<1>4. added \in Seq(Digests) /\ added /= <<>> /\ Last(added) \in Digests
  <2>1. sets \in Seq(Digests)
    BY <1>2
  <2>2. added \in Seq(Digests) /\ added /= <<>>
    BY <2>1, WithArtifactSetType DEF WithArtifactSet
  <2> QED
    BY <2>2 DEF Last
<1>5. /\ artifacts'["prepared_bundle"][currentRevision] = added
      /\ artifacts'["private_review"][currentRevision] = artifacts["private_review"][currentRevision]
  BY <1>1, <1>2
<1>6. LatestApproved("content")' /\ LatestArtifactSet("prepared_bundle")' = Last(added)
  BY <1>1, <1>4, <1>5 DEF LatestApproved, LatestArtifactSet, ReviewedKind
<1>7. Last(added) /= None
  BY <1>4, ConstantsAssumption
<1>8. CASE narrationRequired
  <2>1. state' = QueuedState("generate_tts")
    BY <1>1, <1>8 DEF QueuedState
  <2>2. Phase' = 3
    BY <1>2, <2>1, PhaseOfStage DEF AtStage, StageRank
  <2>3. ApprovalsAhead'
    BY <1>1, <1>6, <1>7, <1>8, <2>1, <2>2 DEF ApprovalsAhead, QueuedState
  <2> QED
    BY <1>1, <1>2, <1>3, <2>1, <2>3, Arrives DEF StageRank
<1>9. CASE ~narrationRequired
  <2>1. state' = QueuedState("publish")
    BY <1>1, <1>9 DEF QueuedState
  <2>2. Phase' = 4
    BY <1>2, <2>1, PhaseOfStage DEF AtStage, StageRank
  <2>3. Last(added) = Last(decisions["content"][currentRevision]).digest
    BY <1>1, <1>9 DEF CanCompleteRender
  <2>4. ReleaseEligible'
    BY <1>1, <1>6, <1>7, <1>9, <2>3 DEF ReleaseEligible, ReleaseDigest
  <2>5. ApprovalsAhead'
    BY <2>1, <2>2, <2>4 DEF ApprovalsAhead, QueuedState
  <2> QED
    BY <1>1, <1>2, <1>3, <2>1, <2>5, Arrives DEF StageRank
<1> QED
  BY <1>8, <1>9

\* A narration is reviewed, while the content it was made from stays approved.
LEMMA NarrationGoesOn ==
  ASSUME TypeOK, OneLease, WorkInv, NEW rev \in Revisions,
         NEW n \in 1 .. Len(attempts["generate_tts"][rev]), NEW digest, NEW at,
         CompleteNarration(rev, n, digest, at)
  PROVE  WorkInv'
<1>1. /\ state = "tts_generating" /\ Commit("generate_tts", rev, n, at)
      /\ UNCHANGED <<narrationRequired, currentRevision, decisions>>
      /\ artifacts' = [artifacts EXCEPT !["narration_review"][currentRevision] =
                         WithArtifactSet(@, digest)]
      /\ state' = "narration_review_required"
  BY DEF CompleteNarration, CanCompleteNarration, CanCommit, RunningState
<1>2. "generate_tts" \in Stages
  BY DEF Stages
<1>3. SameAttempts /\ Phase = 3
  BY <1>1, <1>2, CommitKeepsAttempts, PhaseOfStage DEF AtStage, RunningState, StageRank
<1>4. Phase' = 3 /\ state' \in PausedStates
  BY <1>1, PhaseOfPause DEF PausedStates, ReviewStates, ReviewTypes, ReviewState
<1>5. \A kind \in {"private_review", "prepared_bundle"} :
        artifacts'[kind][currentRevision] = artifacts[kind][currentRevision]
  BY <1>1 DEF TypeOK, Kinds
<1>6. /\ LatestApproved("content")' = LatestApproved("content")
      /\ LatestArtifactSet("prepared_bundle")' = LatestArtifactSet("prepared_bundle")
  BY <1>1, <1>5 DEF LatestApproved, LatestArtifactSet, ReviewedKind
<1>7. ApprovalsAhead'
  BY <1>1, <1>3, <1>4, <1>6 DEF WorkInv, ApprovalsAhead
<1> QED
  BY <1>1, <1>3, <1>4, <1>7, Pauses

\* A publication and a delivery rest on approvals that stay.
LEMMA ReleaseStagesGoOn ==
  ASSUME TypeOK, OneLease, WorkInv, NEW rev \in Revisions, NEW n, NEW receipt \in Receipts, NEW at
  PROVE  /\ n \in 1 .. Len(attempts["publish"][rev]) /\ CompletePublish(rev, n, receipt, at)
              => WorkInv'
         /\ n \in 1 .. Len(attempts["deliver"][rev]) /\ CompleteDeliver(rev, n, receipt, at)
              => WorkInv'
<1>0. "publish" \in Stages /\ "deliver" \in Stages
  BY DEF Stages
<1>1. ASSUME n \in 1 .. Len(attempts["publish"][rev]), CompletePublish(rev, n, receipt, at)
      PROVE  WorkInv'
  <2>1. /\ state = "publishing" /\ Commit("publish", rev, n, at) /\ ReleaseEligible
        /\ UNCHANGED Judgement /\ state' = "published"
        /\ publishedRevision' = currentRevision /\ publication'.rev = currentRevision
        /\ publication' = [rev |-> receipt.rev, digest |-> receipt.digest,
                           key |-> KeyOf("publish", rev, n), receipt |-> receipt.id]
    BY <1>1 DEF CompletePublish, CanCompletePublish, CanCommit, RunningState, Judgement
  <2>2. SameAttempts /\ Phase = 4
    BY <1>0, <1>1, <2>1, CommitKeepsAttempts, PhaseOfStage DEF AtStage, RunningState, StageRank
  <2>3. Phase' = 4 /\ state' \in PausedStates
    BY <2>1, PhaseOfPause DEF PausedStates
  <2>4. ReleaseEligible'
    BY <2>1, EligibilityKept
  <2>5. publication' /= None
    <3>1. attempts["publish"][rev][n] \in Attempt
      BY <1>0, <1>1, AttemptLogs
    <3>2. KeyOf("publish", rev, n) \in Keys
      BY <1>0, <3>1 DEF KeyOf, Keys, Attempt
    <3>3. publication' \in Publication
      BY <1>1, <3>2 DEF CompletePublish, Publication, Receipts
    <3> QED
      BY <3>3, PublicationAssumption
  <2>6. ApprovalsAhead'
    BY <2>1, <2>3, <2>4, <2>5 DEF ApprovalsAhead, PublishedExactly, Judgement
  <2> QED
    BY <2>1, <2>2, <2>3, <2>6, Pauses DEF Judgement
<1>2. ASSUME n \in 1 .. Len(attempts["deliver"][rev]), CompleteDeliver(rev, n, receipt, at)
      PROVE  WorkInv'
  <2>1. /\ state = "sending" /\ Commit("deliver", rev, n, at) /\ state' = "sent"
        /\ UNCHANGED Judgement /\ UNCHANGED <<publication, publishedRevision>>
    BY <1>2 DEF CompleteDeliver, CanCompleteDeliver, CanCommit, RunningState, Judgement
  <2>2. SameAttempts /\ Phase = 5
    BY <1>0, <1>2, <2>1, CommitKeepsAttempts, PhaseOfStage DEF AtStage, RunningState, StageRank
  <2>3. Phase' = 5 /\ state' \in PausedStates
    BY <2>1, PhaseOfPause DEF PausedStates
  <2>4. ApprovalsAhead'
    BY <2>1, <2>2, <2>3, ApprovalsStay DEF WorkInv
  <2> QED
    BY <2>1, <2>2, <2>3, <2>4, Pauses DEF Judgement
<1> QED
  BY <1>1, <1>2

\* A review sends the revision on, back, or ends the job.
LEMMA ReviewGoesOn ==
  ASSUME TypeOK, WorkInv, NEW call, NEW type \in ReviewTypes, NEW rev, NEW outcome \in Outcomes,
         NEW digest \in Digests, NEW at, RecordReviewDecision(call, type, rev, outcome, digest, at)
  PROVE  WorkInv'
<1> DEFINE log == decisions[type][currentRevision]
           decision == [outcome |-> outcome, digest |-> digest]
<1>1. /\ rev = currentRevision /\ state = ReviewState(type)
      /\ digest = LatestArtifactSet(ReviewedKind(type))
      /\ decisions' = [decisions EXCEPT ![type][currentRevision] = Append(log, decision)]
      /\ state' = StateAfterReview(type, outcome)
      /\ UNCHANGED <<narrationRequired, currentRevision, publishedRevision, publication,
                     artifacts, attempts>>
  BY DEF RecordReviewDecision, CanDecide
<1>2. /\ decisions \in [ReviewTypes -> [Revisions -> Seq(Decision)]]
      /\ currentRevision \in Revisions /\ log \in Seq(Decision) /\ digest /= None
      /\ {"prepare_review", "render_approved", "generate_tts", "publish"} \subseteq Stages
  BY ConstantsAssumption DEF TypeOK, Stages
<1>3. /\ decisions'[type][currentRevision] = Append(log, decision)
      /\ \A other \in ReviewTypes \ {type} : decisions'[other] = decisions[other]
  BY <1>1, <1>2
<1>4. /\ decisions'[type][currentRevision] /= <<>>
      /\ Last(decisions'[type][currentRevision]) = decision
  <2>1. decision \in Decision
    BY DEF Decision
  <2> HIDE DEF log, decision
  <2>2. Append(log, decision) /= <<>> /\ Last(Append(log, decision)) = decision
    <3>0. log \in Seq(Decision)
      BY <1>2
    <3>1. Len(Append(log, decision)) = Len(log) + 1 /\ Len(log) \in Nat
      BY <3>0, <2>1
    <3>2. Append(log, decision)[Len(log) + 1] = decision
      BY <3>0, <2>1
    <3>3. Append(log, decision) /= <<>>
      BY <3>1
    <3> QED
      BY <3>1, <3>2, <3>3 DEF Last
  <2> QED
    BY <1>3, <2>2
<1>5. /\ \A kind : LatestArtifactSet(kind)' = LatestArtifactSet(kind)
      /\ outcome = "approved" => LatestApproved(type)'
  <2>1. \A kind : LatestArtifactSet(kind)' = LatestArtifactSet(kind)
    BY <1>1 DEF LatestArtifactSet
  <2> QED
    BY <1>1, <1>4, <2>1 DEF LatestApproved
<1>6. SameAttempts
  BY <1>1 DEF SameAttempts
<1>7. CASE outcome = "rejected"
  <2>1. state' = "rejected"
    BY <1>1, <1>7 DEF StateAfterReview
  <2>2. Phase' = 6 /\ state' \in PausedStates
    BY <2>1, PhaseOfPause DEF PausedStates, TerminalStates
  <2>3. ApprovalsAhead'
    BY <2>1, <2>2 DEF ApprovalsAhead
  <2> QED
    BY <1>1, <1>6, <2>2, <2>3, PhaseType, Pauses
<1>8. CASE type = "content" /\ outcome /= "rejected"
  <2>1. Phase = 0
    BY <1>1, <1>8, PhaseOfPause DEF ReviewState
  <2>2. CASE outcome = "request_changes"
    <3>1. state' = QueuedState("prepare_review")
      BY <1>1, <1>8, <2>2 DEF StateAfterReview
    <3>2. Phase' = 1
      BY <1>2, <3>1, PhaseOfStage DEF AtStage, StageRank
    <3>3. ApprovalsAhead'
      BY <3>1, <3>2 DEF ApprovalsAhead, QueuedState
    <3> QED
      BY <1>1, <1>2, <1>6, <2>1, <3>1, <3>3, Arrives DEF StageRank
  <2>3. CASE outcome = "approved"
    <3>1. state' = QueuedState("render_approved")
      BY <1>1, <1>8, <2>3 DEF StateAfterReview
    <3>2. Phase' = 2
      BY <1>2, <3>1, PhaseOfStage DEF AtStage, StageRank
    <3>3. ApprovalsAhead'
      BY <1>5, <1>8, <2>3, <3>1, <3>2 DEF ApprovalsAhead, QueuedState
    <3> QED
      BY <1>1, <1>2, <1>6, <2>1, <3>1, <3>3, Arrives DEF StageRank
  <2> QED
    BY <1>8, <2>2, <2>3 DEF Outcomes
<1>9. CASE type = "narration" /\ outcome /= "rejected"
  <2>1. Phase = 3 /\ LatestApproved("content") /\ narrationRequired
        /\ LatestArtifactSet("prepared_bundle") /= None
    BY <1>1, <1>9, PhaseOfPause DEF ReviewState, WorkInv, ApprovalsAhead
  <2>2. LatestApproved("content")'
    <3>1. decisions'["content"] = decisions["content"]
      BY <1>3, <1>9 DEF ReviewTypes
    <3> QED
      BY <1>1, <1>5, <2>1, <3>1 DEF LatestApproved
  <2>3. CASE outcome = "request_changes"
    <3>1. state' = QueuedState("generate_tts") /\ state' = "tts_queued"
      BY <1>1, <1>9, <2>3 DEF StateAfterReview, QueuedState
    <3>2. Phase' = 3
      BY <1>2, <3>1, PhaseOfStage DEF AtStage, StageRank
    <3>3. AttemptsBehind'
      BY <1>1, <1>6, <2>1, <3>2, BehindGoesOn DEF WorkInv, SameAttempts
    <3>4. ApprovalsAhead'
      BY <1>1, <1>5, <2>1, <2>2, <3>1, <3>2 DEF ApprovalsAhead
    <3>5. ReworkAsked'
      BY <1>1, <1>4, <1>9, <2>3 DEF ReworkAsked
    <3>6. \A other \in Stages : AtStage(other)' => other = "generate_tts"
      BY <3>1 DEF AtStage, Stages, QueuedState, RunningState
    <3> QED
      BY <3>1, <3>3, <3>4, <3>5, <3>6 DEF WorkInv, AttemptsLeft
  <2>4. CASE outcome = "approved"
    <3>1. state' = QueuedState("publish")
      BY <1>1, <1>9, <2>4 DEF StateAfterReview
    <3>2. Phase' = 4
      BY <1>2, <3>1, PhaseOfStage DEF AtStage, StageRank
    <3>3. ReleaseEligible'
      BY <1>1, <1>2, <1>5, <1>9, <2>1, <2>2, <2>4
         DEF ReleaseEligible, ReleaseDigest, ReviewedKind
    <3>4. ApprovalsAhead'
      BY <3>1, <3>2, <3>3 DEF ApprovalsAhead, QueuedState
    <3> QED
      BY <1>1, <1>2, <1>6, <2>1, <3>1, <3>4, Arrives DEF StageRank
  <2> QED
    BY <1>9, <2>3, <2>4 DEF Outcomes
<1> QED
  BY <1>7, <1>8, <1>9 DEF ReviewTypes

\* The order, its payment, and what follows the publication of an approved revision.
LEMMA OrderGoesOn ==
  ASSUME TypeOK, WorkInv, NEW at
  PROVE  /\ \A narrated : CreateJob(narrated, at) => WorkInv'
         /\ \A call, correlation : RecordPayment(call, correlation, at) => WorkInv'
         /\ \A call : QueueDelivery(call, at) => WorkInv'
<1>0. "prepare_review" \in Stages /\ "deliver" \in Stages
  BY DEF Stages
<1>1. ASSUME NEW narrated, CreateJob(narrated, at)
      PROVE  WorkInv'
  <2>1. /\ state = "absent" /\ state' = "awaiting_payment" /\ UNCHANGED currentRevision
        /\ SameAttempts
    BY <1>1 DEF CreateJob, SameAttempts
  <2>2. Phase = 0 /\ Phase' = 0 /\ state' \in PausedStates
    BY <2>1, PhaseOfPause DEF PausedStates
  <2>3. ApprovalsAhead'
    BY <2>1, <2>2 DEF ApprovalsAhead
  <2> QED
    BY <2>1, <2>2, <2>3, Pauses
<1>2. ASSUME NEW call, NEW correlation, RecordPayment(call, correlation, at)
      PROVE  WorkInv'
  <2>1. /\ state = "awaiting_payment" /\ state' = QueuedState("prepare_review")
        /\ UNCHANGED currentRevision /\ SameAttempts
    BY <1>2 DEF RecordPayment, SameAttempts, QueuedState
  <2>2. Phase = 0 /\ Phase' = 1
    BY <1>0, <2>1, PhaseOfPause, PhaseOfStage DEF AtStage, StageRank
  <2>3. ApprovalsAhead'
    BY <2>1, <2>2 DEF ApprovalsAhead, QueuedState
  <2> QED
    BY <1>0, <2>1, <2>2, <2>3, Arrives DEF StageRank
<1>3. ASSUME NEW call, QueueDelivery(call, at)
      PROVE  WorkInv'
  <2>1. /\ state = "published" /\ state' = QueuedState("deliver") /\ ReleaseEligible
        /\ UNCHANGED currentRevision /\ SameAttempts
        /\ UNCHANGED Judgement /\ UNCHANGED <<publication, publishedRevision>>
    BY <1>3 DEF QueueDelivery, SameAttempts, QueuedState, Judgement
  <2>2. Phase = 4 /\ Phase' = 5
    BY <1>0, <2>1, PhaseOfPause, PhaseOfStage DEF AtStage, StageRank
  <2>3. PublishedExactly
    BY <2>1 DEF WorkInv, ApprovalsAhead
  <2>4. ReleaseEligible' /\ PublishedExactly'
    BY <2>1, <2>3, EligibilityKept DEF PublishedExactly
  <2>5. ApprovalsAhead'
    BY <2>2, <2>4 DEF ApprovalsAhead
  <2> QED
    BY <1>0, <2>1, <2>2, <2>5, Arrives DEF StageRank
<1> QED
  BY <1>1, <1>2, <1>3

\* What a provider reports of a delivery ends the job, or leaves it sent.
LEMMA SettlementGoesOn ==
  ASSUME TypeOK, WorkInv, NEW call, NEW message, NEW at
  PROVE  /\ ConfirmDelivery(call, message, at) => WorkInv'
         /\ \A outcome : ReconcileDelivery(call, message, outcome, at) => WorkInv'
<1>1. ASSUME state = "sent", state' \in {"sent", "complete"}, UNCHANGED Judgement,
             UNCHANGED <<attempts, publication, publishedRevision>>
      PROVE  WorkInv'
  <2>1. Phase = 5 /\ Phase' = 5 /\ state' \in PausedStates /\ state' /= "published"
    BY <1>1, PhaseOfPause DEF PausedStates, TerminalStates
  <2>2. ApprovalsAhead'
    BY <1>1, <2>1, ApprovalsStay DEF WorkInv
  <2>3. SameAttempts /\ UNCHANGED currentRevision
    BY <1>1 DEF SameAttempts, Judgement
  <2> QED
    BY <2>1, <2>2, <2>3, Pauses
<1>2. ASSUME ConfirmDelivery(call, message, at)
      PROVE  WorkInv'
  BY <1>1, <1>2 DEF ConfirmDelivery, CanSettleDelivery, MarkDelivered, Judgement
<1>3. ASSUME NEW outcome, ReconcileDelivery(call, message, outcome, at)
      PROVE  WorkInv'
  BY <1>1, <1>3 DEF ReconcileDelivery, CanSettleDelivery, MarkDelivered, Judgement
<1> QED
  BY <1>2, <1>3

\* No command of a worker or of a caller leaves work stuck.
LEMMA CommandsGoOn ==
  ASSUME TypeOK, OneLease, RetryAhead, WorkInv, NEW at \in Times,
         WorkerCommand(at) \/ CallerCommand(at)
  PROVE  WorkInv'
<1>0. /\ \A stage \in Stages, rev \in Revisions :
           DOMAIN attempts[stage][rev] = 1 .. Len(attempts[stage][rev])
      /\ {"prepare_review", "render_approved", "generate_tts", "publish", "deliver"} = Stages
  BY AttemptLogs DEF Stages
<1>1. ASSUME NEW stage \in Stages, NEW binding,
             ClaimStage(stage, currentRevision, NextAttempt(stage), binding, at)
      PROVE  WorkInv'
  BY <1>1, ClaimGoesOn
<1>2. ASSUME NEW rev \in Revisions, NEW n \in DOMAIN attempts["prepare_review"][rev],
             NEW ordinal, NEW digest, CompletePrepare(rev, n, ordinal, digest, at)
      PROVE  WorkInv'
  BY <1>0, <1>2, PreparationGoesOn
<1>3. ASSUME NEW rev \in Revisions, NEW n \in DOMAIN attempts["render_approved"][rev],
             NEW digest \in Digests, CompleteRender(rev, n, digest, at)
      PROVE  WorkInv'
  BY <1>0, <1>3, RenderingGoesOn
<1>4. ASSUME NEW rev \in Revisions, NEW n \in DOMAIN attempts["generate_tts"][rev],
             NEW digest, CompleteNarration(rev, n, digest, at)
      PROVE  WorkInv'
  BY <1>0, <1>4, NarrationGoesOn
<1>5. ASSUME NEW rev \in Revisions, NEW receipt \in Receipts, NEW n,
             \/ n \in DOMAIN attempts["publish"][rev] /\ CompletePublish(rev, n, receipt, at)
             \/ n \in DOMAIN attempts["deliver"][rev] /\ CompleteDeliver(rev, n, receipt, at)
      PROVE  WorkInv'
  BY <1>0, <1>5, ReleaseStagesGoOn
<1>6. ASSUME NEW stage \in Stages, NEW rev \in Revisions, NEW n \in DOMAIN attempts[stage][rev],
             NEW id, NEW reason, NEW retryable,
             FailStage(id, stage, rev, n, reason, retryable, at)
      PROVE  WorkInv'
  BY <1>0, <1>6, FailureGoesOn
<1>7. ASSUME ResumeRetry(ResumeId(retry), at)
      PROVE  WorkInv'
  BY <1>7, ResumeGoesOn
<1>8. ASSUME WorkerCommand(at)
      PROVE  WorkInv'
  BY <1>1, <1>2, <1>3, <1>4, <1>5, <1>6, <1>7, <1>8 DEF WorkerCommand
<1>9. ASSUME CallerCommand(at)
      PROVE  WorkInv'
  BY <1>9, OrderGoesOn, SettlementGoesOn, ReviewGoesOn DEF CallerCommand
<1> QED
  BY <1>8, <1>9

\* A job starts with nothing attempted, and every step leaves its work a way on.
LEMMA WorkInductive ==
  /\ JobInit => WorkInv
  /\ IInv /\ WorkInv /\ [JobNext]_jobVars => WorkInv'
<1>1. ASSUME JobInit
      PROVE  WorkInv
  <2>1. \A stage \in Stages, rev \in Revisions : Len(attempts[stage][rev]) = 0
    BY <1>1 DEF JobInit
  <2>2. state = "absent" /\ Phase = 0
    BY <1>1, PhaseOfPause DEF JobInit
  <2>3. \A stage \in Stages : ~AtStage(stage)
    BY <2>2 DEF AtStage, Stages, QueuedState, RunningState
  <2> QED
    BY <2>1, <2>2, <2>3 DEF WorkInv, AttemptsBehind, ApprovalsAhead, AttemptsLeft
<1>2. ASSUME IInv, WorkInv, [JobNext]_jobVars
      PROVE  WorkInv'
  <2>1. CASE JobNext
    BY <1>2, <2>1, CommandsGoOn DEF JobNext, IInv
  <2>2. CASE UNCHANGED jobVars
    BY <1>2, <2>2 DEF jobVars, WorkInv, AttemptsBehind, ApprovalsAhead, AttemptsLeft, Phase,
         AtStage, NextAttempt, ReworkAsked, ReleaseEligible, ReleaseDigest, LatestApproved,
         LatestArtifactSet, PublishedExactly
  <2> QED
    BY <1>2, <2>1, <2>2
<1> QED
  BY <1>1, <1>2

\* Work never waits in vain (claimStage, completeStage and failStage of the job
\* machine): whatever the order of commands, failures, expired leases and reviews,
\* a stage that is queued or waits for its retry passes the checks of a claim and
\* has an attempt left, but for a narration reviewers sent back too often, and what
\* a rendering or narration works on is still approved when it ends.
THEOREM WorkNeverStuck == JobSpec => []WorkCanGoOn
<1>1. TypeOK /\ WorkInv => WorkCanGoOn
  <2> SUFFICES ASSUME TypeOK, WorkInv, NEW stage \in Stages, AtStage(stage)
               PROVE  /\ ClaimEligible(stage)
                      /\ stage \in {"render_approved", "generate_tts"} => LatestApproved("content")
    BY DEF WorkCanGoOn, WorkInv, AttemptsLeft
  <2>1. Phase = StageRank[stage]
    BY PhaseOfStage
  <2> QED
    BY <2>1 DEF Stages, StageRank, ClaimEligible, WorkInv, ApprovalsAhead
<1> QED
  BY <1>1, WorkInductive, Inductive, PTL DEF JobSpec, IInv

-----------------------------------------------------------------------------
(* The record of a release                                                  *)

\* What is published is not published again: the job is past its publication.
RecordedIsPast == publication /= None => PastPublication \/ state = "failed"

\* A step that keeps or moves on the release keeps its record behind it.
LEMMA PastStaysPast ==
  ASSUME RecordedIsPast, UNCHANGED publication, PastPublication => PastPublication' \/ state' = "failed",
         state /= "failed"
  PROVE  RecordedIsPast'
BY DEF RecordedIsPast

\* A claim, a failure or a retry of a stage past the publication stays past it,
\* and one of an earlier stage has no record to keep.
LEMMA AttemptsKeepRecord ==
  ASSUME TypeOK, OneLease, RetryAhead, RecordedIsPast, NEW at, NEW stage \in Stages
  PROVE  /\ \A rev, n, binding : ClaimStage(stage, rev, n, binding, at) => RecordedIsPast'
         /\ \A rev \in Revisions : \A n \in 1 .. Len(attempts[stage][rev]) :
              \A id, reason, retryable :
                FailStage(id, stage, rev, n, reason, retryable, at) => RecordedIsPast'
         /\ \A id : retry.stage = stage /\ ResumeRetry(id, at) => RecordedIsPast'
<1>1. ASSUME NEW rev, NEW n, NEW binding, ClaimStage(stage, rev, n, binding, at)
      PROVE  RecordedIsPast'
  <2>1. state = QueuedState(stage) /\ state' = RunningState(stage) /\ UNCHANGED publication
    BY <1>1 DEF ClaimStage, CanClaim
  <2> QED
    BY <2>1, PastStaysPast DEF PastPublication, Stages, QueuedState, RunningState
<1>2. ASSUME NEW rev \in Revisions, NEW n \in 1 .. Len(attempts[stage][rev]), NEW id, NEW reason,
             NEW retryable, FailStage(id, stage, rev, n, reason, retryable, at)
      PROVE  RecordedIsPast'
  <2>1. state = RunningState(stage) /\ UNCHANGED publication
    BY <1>2 DEF FailStage, CanFail, HoldsLease, OneLease
  <2>2. state' = "failed" \/ (state' = "retry_wait" /\ retry'.stage = stage)
    BY <1>2 DEF FailStage
  <2> QED
    BY <2>1, <2>2, PastStaysPast DEF PastPublication, Stages, RunningState
<1>3. ASSUME NEW id, retry.stage = stage, ResumeRetry(id, at)
      PROVE  RecordedIsPast'
  <2>1. state = "retry_wait" /\ state' = QueuedState(stage) /\ UNCHANGED publication
    BY <1>3 DEF ResumeRetry, CanResume
  <2> QED
    BY <1>3, <2>1, PastStaysPast DEF PastPublication, Stages, QueuedState
<1> QED
  BY <1>1, <1>2, <1>3

\* A step that adds to neither record keeps both.
LEMMA UntouchedIsKept ==
  ASSUME TypeOK, state \notin TerminalStates, UNCHANGED <<publication, deliveries>>
  PROVE  ReleaseRecordStands
<1> SUFFICES ASSUME NEW i \in DOMAIN deliveries
             PROVE  deliveries[i] = [deliveries[i] EXCEPT !.status = deliveries[i].status,
                                                          !.outcome = deliveries[i].outcome]
  BY DEF ReleaseRecordStands
<1>1. deliveries[i] \in Delivery
  BY DEF TypeOK
<1> QED
  BY <1>1 DEF Delivery

\* Only a status report touches a recorded delivery, and only to say how it fared.
LEMMA SettlingKeeps ==
  ASSUME TypeOK, RecordedIsPast, NEW call, NEW message, NEW at
  PROVE  /\ ConfirmDelivery(call, message, at) => ReleaseRecordStands /\ RecordedIsPast'
         /\ \A outcome \in DeliveryOutcomes :
              ReconcileDelivery(call, message, outcome, at) => ReleaseRecordStands /\ RecordedIsPast'
<1>1. ASSUME state = "sent", state' \in {"sent", "complete"}, UNCHANGED publication,
             NEW status, NEW outcome,
             \/ deliveries' = [deliveries EXCEPT ![Len(deliveries)].status = status,
                                                 ![Len(deliveries)].outcome = outcome]
             \/ deliveries' = [deliveries EXCEPT ![Len(deliveries)].outcome = outcome]
      PROVE  ReleaseRecordStands /\ RecordedIsPast'
  <2>1. RecordedIsPast'
    BY <1>1, PastStaysPast DEF PastPublication
  <2>2. ASSUME NEW i \in DOMAIN deliveries
        PROVE  deliveries'[i] = [deliveries[i] EXCEPT !.status = deliveries'[i].status,
                                                      !.outcome = deliveries'[i].outcome]
    <3>1. deliveries[i] \in Delivery /\ deliveries \in Seq(Delivery) /\ i \in 1 .. Len(deliveries)
      BY DEF TypeOK
    <3>2. \/ deliveries'[i] = deliveries[i]
          \/ deliveries'[i] = [deliveries[i] EXCEPT !.status = status, !.outcome = outcome]
          \/ deliveries'[i] = [deliveries[i] EXCEPT !.outcome = outcome]
      BY <1>1, <3>1
    <3> QED
      BY <3>1, <3>2 DEF Delivery
  <2> QED
    BY <1>1, <2>1, <2>2 DEF ReleaseRecordStands, TerminalStates
<1>2. ASSUME ConfirmDelivery(call, message, at)
      PROVE  ReleaseRecordStands /\ RecordedIsPast'
  BY <1>1, <1>2 DEF ConfirmDelivery, CanSettleDelivery, MarkDelivered
<1>3. ASSUME NEW outcome, ReconcileDelivery(call, message, outcome, at)
      PROVE  ReleaseRecordStands /\ RecordedIsPast'
  BY <1>1, <1>3 DEF ReconcileDelivery, CanSettleDelivery, MarkDelivered
<1> QED
  BY <1>2, <1>3

\* A worker's command finds the job under way, and records a release once.
LEMMA WorkerKeepsRecord ==
  ASSUME TypeOK, OneLease, RetryAhead, ReleaseInv, RecordedIsPast, NEW at \in Times,
         WorkerCommand(at)
  PROVE  ReleaseRecordStands /\ RecordedIsPast'
<1>0. /\ \A stage \in Stages, rev \in Revisions :
           DOMAIN attempts[stage][rev] = 1 .. Len(attempts[stage][rev])
      /\ \A stage \in Stages : {QueuedState(stage), RunningState(stage)} \cap TerminalStates = {}
  BY AttemptLogs DEF Stages, QueuedState, RunningState, TerminalStates
<1>1. ASSUME NEW stage \in Stages, NEW binding,
             ClaimStage(stage, currentRevision, NextAttempt(stage), binding, at)
      PROVE  ReleaseRecordStands /\ RecordedIsPast'
  BY <1>0, <1>1, AttemptsKeepRecord, UntouchedIsKept DEF ClaimStage, CanClaim
<1>2. ASSUME NEW rev, NEW n, NEW digest,
             \/ \E ordinal : CompletePrepare(rev, n, ordinal, digest, at)
             \/ CompleteRender(rev, n, digest, at)
             \/ CompleteNarration(rev, n, digest, at)
      PROVE  ReleaseRecordStands /\ RecordedIsPast'
  <2>1. /\ state \in {"generating", "rendering", "tts_generating"}
        /\ UNCHANGED <<publication, deliveries>>
    BY <1>2 DEF CompletePrepare, CanCompletePrepare, CompleteRender, CanCompleteRender,
                CompleteNarration, CanCompleteNarration, CanCommit, RunningState
  <2> QED
    BY <2>1, UntouchedIsKept, PastStaysPast DEF PastPublication, TerminalStates
<1>3. ASSUME NEW rev, NEW n, NEW receipt, CompletePublish(rev, n, receipt, at)
      PROVE  ReleaseRecordStands /\ RecordedIsPast'
  <2>1. state = "publishing" /\ state' = "published" /\ UNCHANGED deliveries
    BY <1>3 DEF CompletePublish, CanCompletePublish, CanCommit, RunningState
  <2>2. publication = None /\ deliveries = <<>>
    BY <2>1 DEF RecordedIsPast, PastPublication, ReleaseInv, DeliveryRecord
  <2> QED
    BY <2>1, <2>2 DEF ReleaseRecordStands, TerminalStates, RecordedIsPast, PastPublication
<1>4. ASSUME NEW rev, NEW n, NEW receipt, CompleteDeliver(rev, n, receipt, at)
      PROVE  ReleaseRecordStands /\ RecordedIsPast'
  <2>1. state = "sending" /\ state' = "sent" /\ UNCHANGED publication
    BY <1>4 DEF CompleteDeliver, CanCompleteDeliver, CanCommit, RunningState
  <2>2. deliveries = <<>>
    BY <2>1 DEF ReleaseInv, DeliveryRecord
  <2> QED
    BY <2>1, <2>2, PastStaysPast DEF ReleaseRecordStands, TerminalStates, PastPublication
<1>5. ASSUME NEW stage \in Stages, NEW rev \in Revisions, NEW n \in DOMAIN attempts[stage][rev],
             NEW id, NEW reason, NEW retryable,
             FailStage(id, stage, rev, n, reason, retryable, at)
      PROVE  ReleaseRecordStands /\ RecordedIsPast'
  <2>1. state = RunningState(stage) /\ UNCHANGED <<publication, deliveries>>
    BY <1>0, <1>5 DEF FailStage, CanFail, HoldsLease, OneLease
  <2> QED
    BY <1>0, <1>5, <2>1, AttemptsKeepRecord, UntouchedIsKept
<1>6. ASSUME ResumeRetry(ResumeId(retry), at)
      PROVE  ReleaseRecordStands /\ RecordedIsPast'
  <2>1. state = "retry_wait" /\ retry.stage \in Stages /\ UNCHANGED <<publication, deliveries>>
    BY <1>6 DEF ResumeRetry, CanResume, RetryAhead
  <2> QED
    BY <1>6, <2>1, AttemptsKeepRecord, UntouchedIsKept DEF TerminalStates
<1> QED
  BY <1>1, <1>2, <1>3, <1>4, <1>5, <1>6 DEF WorkerCommand

\* So does a caller's command.
LEMMA CallerKeepsRecord ==
  ASSUME TypeOK, RecordedIsPast, NEW at, CallerCommand(at)
  PROVE  ReleaseRecordStands /\ RecordedIsPast'
<1>1. ASSUME state \in {"absent", "awaiting_payment"} \cup ReviewStates,
             UNCHANGED <<publication, deliveries>>
      PROVE  ReleaseRecordStands /\ RecordedIsPast'
  BY <1>1, UntouchedIsKept, PastStaysPast
     DEF ReviewStates, ReviewState, ReviewTypes, PastPublication, TerminalStates
<1>2. ASSUME NEW call, QueueDelivery(call, at)
      PROVE  ReleaseRecordStands /\ RecordedIsPast'
  BY <1>2, UntouchedIsKept, PastStaysPast DEF QueueDelivery, PastPublication, TerminalStates
<1>3. ASSUME NEW narrated, CreateJob(narrated, at)
      PROVE  ReleaseRecordStands /\ RecordedIsPast'
  BY <1>1, <1>3 DEF CreateJob
<1>4. ASSUME NEW call, NEW correlation, RecordPayment(call, correlation, at)
      PROVE  ReleaseRecordStands /\ RecordedIsPast'
  BY <1>1, <1>4 DEF RecordPayment
<1>5. ASSUME NEW call, NEW type \in ReviewTypes, NEW rev, NEW outcome, NEW digest,
             RecordReviewDecision(call, type, rev, outcome, digest, at)
      PROVE  ReleaseRecordStands /\ RecordedIsPast'
  BY <1>1, <1>5 DEF RecordReviewDecision, CanDecide, ReviewStates
<1> QED
  BY <1>2, <1>3, <1>4, <1>5, SettlingKeeps DEF CallerCommand

\* The record of a release stands (completeStage, failStage and
\* reconcileDelivery): no later command, from whichever worker or provider,
\* replaces a publication or a sent message, or changes a job that has ended.
THEOREM RecordIsFinal == JobSpec => RecordsStand
<1>1. JobInit => RecordedIsPast
  BY DEF JobInit, RecordedIsPast
<1>2. IInv /\ ReleaseInv /\ RecordedIsPast /\ [JobNext]_jobVars => RecordedIsPast'
  <2>1. ASSUME IInv, ReleaseInv, RecordedIsPast, JobNext
        PROVE  RecordedIsPast'
    BY <2>1, WorkerKeepsRecord, CallerKeepsRecord DEF JobNext, IInv
  <2> QED
    BY <2>1 DEF jobVars, RecordedIsPast, PastPublication
<1>3. IInv /\ ReleaseInv /\ RecordedIsPast /\ [JobNext]_jobVars => [ReleaseRecordStands]_jobVars
  BY WorkerKeepsRecord, CallerKeepsRecord DEF JobNext, IInv
<1>4. [][AttemptsStand]_jobVars /\ [][ReleaseRecordStands]_jobVars => RecordsStand
  <2>1. [AttemptsStand]_jobVars /\ [ReleaseRecordStands]_jobVars => [AttemptsStand /\ ReleaseRecordStands]_jobVars
    OBVIOUS
  <2> QED
    BY <2>1, PTL DEF RecordsStand
<1> QED
  BY <1>1, <1>2, <1>3, <1>4, Inductive, ReleaseInOrder, ClosedAttemptsFinal, PTL
     DEF JobSpec
=============================================================================

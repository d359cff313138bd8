# BebeBonjour fulfillment: a TLA+ verification project

BebeBonjour sells personalised birth-announcement pages. One order is one
*fulfillment job*: intake, payment, generation, human review of the content,
rendering, optional narration with a review of its own, publication of the page,
delivery of a message to the customer. Workers, reviewers, payment events and
providers act on a job at their own pace, and each may crash, time out or repeat
itself. These modules say what must hold all the same, and check it.

Contents: [the system](#the-system) · [the modules](#the-modules) ·
[the runs](#the-runs) · [fairness](#fairness) · [what is proved](#what-is-proved) ·
[where the code departs from its design](#where-the-code-departs-from-its-design) ·
[what is not modelled](#what-is-not-modelled) · [the plan](#the-plan) · [running it](#running-it)

## The system

Paths are relative to `src/` of the checkout, so `src/fulfillment/` is
`src/src/fulfillment/` from the root of this development.

| Component | Code | State it keeps | Operations |
|---|---|---|---|
| Job machine | `src/fulfillment/job-machine.mjs` | the job: state, payment, revisions, artifact sets, review decisions, stage attempts, retry, publication, delivery attempts, processed commands, version, `updatedAt` | create, payment, claim, complete (one per stage), fail, resume, review decision, queue/confirm/reconcile delivery |
| Local fulfillment store | `src/persistence/local-test-fulfillment-store.mjs` | one JSON file, a lock file | each command: lock, read, apply the transition, rename the new file into place |
| Fulfillment orchestrator | `src/fulfillment/job-orchestrator.mjs` | nothing between calls; a `runNext` in progress holds what it read | `runNext`, and the callers' commands with fresh timestamps |
| External-effect handlers | `src/fulfillment/external-effect-stage-handlers.mjs` | nothing | prepare delivery, publish, deliver, reconcile delivery; normalise what providers answer |
| Providers (external) | adapters passed to the handlers | publications, messages, the customer's target | publish/send under an idempotency key, reconcile, status, resolve target |
| Local command handlers, generation workspace | `src/fulfillment/local-command-stage-handlers.mjs`, `local-generation-workspace.mjs` | the files of each job and revision | reuse, run a CLI command, collect artifact sets, clean up after a failure |
| Operator CLI | `bin/announce.mjs`, `scripts/lib/commands.mjs` | a job's directory: job, dossier, approvals, renders, audio, releases | compose, prepare-review, approve-review, render, tts, approve-narration, deploy, send, status |
| Name resolution | `scripts/lib/name-resolution.mjs` | nothing | decide the spelling of a name from evidence |
| Customer flow | `src/customer-flow/*.mjs` | records of intakes, checkouts in flight | submit intake, create checkout, record payment, status |
| Hosted ingress and runs | `supabase/migrations/*.sql`, `src/webhooks`, `src/http`, `src/persistence/supabase-*.mjs` | orders, evidence, webhook log, generation runs | ingest Tally and Stripe events, reconcile an order, claim/complete/fail a preview run |
| Page runtime | `template/runtime` | playback of the published page | browser only |

How they meet: a caller or worker calls the orchestrator; the orchestrator reads
the job, calls a handler (which calls a provider or a CLI command) and issues
commands to the store; the store applies one job-machine transition under its
lock. No component calls back. Everything shared goes through the store, the
providers, or (local handlers, CLI) a job's directory.

What is hard: several workers on one job with only leases to separate them; a
worker that comes back after its lease ran out; effects done with the answer
lost; crashes between claim and completion; retries that must ask for exactly
the same thing under the same key; targets that change between attempts;
approvals that must still stand, for the very bytes, when something is made
public; timestamps read before the lock; command ids that must never collide.

What makes each component correct:

- *Job machine*: one lease at a time; a closed attempt is final; a job is
  released only as its standing approvals say; what is queued can be claimed; what
  is published, sent or over stays so; keys repeat on retries and only
  there; ids derived by workers are new; commands count once.
- *Orchestrator with handlers*: at most one publication and one message, to one
  target, with content the reviewers approved; the job's record is what the
  providers hold; every step is one store command; work settles.
- *Generation workspace*: the files of an accepted set stay what was listed, and
  a rendering that crashed is done again, and whole.
- *CLI*: what goes live was reviewed and signed, its claims about a name have a
  source, and no command spoils a root that could be deployed.
- *Name resolution*: a name is resolved exactly if every script it is given in
  stands for one and the same entry.
- *Customer flow*: a customer with a token has a job; every session a customer was
  sent to is the one the job is bound to; whoever asks gets a checkout, whoever
  pays is paid, and neither is taken back.
- *Page runtime*: the page follows the track that is heard, its button tells the
  truth, narration left alone ends.
- *Hosted ingress and runs*: an order stands as its evidence says, whatever the
  order of the webhooks; it has one live run at most, and only for the intake and
  payment it has now; a fenced worker completes nothing; an eligible order is served.

PROJECT.json lists the hazards with their lines and the properties aimed at it.

## The modules

| Module | Models | Uses |
|---|---|---|
| `JobLifecycle` | job machine + store, one job | – |
| `Orchestrator` | orchestrator + effect handlers + callers + providers | extends `JobLifecycle` |
| `ReleaseContract` | the abstract promise to the outside | implemented by `Orchestrator` |
| `GenerationRuns` | webhook ingestion, reconciliation and generation runs in SQL | – |
| `CustomerFlow` | intake, checkout, payment events, public status | – |
| `StageWorkspace` | the local command handlers on the files of one stage | – |
| `NameResolution` | the decision on a name, and composing a draft from it | – |
| `ApprovalCli` | the operator's commands, from intake to deployment | extends `NameResolution` |
| `PageRuntime` | narration on the published page, in the browser | – |
| `JobLifecycleProofs`, `JobReleaseProofs` | theorems about `JobLifecycle` | extend it, the second by the first |
| `OrchestratorProofs` | theorems about `Orchestrator` and its two refinements | extends `Orchestrator`, `JobReleaseProofs` |
| `GenerationRunsProofs`, `CustomerFlowProofs`, `ApprovalCliProofs`, `StageWorkspaceProofs`, `PageRuntimeProofs` | theorems about the module named | extend theirs |
| `MCJobLifecycle`, `MCOrchestrator`, `MCGenerationRuns`, `MCCustomerFlow`, `MCStageWorkspace`, `MCApprovalCli`, `MCPageRuntime` | instances for TLC | extend theirs |

**JobLifecycle.** A variable per field of the job aggregate. One action per
transition function, with its guards in one `Can…` operator: `ClaimStage`,
`CompletePrepare` / `…Render` / `…Narration` / `…Publish` / `…Deliver`,
`FailStage`, `ResumeRetry`, `CreateJob`, `RecordPayment`,
`RecordReviewDecision`, `QueueDelivery`, `ConfirmDelivery`,
`ReconcileDelivery`. `Fresh` and `Accept` are `withCommand`: a replayed id or a
stamp older than the job is no new command. The store applies a transition to
the file it read under its lock and replaces the file by a rename, so a command
is one atomic step and a throwing transition a stuttering one.
`JobNext` lets clients send any command, with any payload, stamped with any
instant. Some arguments say what a client *believed*: a claim's id carries the
revision and number the worker read, a completion its token, a decision its
digest and revision.

Abstractions: the digests of an artifact set are one value (all three are
compared together); the reference and digest of a delivery target are one value;
a lease token is the identity of the attempt it was minted for (tokens are
random UUIDs); a revision is its ordinal; message ids and receipts are values.
A replayed command with a *different* payload is refused by the code and changes
nothing, like a replay, so payload digests are not kept.

**Orchestrator.** A worker is a program counter with the context `runNext`
holds. Its steps end where `runNext` awaits:

    idle -PollExpired-> expiring -Expire-> idle
    idle -PollRetry->   resuming -Resume-> preparing | claiming | idle
    idle -PollQueued->  preparing -PrepareDelivery-> claiming -Claim-> handling | reconciling
                        preparing -NoTarget-> idle
    handling -Produce-> committing            (artifact stages)
    reconciling -Reconcile-> committing | resolving | acting
    resolving -Resolve-> acting -Act-> committing
    committing -CommitStage-> idle | failing -FailAttempt-> idle
    any handler step -HandlerThrows-> failing

Timestamps are taken when the code takes them, before the store's lock
(`context.at`), and the lease is compared with the clock after the handler
returned (`Returned`, `Failing`). The target of a first delivery is resolved before
the claim and outside the `try` (`job-orchestrator.mjs:146-151`): a resolver that
refuses makes `runNext` reject with nothing claimed (`NoTarget`). A completion may fail for reasons outside the
job (the lock cannot be had), hence the second disjunct of `CommitStage`.
The callers of the other commands appear in `Caller`, with stamps up to `MaxLag`
old; `ReadStatus`/`RecordStatus` are `reconcileDelivery`, which reads the
provider and records later. The environment is `MailMoves`, `Retarget`, `Tick`,
`Delay` and `Crash`. Providers are external and modelled as the handlers need
them: one effect per idempotency key; a repeated key is answered with the first
receipt; `reconcile` answers what is held. Nothing stops a provider from doing
the effect and losing the answer.

**ReleaseContract.** Four variables: the content approved for release, what is
public, what was announced, and whether the job is done. No keys, leases or
workers. `Orchestrator` maps to it: approval is the release digest while the
approvals are in order, public and announced are the *sets* of what the providers
hold with their receipts, so a duplicate would show.

**GenerationRuns.** A variable per table: `seen` (webhook_events), `payments`,
`orders` (by submission, which is unique) and `cycles`, a review job and its run
as one record, oldest first. One SQL function is one action: `IngestTally` (with
its four branches), `IngestStripe`, `RecordRejected`, `Reconcile`, `ClaimNext`,
`CompleteRun`, `FailRun`, and `AnswerTooLate` for the branches the last two share.
Reconciliation is `ReconcileAs`, part of every ingestion, over `Verdict`,
`ClosedBy` and `DueCycle`. A worker is no more than the tokens it was given: any
token may be presented at any time, again and late, which covers any number of
workers, their crashes and their repeated calls. A token is named by its attempt;
leases lapse by `LeaseExpires`. Operators (external) edit an intake, reconcile
later, and complete the review of a preview, as the database test does.

Abstractions: the facts of a payment are whether they are the expected ones; the
three material digests are one value; `answer` stands for the artifact record or
reason code and says whose it is. Functions are atomic: each locks the payment
before the order and the order before the run, and reads what it decides on
after it has the lock. A claim joins review jobs without locking them, which is
harmless since a job is closed only together with its live run. Rows that others
have locked are skipped by a claim, so a claim may sweep or lease fewer runs.

**CustomerFlow.** A variable per map of the in-memory store, `pending` for
`pendingCheckouts`, and a program counter per request in flight; a step ends
where `service.mjs` awaits. `SubmitNew`/`SubmitAgain`/`CreateCanonical` are
`submitIntake`, `AskCheckout`/`JoinCheckout`/`OpenSession`/`BindSession` are
`createCheckout` with its `finally` (`EndOperation`), and
`Receive`/`RecordCanonical`/`UpdatePayment`/`StoreEvent`/`Refuse` are
`recordPaymentSucceeded`. The orchestrator may be absent (`configured`). Calls that
leave the process may fail before or after they took effect. External: the
gateway keeps a session per key and may let a key lapse; the payment provider
reports a payment, redelivers, and an adapter may garble one; the canonical job
moves on past its payment. A replayed `recordPayment` carries a new `recordedAt`
and is refused unless both calls fall on one instant (`Replays`).

**StageWorkspace.** One stage of one revision: `disk` gives each file the version
of its bytes, `manifest` the persisted listing. A worker looks (`Look`, `Persist`,
`ReadDigests` are `collectArtifactSet`), else runs its command (`StartCommand`, one
`WriteFile` per file in the order the command writes them), looks again and
returns; a failing command cleans up (`CleanUp`, directory and manifest in either
order). `Accepts` is what each command asks of its output directory: nothing
there or all of it (`prepare-review`), nothing (`tts`), anything (`render`). The job is
reduced to lease, attempts, retries and the accepted sets. `overruns` counts leases
that run out under a living worker, `mishaps` says what went wrong on the way.

**NameResolution.** `resolveName` as operators over a catalog of model values;
spellings that normalise alike are one value. `Compose` is `commandCompose` with the
claims a page makes of a name (`Draft`). `ResolvesWhenAllAgree` is the reference it
is compared with.

**ApprovalCli.** The files of the output roots, what the host serves, and the one
command that runs (`op`), a step per thing it writes. A digest is modelled by the
value it is taken of, an HMAC signature by membership in `signed`. Every check a
command makes of earlier files is an operator (`Compatible`, `Reviewable`,
`ApprovalHolds`, `Hearable`, `Narrated`, `Deployable`). Around the commands: a `Crash`
between two writes, an `Upgrade` of template or catalog, a root that is removed
(`Discard`), a file changed by hand (`Edit`). A root without `job.json` and one whose
job was never approved are refused alike, so both have `NoJob`. Files are not edited while `prepare-review`
or `deploy` runs: these two read again what they checked, without a snapshot.

**PageRuntime.** One thread of tasks. A handler is an operator from the page to
the page, up to its first await; what follows an await is `Continue` (a play that
settled, before any other task) or `LoadTimings`. The media element is external
and follows the HTML standard: a new `src` rejects pending plays and drops queued
events, `play()` is refused until the visitor has touched the page. The ambient
file is never there: no command writes it; its relative URL is never the end of the
resolved `src`, so `ensureAmbientSource` sets it anew on each call. `Press` and `Click` are the two halves of
a tap. With `preload="none"` a source fails only once it is played.

## The runs

All bounds are constants of the `.cfg` files. `Times` bounds the instants;
`MaxRevision` the revisions; `CommandIds` the ids of callers' commands. Every
lease and backoff is 1 tick: the order of instants is what matters, and Tick
interleaves with every step. Deadlock is not checked in the runs of jobs that
end: `rejected`, `failed` and `complete` are final and the clock is bounded.

| Run | Instance | Asks |
|---|---|---|
| `lifecycle` | 2 digests, 2 revisions, 3 attempts of narration and delivery, 2 of publication, with and without narration | any sequence of accepted commands keeps `TypeOK`, `OneLease`, `ApprovalOutlivesRelease`, `ReleasedAsApproved`, `OneKeyPerEffect`, `CommandsApplyOnce`, `RecordsStand`; `WorkCanGoOn`: queued or retried work can always be claimed (95 thousand states) |
| `orchestrator` | 2 workers, 1 poller, 2 targets, 2 digests, 2 attempts of narration, publication and delivery. `Scope` splits it: a narrated job up to the hand-off, with a rework and a retried publication or a delivery, and a job without narration up to its end, with a fault and a changing target | `OneEffectPerStage`, `OneTarget`, `RecordsMatchProvider`, `KeyAsksTheSame`, `EffectsAreApproved`, and the refinement `KeepsContract` (540 thousand states) |
| `settles` | 2 workers, one fault, stamps up to 1 tick old, foreign payment correlations, `FairSpec` | `IssuesStoreCommands`: the orchestrator implements `JobSpec`, so every invariant of `lifecycle` holds of it too (status polls are in `orchestrator` only); `WorkSettles`: work comes to a review, a hand-off or an end, unless the delivery target is refused without end (140 thousand states) |
| `runs` | 2 submissions over 2 payments, 7 webhooks, 2 intakes of two customers, 2 edits, 2 materials, `SweepLimit` 1 | any interleaving of webhooks, edits and workers keeps `StatusFollowsEvidence`, `OneLiveRun`, `WorkIsPaid`, `ReadyIsEligible`, `AnswerOfLastLease`, `RunsMoveForward` (1.1 million states) |
| `served` | the same webhooks, 3 intakes, 1 edit, 1 material, `FairSpec` | `EligibleIsServed`: an eligible order comes to a finished run for its intake (240 thousand states) |
| `customer` | 1 job, 2 checkout requests, 2 deliveries, 2 sessions, 2 events of 2 payments, 1 fault, `FairSpec` | `TokensHaveJobs`, `ToldSessionIsBound`, `OneSessionPerKey`, `AcceptedIsPaid`, `PromisesStand`; `AskingGetsCheckout`, `PaymentArrives` (191 thousand states) |
| `workspace` | 2 workers, 3 attempts, each kind of output, 1 rework, 2 faults, 1 overrun, `FairSpec` | `AcceptedStaysInLease`; `CrashIsRetried`: a rendering that was interrupted is accepted in the end, and whole, but for a crash between its transcript and the rest (490 thousand states) |
| `approval` | 2 templates, 2 catalogs, 2 approvals, 1 take, 2 faults | `LiveIsReviewed`, `SignedClaimsAreSourced`, `PreparedSurvives`; `NamesResolve` over every catalog of up to 2 entries with 2 names in each script (1.9 million states) |
| `page` | 2 languages, 2 sections, sites with audio in both, one or no language, 4 inputs, 1 track that fails to load, `FairSpec` | `HeardIsCurrent`, `ButtonTellsTruth`, `NarrationEnds`, `RetryEnds` (930 thousand states) |
| `returned_intake`, `partial_reuse`, `page_off` | violations, see below | |

Why the bounds are enough. Two workers give every race on one lease: a third
could only repeat one of their parts, since the store orders commands and only
one attempt runs. Two revisions cover a rework and the approvals of an older
revision; three attempts cover failure, expiry, retry and a rework of the same
stage; two digests and two targets are what equality needs to tell apart; one
fault is a crash or a delay at any point of any worker, with expiries and lost
answers on top, which are not counted as faults. For hosted orders, two
submissions and two payments give every pairing the ingestion tells apart, three
Stripe events a payment that regresses and recovers, two attempts are the code's
limit, and two edits are an intake that changes and returns. For a customer, two
requests of each kind race, the second session takes a lapsed key, and one fault
falls on any call. For files, an overrun lease or two faults give every overlap of
two writers; the properties except an overrun where the code relies on leases. For
the operator, two approvals tell a stale one from the standing one and two faults
a change followed by a change back or a crash. For the page, four inputs are two
taps, and a language, scroll or system pause between them. Each property has a mutation of
a modelled definition, listed in PROJECT.json, under which its run reports it
violated: the operators with a suffix (`CanCommit_AnyToken`, `PriorBinding_Ignored`, …)
are those mutations, used by no specification.

## Fairness

`settles` assumes weak fairness of `RunNext(w)` for each worker and of `Tick`.
That is: whoever runs workers calls `runNext` again and again (the code leaves
scheduling to its embedder, and a worker that is never called does no work),
the promises it awaits settle, one way or the other, the store's lock is had for
a claim, an expiry or a resumption (a completion may miss it), and the clock goes
on while a lease or a backoff runs. Providers may refuse what they like: an
attempt that throws is used up. The one call that may throw without using up an
attempt is the first resolution of the delivery target (`NoTarget`). Nothing is
assumed of the resolver, so `WorkSettles` names the exception: either work
settles, or the target is refused infinitely often (`TargetRefusedForEver`).
Without that disjunct TLC finds the job in `delivery_queued` and a worker going
round between polling and being refused. Nothing is assumed of reviewers, payers,
pollers, providers' mail or crashes; `WorkSettles` says nothing of the states where the job waits for
them. `HasBudget` leaves out the state where a reviewer's
requests have used up the attempts of the queued stage (see below).

`served` assumes weak fairness of `ClaimNext` (workers poll, with the material
of the run; a run pinned to material no worker has waits), of a lease lapsing
(time goes on), and of the reconciliation that follows an operator's edit.
Nothing is assumed of webhooks, answers or reviews. With two edits the property
fails, which is finding `returned_intake`.

`customer` assumes that promises settle (weak fairness of each request under way),
that customers keep asking and that the provider redelivers an event that was not
accepted (strong fairness, since a delivery needs a free handler). Nothing is
assumed of submissions, of paying, or of what a call's answer is.

`workspace` assumes that a worker goes on with what it began, that workers poll,
and that leases run out; nothing of crashes, failures and reviewers.
`CrashIsRetried` asks that the accepted bundle be *whole*, job snapshot included.
Its exceptions are a command that failed (the job may fail with it), an overrun
lease, and a worker that died with page and transcript written and the rest not
(`"torn"` in `mishaps`): there the retry does accept an incomplete bundle, the
gap that `partial_reuse` shows for `prepare-review`.

`page` assumes of the browser's event loop that it does not stop while something
is queued: `FairSpec` is weak fairness of `Browser`, spelled out as
`[]<>~Busy \/ []<><<Browser>>_vars` because `Busy` is when `Browser` can move. A track
that plays ends, a fetch is answered, a finger that is down is lifted. A fetch here
includes the probe of the tracks' durations: `loadNarrationTimings` waits for
`loadedmetadata` or `error` of a detached audio element per track, without a timeout
(`app.js:124-150`), so a probe that never settles would keep narration from
starting, and `NarrationEnds` and `RetryEnds` assume that each does. Nothing is
assumed of the visitor otherwise, nor of the system's pauses.

## What is proved

Every safety invariant and every action property of a passing run is a theorem, for
every value of the constants: any number of workers, callers, revisions, attempts,
orders, requests, sessions, events, files, templates, catalogs, languages, tracks and
faults, and every retry policy. So are the two refinements. Each component has one
inductive invariant; the properties follow from it. TLC checked each of these
invariants on the component's constants before it was proved.

| Module | Theorem | States |
|---|---|---|
| `JobLifecycleProofs` | `TypeCorrect`, `LeaseExclusive`, `CommandsCountOnce`, `NextIdsFresh` | `JobSpec => []` of `TypeOK`, `OneLease`, `CommandsApplyOnce`, `NextCommandIsNew` |
| | `ClosedAttemptsFinal` | `JobSpec => [][AttemptsStand]_jobVars`, a part of `RecordsStand` |
| `JobReleaseProofs` | `ReleaseInOrder` | `JobSpec => []ReleaseInv` |
| | `ApprovalsStand`, `RecordsAreApproved`, `EffectsShareAKey` | `JobSpec => []` of `ApprovalOutlivesRelease`, `ReleasedAsApproved`, `OneKeyPerEffect` |
| | `WorkNeverStuck`, `RecordIsFinal` | `JobSpec => []WorkCanGoOn`, `JobSpec => RecordsStand` |
| `OrchestratorProofs` | `SystemInvariant` | `Spec => []SystemInv` |
| | `StoreCommandsOnly` | `Spec => IssuesStoreCommands`, the refinement of `JobSpec` |
| | `JobStaysGood` | `Spec =>` what was proved of `JobSpec`: the job's invariants and action properties hold of the running system |
| | `ProvidersHoldApproved`, `EffectsHappenOnce`, `TargetIsKept`, `RecordsAreHeld`, `SameKeySameRequest` | `Spec => []` of `EffectsAreApproved`, `OneEffectPerStage`, `OneTarget`, `RecordsMatchProvider`, `KeyAsksTheSame` |
| | `ImplementsContract` | `Spec => KeepsContract`, the refinement of `ReleaseContract` |
| `GenerationRunsProofs` | `RunsInvariant` | `Spec => []IInv` |
| | `RunsTyped`, `OneRunIsLive`, `StatusIsEvidence`, `LiveWorkIsPaid`, `AnswersAreFenced` | `Spec => []` of `TypeOK`, `OneLiveRun`, `StatusFollowsEvidence`, `WorkIsPaid`, `AnswerOfLastLease` |
| | `RunsAreEvidence`, `PreviewsAreEligible` | `Spec =>` `RunsMoveForward`, `ReadyIsEligible` |
| `CustomerFlowProofs` | `FlowInvariant` | `Spec => []FlowInv` |
| | `TokensAreGood`, `SessionsAreBound`, `SessionsArePaidFor`, `PaymentsAreKept` | `Spec => []` of `TokensHaveJobs`, `ToldSessionIsBound`, `OneSessionPerKey`, `AcceptedIsPaid` |
| | `WaitersAreServed`, `PromisesAreKept` | `Spec => []JoinedIsUnderWay`, `Spec => PromisesStand` |
| `ApprovalCliProofs` | `NamesAgree`, `EveryNameDoesResolve` | `ResolvesWhenAllAgree` for every finite catalog and intake; `Spec => []NamesResolve` |
| | `CommandsInvariant` | `Spec => []CliInv` |
| | `ServedIsReviewed`, `ClaimsAreSourced` | `Spec => []` of `LiveIsReviewed`, `SignedClaimsAreSourced` |
| | `PreparedRootsSurvive` | `Spec => PreparedSurvives` |
| `StageWorkspaceProofs` | `WorkspaceInvariant`, `AcceptedFilesStay` | `Spec => []IInv`, `Spec => []AcceptedStaysInLease` |
| `PageRuntimeProofs` | `PageInvariant` | `Spec => []GoodPage` |
| | `HeardTrackIsCurrent`, `ButtonIsTrue` | `Spec => []` of `HeardIsCurrent`, `ButtonTellsTruth` |

### Assumptions

They are named in the modules that declare the constants, and TLC evaluates them on
every instance. Instants, ids and bounds are naturals, leases and attempt limits
positive, backoffs sequences of positive naturals. `None` is the null of the code and
so is none of the values it stands in for: no digest, target, message or publication, no request, no waiting
retry or decision, no row of a table, no stored job, no listing of files, no track.
`awaiting_payment` is not one of the states a canonical job has once it is paid. The
entries of a catalog and the languages of a site are finite in number.

The theorems of `OrchestratorProofs` also assume `Times = Nat`. `Times` only bounds the
instants for TLC: the code's clock has no last instant, and at a bound a worker could
not stamp the command it is about to give.

### The invariants, and why they are needed

**Job machine.** `IInv` is `TypeOK`, `OneLease` and four facts that make
them inductive:

- `DeliveriesBound`: a delivery attempt is bound to a target. Without it a
  completed one could record a delivery to null, outside the types.
- `CommandLog`: the log of accepted ids is finite and as long as the version.
- `IdsAreUsed`: a claim id in the log is of an attempt that exists; a
  completion, failure or expiry id is of an attempt that is over; a resume id
  is not later than the job's stamp.
- `RetryAhead`: a waiting retry lies after the job's stamp. Backoffs are positive;
  with the previous fact it makes the next resume id new.

The argument goes by shapes: every worker command appends one attempt
(`Appends`), closes the one that holds the lease (`Closes`) or resumes; every
caller command leaves the attempts alone (`WorkerSteps`, `CallerSteps`). Each
part of the invariant is then shown once per shape, not once per command.

**Releases.** None of the three release invariants is inductive: a reviewer's decision
or a new artifact set could invalidate an approval unless the state says no such
command is accepted any more. `ReleaseInv` says that a job with work is paid (`Paid`);
that wherever an attempt to publish or deliver exists, the job is in its release, the
attempt is of the current revision, which is still eligible, and under its stage's
first operation (`PublishAttempts`, `DeliverAttempts`); and that what is recorded was
attempted and is what the reviewer released (`PublicationRecord`, `DeliveryRecord`).

**Work.** `WorkCanGoOn` says that in a queued state, or one with a retry waiting, the next
claim is one the job accepts: the approvals, sets and targets it asks for are there, and an
attempt is left. A claim asks more than what led to the state did, so `WorkInv` says how
far a job has come: `Phase` ranks its state along the stages of a revision, `AttemptsBehind`
says that nothing ahead of the phase was attempted, so that a stage newly reached has its
first attempt still before it, `ApprovalsAhead` that what each phase works on stays
approved, and `AttemptsLeft` that a stage queued or to be retried is below
its limit. The one exception is a narration sent back as often as the limit; the property
names it, and both the proof and the run show that there is no other.

**Records.** `RecordsStand` needs that a job with a publication on record is past its
publication (`RecordedIsPast`); then no completion that would write another is accepted.

**Orchestrator.** `SystemInv` is the two invariants above, which hold of the system since
it refines `JobSpec`, with `WorldInv`:

- `WorkersInHand`: what a worker remembers of the job it read was true then, and what
  can have changed since only changed in ways its next command is checked for. A
  worker past its claim holds an attempt that exists, of the operation and target it
  claimed; a result it is about to commit is an effect that a provider holds.
- `OneBinding`: all delivery attempts of a revision name one target.
- `EffectsInOrder`: each effect is held under the first key of its stage and is of what
  is released; this is where the release invariants are used, since a worker may act
  after its lease.
- `SentIsRecorded`: a job that was sent has a delivery on record.
- `StatusesRead`: a status read as delivered and not yet recorded is true of its message.
- `RecordsMatchProvider`: the job's records against the providers'.

`StoreCommandsOnly` shows that every step is a command of `JobSpec` or leaves the job
alone: it is where the command ids that workers derive, and the stamps of callers that
lag, matter. `ImplementsContract` maps each step: a change of what is approved for
release to `Judge`, the first act of `publish` to `Publish`, the first of `deliver` to
`Announce`, the completion to `Finish`, and all else to stutters.

**Generation runs.** `IInv` adds to the checked invariants that no two orders hold one
payment (`OneHolder`), that a payment which is held exists and has its customer's e-mail
(`HeldPayment`), and `RunsEntitled`: a live run belongs to an order that is eligible *if its input is still
that of the run*. It is not enough to say so of runs with the current input: an operator
may edit an intake away and back. Steps are described by what they do to a cycle
(`Advances`, `CyclesAdvance`, `Reconciled`).

**Customer flow.** Each request in flight contributes what it knows (`CheckoutInHand`,
`DeliveryInHand`); this stays true because nothing that a request can have read is ever
taken back (`Grows`: jobs keep their intake and bound session, tokens their job, payments
stay recorded); `PromisesStand` is what this means to the customer. `KeysHeld` counts
sessions against faults. `JoinedIsUnderWay` is the safety half of `AskingGetsCheckout`:
with it, a request that waits is let go by the operation it waits for.

**Approval CLI.** A command trusts earlier files only through what was signed, so the
invariant speaks of every record ever signed (`SignedInv`), of the few files that are
trusted without a signature (`FilesInv`) and of what the running command holds between
two writes (`CommandInv`). `DeployableIsReviewed` is the heart: whatever passes
`assertApprovedPreparedRevision` is what was signed. `RootsInv` adds, for
`PreparedSurvives`, that a deployment records into the job it read and that an approval is
written only where none is.

**Stage workspace.** As long as no lease was overrun, one worker at a time writes
(`OneWriter`), what it has listed is there (`Collected`), an accepted set has its page and
transcript and is in place and no worker writes over it (`KeptInPlace`), and review and publication
follow an accepted set (`AcceptedFirst`).

**Page.** `GoodPage` is a predicate of pages, so that it can be shown for every handler on
the way through the calls it makes. `Element` ties the pending plays, queued events and
settled plays to the state of the media element; `Hears` says that a playable track is
the current one as soon as what settled is handled; `Tells`, that the narration flag is
what is heard, or that an event which sets it is queued.

### Only model-checked

Liveness, which is beyond this prover: `WorkSettles`, `EligibleIsServed`,
`AskingGetsCheckout`, `PaymentArrives`, `CrashIsRetried`, `NarrationEnds`, `RetryEnds`.
So are the three violations.

## Where the code departs from its design

The design is `openspec/changes/fulfillment-orchestration-contract/design.md`.

1. `returned_intake`: a worker's late answer cancels the cycle of a run whose
   intake changed. If the intake is then edited back, reconciliation sees an order
   that was eligible before and whose newest run has this very input, and opens
   no cycle (`20260804120000_…sql:222-224`): a paid order without work, for good.
   `LIVE_SETUP.md:101-102` promises a fresh cycle for a later eligible state.
2. `partial_reuse`: an output counts as finished as soon as its page and transcript
   exist (`local-generation-workspace.mjs:142`). A worker that dies in
   `prepare-review` after these two leaves a private review without its language
   pages (`commands.mjs:628-642`) and dossier, which the retry accepts. Rendering has
   the same gap, before its language pages and `job.json` (`commands.mjs:723`): it is
   the exception that `CrashIsRetried` names. The design lists the dossier among its
   contents (151), and the handlers' test speaks of reusing complete artifacts
   (`generation-stage-workspace.test.mjs:115`).
3. `page_off`: `setNarration` goes by its argument after it awaited the timings
   (`app.js:793`): switched off in between, narration starts all the same, under a
   button that says "Narration Off".

Seen while modelling, with no run of their own:

- A delivery target that cannot be resolved, or is refused by `assertDeliveryTarget`,
  makes `runNext` reject before it claims (`external-effect-stage-handlers.mjs:16-20`):
  no attempt is used and no failure recorded, so the job stays in `delivery_queued`
  for as long as that lasts, without a limit on the tries.
- `AcceptedStaysInLease` is limited to leases that were not overrun because the code is:
  without that premise TLC finds a worker whose lease ran out and whose command, still
  writing or cleaning up, changes the files after its successor's set was accepted.
- The attempt limit counts completed attempts of the revision
  (`job-machine.mjs:112`), so a reviewer who sends narration back as often as the
  limit leaves the job in `tts_queued` with nothing left to claim. The design
  calls such a request "not a retry" (213-214). `WorkCanGoOn` excepts this state.
- A stage's backoff is first looked at when an attempt fails (`job-machine.mjs:204`);
  the design says missing values "fail before work starts" (200-201).
- An artifact set seen before is not appended (`job-machine.mjs:576`), and the latest
  is the last appended: narration that yields an older output again leaves the
  rejected one under review. With the local handlers it cannot but do so: the files
  of the previous output are still there and are collected once more
  (`local-command-stage-handlers.mjs:55`), where the design asks for new media
  bytes (182).
- A submission with an order of its own that claims another order's payment has
  its own order blocked and the other left eligible (`20260802201000_…sql:81`),
  against the comment at the head of that file.
- A worker that dies in `prepare-review` before page and transcript exist, or in `tts`,
  leaves a directory its retry's command refuses, and the job fails.
- A payment event redelivered after the canonical job recorded it and before the
  store did is refused, since `recordedAt` differs (`service.mjs:152`); the customer's
  status is paid all the same (`PaymentArrives`), the event is never stored.
- `approve-review` compares the template with the previewed one before it computes
  the projection it signs (`commands.mjs:238`, `:317`); an upgrade in between signs a
  template nobody previewed. `LiveIsReviewed` therefore speaks of the signed bundle.
- Rendering again into a narrated root overwrites its transcript and then refuses;
  a root rendered again keeps its deployment URL; `approve-narration` that dies after
  rendering leaves a root that is deployable without its narration.
- Status polls recorded out of order may take `lastOutcome` back to pending; a retry
  after an approval shows the customer a pending review; a run whose material no
  worker has waits; a rejected event's id counts as a duplicate when it is resent.
- A language switched between `play()` and its `play` event, or to one without audio,
  leaves the old one heard; a tap on "Narration On (Tap)" starts narration at
  pointerdown and stops it at click.

## What is not modelled

File format, canonical digests and JSON schemas; the text of errors; HTTP,
signatures and configuration; page rendering; listing and reading jobs. Of the CLI:
`send` and `status`, which change no file another command reads, paths, symbolic
links, `--dry-run` and narration of some languages only. Of the page: phrases, scrolling,
the URL and its history, the private review mode. Validators, rendering and the
webhook handlers are functions of one input without state. Transactions of the
ingestions are atomic; their lock order is in the plan. PROJECT.json gives the
reason for each component.

The runs check a type invariant of `JobLifecycle` only, and spend their other
properties on behaviour; the types of the other modules are part of their inductive
invariants.

## The plan

Done: every module above with its runs, and theorems for every safety and action
property of the runs. Left, in order of what it would add:

1. Invariants that the proofs found and that a reader would want to see checked by a
   run of their own (`RunsEntitled`, `KeptInPlace`, `JoinedIsUnderWay`).
2. `IngressTransactions`: the statements of two ingestions with their row locks
   (Tally's conflict branch holds the order while it waits for the payment).
3. Helpful steps towards liveness, as `WorkCanGoOn` is for `WorkSettles` and
   `JoinedIsUnderWay` for `AskingGetsCheckout`: the like for `CrashIsRetried` and the page.

## Running it

    tlc -workers 2 -config lifecycle.cfg MCJobLifecycle.tla
    tlc -workers 2 -config orchestrator.cfg MCOrchestrator.tla     # settles likewise
    tlc -workers 2 -config runs.cfg MCGenerationRuns.tla           # served, returned_intake likewise
    tlc -workers 2 -config customer.cfg MCCustomerFlow.tla
    tlc -workers 2 -config workspace.cfg MCStageWorkspace.tla      # partial_reuse likewise
    tlc -workers 2 -config approval.cfg MCApprovalCli.tla
    tlc -workers 2 -config page.cfg MCPageRuntime.tla              # page_off likewise
    tlapm JobLifecycleProofs.tla           # and each other *Proofs.tla

Each passing run takes about a minute or less on two cores. Each
module of proofs takes between half a minute and a few minutes from nothing.

--------------------------- MODULE GenerationRuns ---------------------------
(***************************************************************************)
(* The hosted half of fulfillment, as its SQL functions leave it:          *)
(* webhooks of two providers are ingested in any order and any number of   *)
(* times, an order is reconciled with the evidence of its payment, and an  *)
(* eligible order gets a review cycle with one generation run, which       *)
(* workers claim under a lease and complete or fail under its token.       *)
(*                                                                         *)
(* One SQL function is one action.  Each is a transaction that locks what  *)
(* it decides on before it reads it: the payment, then the order; a claim  *)
(* locks the order and the run and skips those another holds.              *)
(*                                                                         *)
(* A review job and its run are one record here, a cycle.  A review job is *)
(* inserted with a run for the order's intake, and is closed before a run  *)
(* for another intake is inserted, so the tables have the same rows.  The  *)
(* name of a token is the number of the attempt it was minted for.         *)
(***************************************************************************)
EXTENDS Integers, Sequences, FiniteSets

CONSTANTS
    Submissions,    \* Tally submission ids
    Payments,       \* Stripe payment ids
    Intakes,        \* canonical intakes, told apart by their digest
    Emails,         \* digests of customer e-mail addresses
    EmailOf,        \* the e-mail digest of an intake
    Materials,      \* catalog, template and renderer digests, as one value
    TallyEvents,    \* the events Tally may send
    StripeEvents,   \* the events Stripe may send
    MaxAttempts,    \* attempts of a run: two
    SweepLimit,     \* exhausted leases one claim closes: sixteen
    MaxEdits,       \* bound: operators' edits of an order's intake
    MaxCycles,      \* bound of the fairness condition: cycles of an order
    None

ASSUME EvidenceAssumption ==
    /\ EmailOf \in [Intakes -> Emails]
    /\ TallyEvents \subseteq
         [id : Nat, submission : Submissions, payment : Payments, intake : Intakes]
    /\ StripeEvents \subseteq
         [id : Nat, payment : Payments, right : BOOLEAN, email : Emails \cup {None}]
    /\ None \notin Emails \cup Materials

ASSUME LimitsAssumption ==
    /\ MaxAttempts \in Nat \ {0}
    /\ SweepLimit \in Nat \ {0}
    /\ MaxEdits \in Nat
    /\ MaxCycles \in Nat

VARIABLES
    seen,           \* webhook_events: the events with a row, ingested or rejected
    payments,       \* stripe_payments, None for no row
    orders,         \* fulfillment_orders by submission, None for no row
    cycles,         \* by submission: review jobs with their runs, oldest first
    unreconciled,   \* orders edited by an operator who has yet to reconcile them
    edits           \* number of edits so far (bound)

vars == <<seen, payments, orders, cycles, unreconciled, edits>>

Payment ==
    [status : {"reported_by_tally", "succeeded"},
     right  : BOOLEAN,      \* amount and currency are the ones the order expects
     email  : Emails \cup {None}]

Order ==
    [payment  : Payments,
     status   : {"pending_payment", "review_required", "blocked"},
     conflict : BOOLEAN,
     intake   : Intakes]

\* A row is never null.
ASSUME RowAssumption == None \notin Payment \cup Order

LiveStatuses == {"queued", "leased"}

Cycle ==
    [review   : {"open", "completed", "cancelled"},
     run      : LiveStatuses \cup
                {"preview_ready", "needs_editorial_input", "failed", "cancelled"},
     input    : Intakes,
     material : Materials \cup {None},
     attempts : 0 .. MaxAttempts,
     lapsed   : BOOLEAN,        \* lease_expires_at is past
     answer   : 0 .. MaxAttempts]  \* the attempt whose artifact or reason is recorded

(***************************************************************************)
(* Reconciliation.                                                         *)
(***************************************************************************)
HoldersOf(p) == {s \in Submissions : orders[s] # None /\ orders[s].payment = p}

\* What the evidence says of order o with payment pay.
Verdict(o, pay) ==
    CASE o.conflict -> "blocked"
      [] ~o.conflict /\ pay.status # "succeeded" -> "pending_payment"
      [] ~o.conflict /\ pay.status = "succeeded"
           /\ ~(pay.right /\ pay.email = EmailOf[o.intake]) -> "blocked"
      [] OTHER -> "review_required"

NewCycle(i) ==
    [review |-> "open", run |-> "queued", input |-> i, material |-> None,
     attempts |-> 0, lapsed |-> FALSE, answer |-> 0]

Live(c) == c.run \in LiveStatuses

Cancelled_ReviewOnly(c) ==
    [c EXCEPT !.review = IF @ = "open" THEN "cancelled" ELSE @]

\* Closes the review job of c if it is open, and its run if it is live.
Cancelled(c) ==
    [c EXCEPT !.review = IF @ = "open" THEN "cancelled" ELSE @,
              !.run = IF Live(c) THEN "cancelled" ELSE @,
              !.lapsed = FALSE,
              !.answer = IF Live(c) THEN 0 ELSE @]

Outdated(c, o) == c.review = "open" /\ c.input # o.intake

ClosedBy_OutdatedOnly(o, pay, h) ==
    [i \in DOMAIN h |-> IF Outdated(h[i], o) THEN Cancelled(h[i]) ELSE h[i]]

\* The cycles h of an order without those reconciliation closes.
ClosedBy(o, pay, h) ==
    [i \in DOMAIN h |->
        IF Verdict(o, pay) # "review_required" \/ Outdated(h[i], o)
        THEN Cancelled(h[i]) ELSE h[i]]

\* With no cycle open, a new one is due if the order has just become
\* eligible or its newest cycle was for another intake.
DueCycle(o, pay, h) ==
    /\ Verdict(o, pay) = "review_required"
    /\ \A i \in DOMAIN h : h[i].review # "open"
    /\ \/ o.status # "review_required"
       \/ h = <<>>
       \/ h[Len(h)].input # o.intake

ReconciledCycles(o, pay, h) ==
    LET closed == ClosedBy(o, pay, h)
    IN  IF DueCycle(o, pay, closed) THEN Append(closed, NewCycle(o.intake)) ELSE closed

\* reconcile_fulfillment_order for order s, whose row the caller left as o.
ReconcileAs(s, o) ==
    /\ orders' = [orders EXCEPT ![s] =
                     [o EXCEPT !.status = Verdict(o, payments'[o.payment])]]
    /\ cycles' = [cycles EXCEPT ![s] = ReconciledCycles(o, payments'[o.payment], @)]
    /\ unreconciled' = unreconciled \ {s}

(***************************************************************************)
(* Ingress.  An event with a row in the webhook log changes nothing.       *)
(***************************************************************************)
Init ==
    /\ seen = {}
    /\ payments = [p \in Payments |-> None]
    /\ orders = [s \in Submissions |-> None]
    /\ cycles = [s \in Submissions |-> <<>>]
    /\ unreconciled = {}
    /\ edits = 0

Log(e) ==
    /\ e \notin seen
    /\ seen' = seen \cup {e}
    /\ UNCHANGED edits

ReportPayment_Overwrites(e) ==
    payments' = [payments EXCEPT ![e.payment] =
        IF @ = None
        THEN [status |-> "reported_by_tally", right |-> FALSE, email |-> EmailOf[e.intake]]
        ELSE [@ EXCEPT !.email = EmailOf[e.intake]]]

\* A submission supplies the payment's e-mail unless it has one.
WithEmail(pay, email) == IF pay.email = None THEN [pay EXCEPT !.email = email] ELSE pay

ReportPayment(e) ==
    payments' = [payments EXCEPT ![e.payment] =
        IF @ = None
        THEN [status |-> "reported_by_tally", right |-> FALSE, email |-> EmailOf[e.intake]]
        ELSE WithEmail(@, EmailOf[e.intake])]

Conflicting(o) == [o EXCEPT !.status = "blocked", !.conflict = TRUE]

NewSubmission(e) ==
    /\ orders[e.submission] = None
    /\ HoldersOf(e.payment) = {}
    /\ ReconcileAs(e.submission,
          [payment |-> e.payment, status |-> "pending_payment",
           conflict |-> FALSE, intake |-> e.intake])

PaymentClaimedTwice(e) ==
    /\ orders[e.submission] = None
    /\ \E s \in HoldersOf(e.payment) : ReconcileAs(s, Conflicting(orders[s]))

SubmissionRepeated(e) ==
    /\ orders[e.submission] # None
    /\ orders[e.submission].payment = e.payment
    /\ ReconcileAs(e.submission, orders[e.submission])

SubmissionWithOtherPayment(e) ==
    /\ orders[e.submission] # None
    /\ orders[e.submission].payment # e.payment
    /\ ReconcileAs(e.submission, Conflicting(orders[e.submission]))

IngestTally(e) ==
    /\ Log(e)
    /\ ReportPayment(e)
    /\ \/ NewSubmission(e)
       \/ PaymentClaimedTwice(e)
       \/ SubmissionRepeated(e)
       \/ SubmissionWithOtherPayment(e)

\* The latest event overwrites the facts, and the e-mail if it has one.
VerifyPayment(e) ==
    payments' = [payments EXCEPT ![e.payment] =
        [status |-> "succeeded", right |-> e.right,
         email |-> IF e.email = None /\ @ # None THEN @.email ELSE e.email]]

IngestStripe(e) ==
    /\ Log(e)
    /\ VerifyPayment(e)
    /\ \/ \E s \in HoldersOf(e.payment) : ReconcileAs(s, orders[s])
       \/ HoldersOf(e.payment) = {} /\ UNCHANGED <<orders, cycles, unreconciled>>

\* A signed event that cannot be normalised is logged under its own id.
RecordRejected(e) ==
    /\ Log(e)
    /\ UNCHANGED <<payments, orders, cycles, unreconciled>>

(***************************************************************************)
(* Operators (external): they correct an intake, reconcile the order, and  *)
(* complete the review of a preview.                                       *)
(***************************************************************************)
EditIntake(s, i) ==
    /\ edits < MaxEdits
    /\ orders[s] # None
    /\ orders[s].intake # i
    /\ orders' = [orders EXCEPT ![s].intake = i]
    /\ unreconciled' = unreconciled \cup {s}
    /\ edits' = edits + 1
    /\ UNCHANGED <<seen, payments, cycles>>

Reconcile(s) ==
    /\ orders[s] # None
    /\ payments' = payments
    /\ ReconcileAs(s, orders[s])
    /\ UNCHANGED <<seen, edits>>

CompleteReview(s) ==
    /\ \E i \in DOMAIN cycles[s] :
          /\ cycles[s][i].review = "open"
          /\ cycles[s][i].run = "preview_ready"
          /\ cycles' = [cycles EXCEPT ![s][i].review = "completed"]
    /\ UNCHANGED <<seen, payments, orders, unreconciled, edits>>

(***************************************************************************)
(* Workers.  <<s, i>> is the run of cycle i of submission s.               *)
(***************************************************************************)
Runs == UNION {{s} \X DOMAIN cycles[s] : s \in Submissions}
Run(r) == cycles[r[1]][r[2]]
OrderOf(r) == orders[r[1]]

RunsOnly == UNCHANGED <<seen, payments, orders, unreconciled, edits>>

SetRun(r, c) == cycles' = [cycles EXCEPT ![r[1]][r[2]] = c]

Exhausted ==
    {r \in Runs : Run(r).run = "leased" /\ Run(r).lapsed /\ Run(r).attempts >= MaxAttempts}

CurrentInput(r) == Run(r).input = OrderOf(r).intake

\* The order still wants this run.
Wanted(r) == OrderOf(r).status = "review_required" /\ Run(r).review = "open"

Claimable_NoLimit(r, m) ==
    /\ Wanted(r)
    /\ CurrentInput(r)
    /\ Run(r).run = "queued" \/ (Run(r).run = "leased" /\ Run(r).lapsed)
    /\ Run(r).material \in {None, m}

Claimable_LiveLease(r, m) ==
    /\ Wanted(r)
    /\ CurrentInput(r)
    /\ Run(r).attempts < MaxAttempts
    /\ Live(Run(r))
    /\ Run(r).material \in {None, m}

Claimable(r, m) ==
    /\ Wanted(r)
    /\ CurrentInput(r)
    /\ Run(r).attempts < MaxAttempts
    /\ Run(r).run = "queued" \/ (Run(r).run = "leased" /\ Run(r).lapsed)
    /\ Run(r).material \in {None, m}

Swept(c) == [c EXCEPT !.run = "failed", !.lapsed = FALSE, !.answer = 0]

Leased(c, m) ==
    [c EXCEPT !.run = "leased", !.lapsed = FALSE, !.attempts = @ + 1,
              !.material = IF @ = None THEN m ELSE @, !.answer = 0]

\* A claim first closes exhausted leases, then leases one run.  Rows that
\* another transaction has locked are skipped, so either may miss some.
ClaimNext(m) ==
    /\ \E swept \in SUBSET Exhausted,
          leased \in {{}} \cup {{r} : r \in {q \in Runs : Claimable(q, m)}} :
          /\ Cardinality(swept) <= SweepLimit
          /\ cycles' = [s \in Submissions |-> [i \in DOMAIN cycles[s] |->
                CASE <<s, i>> \in swept -> Swept(cycles[s][i])
                  [] <<s, i>> \in leased -> Leased(cycles[s][i], m)
                  [] OTHER -> cycles[s][i]]]
    /\ RunsOnly

HoldsLease_AnyToken(r, token) ==
    /\ Run(r).run = "leased"
    /\ token <= Run(r).attempts
    /\ ~Run(r).lapsed

HoldsLease(r, token) ==
    /\ Run(r).run = "leased"
    /\ Run(r).attempts = token
    /\ ~Run(r).lapsed

Ended(c, status, token) == [c EXCEPT !.run = status, !.answer = token]

\* A completion or failure of a run its order no longer wants closes the cycle.
AnswerTooLate(r, token) ==
    /\ HoldsLease(r, token)
    /\ ~(CurrentInput(r) /\ Wanted(r))
    /\ SetRun(r, Cancelled(Run(r)))
    /\ RunsOnly

CompleteRun_AnyInput(r, token) ==
    /\ HoldsLease(r, token)
    /\ Wanted(r)
    /\ SetRun(r, Ended(Run(r), "preview_ready", token))
    /\ RunsOnly

CompleteRun(r, token) ==
    /\ HoldsLease(r, token)
    /\ CurrentInput(r)
    /\ Wanted(r)
    /\ SetRun(r, Ended(Run(r), "preview_ready", token))
    /\ RunsOnly

FailureKinds == {"retryable", "review_required", "terminal", "configuration"}

StatusAfterFailure_AlwaysRetries(kind, attempts) ==
    CASE kind = "retryable" -> "queued"
      [] kind = "review_required" -> "needs_editorial_input"
      [] OTHER -> "failed"

StatusAfterFailure(kind, attempts) ==
    CASE kind = "retryable" /\ attempts < MaxAttempts -> "queued"
      [] kind = "review_required" -> "needs_editorial_input"
      [] OTHER -> "failed"

FailRun(r, token, kind) ==
    /\ HoldsLease(r, token)
    /\ CurrentInput(r)
    /\ Wanted(r)
    /\ SetRun(r, Ended(Run(r), StatusAfterFailure(kind, Run(r).attempts), token))
    /\ RunsOnly

LeaseExpires(r) ==
    /\ Run(r).run = "leased"
    /\ ~Run(r).lapsed
    /\ SetRun(r, [Run(r) EXCEPT !.lapsed = TRUE])
    /\ RunsOnly

Ingress ==
    \/ \E e \in TallyEvents : IngestTally(e)
    \/ \E e \in StripeEvents : IngestStripe(e)
    \/ \E e \in TallyEvents \cup StripeEvents : RecordRejected(e)

Operator ==
    \E s \in Submissions :
        \/ \E i \in Intakes : EditIntake(s, i)
        \/ Reconcile(s)
        \/ CompleteReview(s)

Worker ==
    \/ \E m \in Materials : ClaimNext(m)
    \/ \E r \in Runs :
          \/ \E token \in 1 .. MaxAttempts :
                \/ AnswerTooLate(r, token)
                \/ CompleteRun(r, token)
                \/ \E kind \in FailureKinds : FailRun(r, token, kind)
          \/ LeaseExpires(r)

Next == Ingress \/ Operator \/ Worker

Spec == Init /\ [][Next]_vars

\* Workers keep claiming, leases run out, and an edit is reconciled.
FairSpec ==
    /\ Spec
    /\ \A m \in Materials : WF_vars(ClaimNext(m))
    /\ \A s \in Submissions : WF_vars(s \in unreconciled /\ Reconcile(s))
    /\ \A s \in Submissions, i \in 1 .. MaxCycles : WF_vars(<<s, i>> \in Runs /\ LeaseExpires(<<s, i>>))

(***************************************************************************)
(* What reconciliation and the run lifecycle promise.                      *)
(***************************************************************************)

\* The tables hold values of their columns; no run has more attempts than allowed.
TypeOK ==
    /\ seen \subseteq TallyEvents \cup StripeEvents
    /\ payments \in [Payments -> Payment \cup {None}]
    /\ orders \in [Submissions -> Order \cup {None}]
    /\ cycles \in [Submissions -> Seq(Cycle)]
    /\ unreconciled \subseteq Submissions
    /\ edits \in 0 .. MaxEdits

\* An order has one live run at most, that of its newest cycle, and only its
\* newest cycle is open: reconciliation closes a cycle before the next begins,
\* and answers, sweeps and repeats never revive an older one.
OneLiveRun ==
    \A s \in Submissions : \A i \in DOMAIN cycles[s] :
        Live(cycles[s][i]) \/ cycles[s][i].review = "open" => i = Len(cycles[s])

EligibleNow(s) ==
    /\ orders[s] # None
    /\ Verdict(orders[s], payments[orders[s].payment]) = "review_required"

\* Work on the order as it stands is paid for: whatever the order of webhooks,
\* replays and edits, a live run for the current intake belongs to an open
\* cycle of an order that its payment entitles to review now.
WorkIsPaid ==
    \A r \in Runs :
        Live(Run(r)) /\ CurrentInput(r) => Run(r).review = "open" /\ EligibleNow(r[1])

\* A preview is accepted only for the intake the order has, while the payment
\* is verified, of the right amount and customer, and uncontested, although
\* complete_preview_run looks at the status column alone.
ReadyIsEligible ==
    [][\A r \in Runs :
          Run(r).run # "preview_ready" /\ Run(r)'.run = "preview_ready"
            => CurrentInput(r)' /\ EligibleNow(r[1])']_vars

\* The artifact or reason a run records comes from its last lease: an answer
\* under a token that was replaced changes nothing.
AnswerOfLastLease ==
    \A r \in Runs :
        /\ Run(r).run \in {"preview_ready", "needs_editorial_input"} => Run(r).answer = Run(r).attempts
        /\ Run(r).answer \in {0, Run(r).attempts}

\* Runs are historical evidence: none disappears, one that is over stays as it
\* is, a run keeps the material it was first claimed with, and a lease that
\* lasts is not given to another worker, nor a run claimed beyond its limit.
RunsMoveForward ==
    [][\A r \in Runs :
          /\ r \in Runs'
          /\ ~Live(Run(r)) => Run(r)' = [Run(r) EXCEPT !.review = Run(r)'.review]
          /\ Run(r).material # None => Run(r)'.material = Run(r).material
          /\ Run(r)'.attempts > Run(r).attempts
               => /\ Run(r).run = "queued" \/ Run(r).lapsed
                  /\ Run(r)'.attempts <= MaxAttempts]_vars

\* The status column follows the evidence: unless an operator has an edit to
\* reconcile, each order stands as its payment, intake and conflict say,
\* including an order whose payment another submission's webhook touched.
StatusFollowsEvidence ==
    \A s \in Submissions \ unreconciled :
        orders[s] # None =>
            orders[s].status = Verdict(orders[s], payments[orders[s].payment])

\* An eligible order is served: it comes to a run that is over, for its intake,
\* unless it stops being eligible.
EligibleIsServed ==
    \A s \in Submissions :
        EligibleNow(s) ~>
            \/ ~EligibleNow(s)
            \/ \E i \in DOMAIN cycles[s] :
                  cycles[s][i].input = orders[s].intake
                    /\ cycles[s][i].run \in {"preview_ready", "needs_editorial_input", "failed"}

\* Said by LIVE_SETUP.md:101-102: an intake change closes the cycle, and a later
\* eligible state has a fresh one, so a reconciled eligible order has a cycle
\* for its intake that was not cancelled.
EligibleHasCycle ==
    \A s \in Submissions \ unreconciled :
        EligibleNow(s) => cycles[s][Len(cycles[s])].review # "cancelled"

=============================================================================

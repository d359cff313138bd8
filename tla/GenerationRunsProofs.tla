------------------------ MODULE GenerationRunsProofs ------------------------
(***************************************************************************)
(* Theorems about the orders and generation runs of GenerationRuns.        *)
(*                                                                         *)
(* Every step takes the cycles of an order forward, one by one             *)
(* (CyclesAdvance): a worker or a reviewer moves the cycles there are,     *)
(* reconciliation closes some and may add one.  The invariant relates a    *)
(* live run to the evidence for its own intake, not for the intake the     *)
(* order has, because an operator may edit the intake away and back again  *)
(* while the run is live.                                                  *)
(***************************************************************************)
EXTENDS GenerationRuns, TLAPS

\* A payment belongs to one order, which supplied its customer's e-mail, so
\* that a later submission for the payment finds nothing to add to it.
OneHolder ==
  \A s, t \in Submissions :
    orders[s] # None /\ orders[t] # None /\ orders[s].payment = orders[t].payment => s = t

HeldPayment ==
  \A s \in Submissions :
    orders[s] # None =>
      /\ payments[orders[s].payment] \in Payment
      /\ payments[orders[s].payment].email # None

\* A live run has its review open; a lease is the only thing that lapses; an
\* answer is the last lease's.
CycleInv(c) ==
  /\ Live(c) => c.review = "open"
  /\ c.lapsed => c.run = "leased"
  /\ c.run \in {"preview_ready", "needs_editorial_input"} => c.answer = c.attempts
  /\ c.answer \in {0, c.attempts}

\* The evidence entitles the order to review with the intake of the run.
EntitledTo(s, i) ==
  /\ orders[s] # None
  /\ Verdict([orders[s] EXCEPT !.intake = i], payments[orders[s].payment]) = "review_required"

RunsEntitled ==
  \A s \in Submissions : \A i \in DOMAIN cycles[s] :
    /\ CycleInv(cycles[s][i])
    /\ Live(cycles[s][i]) => EntitledTo(s, cycles[s][i].input)

IInv ==
  /\ TypeOK /\ OneHolder /\ HeldPayment /\ StatusFollowsEvidence /\ OneLiveRun
  /\ RunsEntitled

-----------------------------------------------------------------------------
(* Operators                                                                *)

LEMMA SequenceOf ==
  ASSUME NEW S, NEW n \in Nat, NEW f \in [1 .. n -> S]
  PROVE  f \in Seq(S) /\ Len(f) = n /\ DOMAIN f = 1 .. n
OBVIOUS

\* An order is eligible when its payment is the right one, made, and its own.
LEMMA VerdictOf ==
  ASSUME NEW o \in Order, NEW pay \in Payment
  PROVE  /\ Verdict(o, pay) \in {"blocked", "pending_payment", "review_required"}
         /\ Verdict(o, pay) = "review_required" <=>
              /\ ~o.conflict
              /\ pay.status = "succeeded"
              /\ pay.right
              /\ pay.email = EmailOf[o.intake]
BY DEF Verdict, Order, Payment

LEMMA OrderFields ==
  ASSUME NEW o \in Order
  PROVE  /\ o.payment \in Payments /\ o.intake \in Intakes /\ o.conflict \in BOOLEAN
         /\ o # None
         /\ \A i \in Intakes : [o EXCEPT !.intake = i] \in Order
         /\ \A v \in {"blocked", "pending_payment", "review_required"} :
              [o EXCEPT !.status = v] \in Order
         /\ Conflicting(o) \in Order
BY RowAssumption DEF Order, Conflicting

LEMMA RunsAre ==
  ASSUME TypeOK
  PROVE  /\ \A s \in Submissions : \A i \in DOMAIN cycles[s] : <<s, i>> \in Runs
         /\ \A r \in Runs : \E s \in Submissions : \E i \in DOMAIN cycles[s] : r = <<s, i>>
BY DEF Runs

\* What a step may make of a cycle.
Advances(c, d) ==
  /\ d \in Cycle
  /\ CycleInv(d)
  /\ d.input = c.input
  /\ Live(d) => Live(c)
  /\ d.review = "open" => c.review = "open"
  /\ ~Live(c) => d = [c EXCEPT !.review = d.review]
  /\ c.material # None => d.material = c.material
  /\ d.attempts > c.attempts => c.run = "queued" \/ c.lapsed

LEMMA CancelledAdvances ==
  ASSUME NEW c \in Cycle, CycleInv(c)
  PROVE  /\ Advances(c, Cancelled(c))
         /\ Cancelled(c).review # "open"
         /\ Cancelled(c).run = "preview_ready" => c.run = "preview_ready"
<1>1. Cancelled(c) \in Cycle
  <2>1. 0 \in 0 .. MaxAttempts
    BY LimitsAssumption
  <2> QED
    BY <2>1 DEF Cancelled, Cycle, LiveStatuses
<1>2. CASE Live(c)
  BY <1>1, <1>2 DEF Cancelled, Cycle, Advances, CycleInv, Live, LiveStatuses
<1>3. CASE ~Live(c)
  <2>1. c.lapsed = FALSE
    BY <1>3 DEF CycleInv, Cycle, Live, LiveStatuses
  <2>2. Cancelled(c) = [c EXCEPT !.review = IF @ = "open" THEN "cancelled" ELSE @]
    BY <1>3, <2>1 DEF Cancelled, Cycle
  <2> QED
    BY <1>1, <1>3, <2>1, <2>2 DEF Cancelled, Cycle, Advances, CycleInv, Live, LiveStatuses
<1> QED
  BY <1>2, <1>3

LEMMA StaysAdvances ==
  ASSUME NEW c \in Cycle, CycleInv(c)
  PROVE  Advances(c, c)
BY DEF Cycle, Advances, CycleInv

LEMMA SweptAdvances ==
  ASSUME NEW c \in Cycle, CycleInv(c), c.run = "leased"
  PROVE  Advances(c, Swept(c)) /\ Swept(c).run # "preview_ready"
<1>1. Swept(c) \in Cycle
  <2>1. 0 \in 0 .. MaxAttempts
    BY LimitsAssumption
  <2> QED
    BY <2>1 DEF Swept, Cycle
<1> QED
  BY <1>1 DEF Swept, Cycle, Advances, CycleInv, Live, LiveStatuses

LEMMA LeasedAdvances ==
  ASSUME NEW c \in Cycle, CycleInv(c), NEW m \in Materials, c.attempts < MaxAttempts,
         c.run = "queued" \/ (c.run = "leased" /\ c.lapsed), c.material \in {None, m}
  PROVE  Advances(c, Leased(c, m)) /\ Leased(c, m).run # "preview_ready"
<1>1. Leased(c, m) \in Cycle
  <2>1. 0 \in 0 .. MaxAttempts
    BY LimitsAssumption
  <2>2. c.attempts + 1 \in 0 .. MaxAttempts
    BY LimitsAssumption DEF Cycle
  <2> QED
    BY <2>1, <2>2 DEF Leased, Cycle, LiveStatuses
<1> QED
  BY <1>1 DEF Leased, Cycle, Advances, CycleInv, Live, LiveStatuses

LEMMA EndedAdvances ==
  ASSUME NEW c \in Cycle, CycleInv(c), NEW token \in 1 .. MaxAttempts,
         c.run = "leased", c.attempts = token, ~c.lapsed,
         NEW status \in {"queued", "preview_ready", "needs_editorial_input", "failed"}
  PROVE  Advances(c, Ended(c, status, token))
<1>1. Ended(c, status, token) \in Cycle
  BY LimitsAssumption DEF Ended, Cycle, LiveStatuses
<1> QED
  BY <1>1 DEF Ended, Cycle, Advances, CycleInv, Live, LiveStatuses

LEMMA LapsedAdvances ==
  ASSUME NEW c \in Cycle, CycleInv(c), c.run = "leased"
  PROVE  Advances(c, [c EXCEPT !.lapsed = TRUE])
<1>1. [c EXCEPT !.lapsed = TRUE] \in Cycle
  BY DEF Cycle
<1> QED
  BY <1>1 DEF Cycle, Advances, CycleInv, Live, LiveStatuses

LEMMA ReviewedAdvances ==
  ASSUME NEW c \in Cycle, CycleInv(c), c.run = "preview_ready"
  PROVE  Advances(c, [c EXCEPT !.review = "completed"])
<1>1. [c EXCEPT !.review = "completed"] \in Cycle
  BY DEF Cycle
<1> QED
  BY <1>1 DEF Cycle, Advances, CycleInv, Live, LiveStatuses

-----------------------------------------------------------------------------
(* Steps                                                                    *)

\* The cycles of s go forward, and none becomes ready for a preview.
Advance(s) ==
  /\ cycles'[s] \in Seq(Cycle)
  /\ Len(cycles[s]) <= Len(cycles'[s])
  /\ \A i \in DOMAIN cycles[s] : Advances(cycles[s][i], cycles'[s][i])

GetsReady(s, i) == cycles[s][i].run # "preview_ready" /\ cycles'[s][i].run = "preview_ready"

\* Workers and reviewers move the cycles there are, and only a completion under
\* a lease of a run for the order's intake makes a preview ready.
CyclesAdvance ==
  /\ cycles' \in [Submissions -> Seq(Cycle)]
  /\ \A s \in Submissions :
       /\ Len(cycles'[s]) = Len(cycles[s])
       /\ \A i \in DOMAIN cycles[s] :
            /\ Advances(cycles[s][i], cycles'[s][i])
            /\ GetsReady(s, i) => Live(cycles[s][i]) /\ cycles[s][i].input = orders[s].intake

LEMMA SetAdvances ==
  ASSUME IInv, NEW s \in Submissions, NEW i \in DOMAIN cycles[s], NEW d,
         Advances(cycles[s][i], d),
         cycles[s][i].run # "preview_ready" /\ d.run = "preview_ready"
           => Live(cycles[s][i]) /\ cycles[s][i].input = orders[s].intake,
         cycles' = [cycles EXCEPT ![s][i] = d]
  PROVE  CyclesAdvance
<1> USE DEF IInv, TypeOK
<1>1. cycles'[s] = [cycles[s] EXCEPT ![i] = d] /\ \A t \in Submissions \ {s} : cycles'[t] = cycles[t]
  OBVIOUS
<1>2. cycles[s] \in Seq(Cycle) /\ d \in Cycle
  BY DEF Advances
<1>3. cycles'[s] \in Seq(Cycle) /\ Len(cycles'[s]) = Len(cycles[s])
  BY <1>1, <1>2
<1>4. cycles' \in [Submissions -> Seq(Cycle)]
  BY <1>1, <1>3
<1>5. ASSUME NEW t \in Submissions, NEW j \in DOMAIN cycles[t]
      PROVE  /\ Advances(cycles[t][j], cycles'[t][j])
             /\ GetsReady(t, j) => Live(cycles[t][j]) /\ cycles[t][j].input = orders[t].intake
  <2>1. CASE t = s /\ j = i
    BY <1>1, <1>2, <2>1 DEF GetsReady
  <2>2. CASE ~(t = s /\ j = i)
    <3>1. cycles'[t][j] = cycles[t][j]
      BY <1>1, <1>2, <1>5, <2>2
    <3>2. cycles[t][j] \in Cycle /\ CycleInv(cycles[t][j])
      BY <1>5 DEF RunsEntitled
    <3> QED
      BY <3>1, <3>2, StaysAdvances DEF GetsReady
  <2> QED
    BY <2>1, <2>2
<1> QED
  BY <1>1, <1>3, <1>4, <1>5 DEF CyclesAdvance

\* A claim sweeps some runs and leases one at most.
LEMMA ClaimAdvances ==
  ASSUME IInv, NEW m \in Materials, ClaimNext(m)
  PROVE  CyclesAdvance
<1> USE DEF IInv, TypeOK
<1>1. PICK swept \in SUBSET Exhausted,
           leased \in {{}} \cup {{r} : r \in {q \in Runs : Claimable(q, m)}} :
         cycles' = [s \in Submissions |-> [i \in DOMAIN cycles[s] |->
                CASE <<s, i>> \in swept -> Swept(cycles[s][i])
                  [] <<s, i>> \in leased -> Leased(cycles[s][i], m)
                  [] OTHER -> cycles[s][i]]]
  BY DEF ClaimNext
<1>2. ASSUME NEW s \in Submissions, NEW i \in DOMAIN cycles[s]
      PROVE  /\ Advances(cycles[s][i], cycles'[s][i])
             /\ ~GetsReady(s, i)
  <2>1. cycles[s][i] \in Cycle /\ CycleInv(cycles[s][i])
    BY <1>2 DEF RunsEntitled
  <2>2. CASE <<s, i>> \in swept
    <3>1. Run(<<s, i>>).run = "leased" /\ ~(Run(<<s, i>>).attempts < MaxAttempts)
      BY <2>1, <2>2, LimitsAssumption DEF Exhausted, Run, Cycle
    <3>2. <<s, i>> \notin leased
      BY <3>1 DEF Claimable
    <3>3. cycles'[s][i] = Swept(cycles[s][i])
      BY <1>1, <1>2, <2>2, <3>2
    <3> QED
      BY <2>1, <3>1, <3>3, SweptAdvances DEF GetsReady, Run
  <2>3. CASE <<s, i>> \in leased /\ <<s, i>> \notin swept
    <3>1. Claimable(<<s, i>>, m)
      BY <2>3
    <3>2. cycles'[s][i] = Leased(cycles[s][i], m)
      BY <1>1, <1>2, <2>3
    <3> QED
      BY <2>1, <3>1, <3>2, LeasedAdvances DEF Claimable, Run, GetsReady
  <2>4. CASE <<s, i>> \notin leased /\ <<s, i>> \notin swept
    <3>1. cycles'[s][i] = cycles[s][i]
      BY <1>1, <1>2, <2>4
    <3> QED
      BY <2>1, <3>1, StaysAdvances DEF GetsReady
  <2> QED
    BY <2>2, <2>3, <2>4
<1>3. ASSUME NEW s \in Submissions
      PROVE  cycles'[s] \in Seq(Cycle) /\ Len(cycles'[s]) = Len(cycles[s])
  <2>1. DOMAIN cycles[s] = 1 .. Len(cycles[s]) /\ Len(cycles[s]) \in Nat
    BY <1>3
  <2>2. DOMAIN cycles'[s] = DOMAIN cycles[s]
    BY <1>1, <1>3
  <2>3. \A i \in 1 .. Len(cycles[s]) : cycles'[s][i] \in Cycle
    BY <1>2, <1>3, <2>1 DEF Advances
  <2>4. cycles'[s] = [i \in 1 .. Len(cycles[s]) |-> cycles'[s][i]]
    BY <1>1, <1>3, <2>1
  <2>5. cycles'[s] \in [1 .. Len(cycles[s]) -> Cycle]
    BY <2>3, <2>4
  <2> QED
    BY <2>1, <2>5, SequenceOf
<1>4. cycles' = [s \in Submissions |-> cycles'[s]]
  BY <1>1
<1>5. cycles' \in [Submissions -> Seq(Cycle)]
  BY <1>3, <1>4
<1> QED
  BY <1>2, <1>3, <1>5 DEF CyclesAdvance

LEMMA RunAdvances ==
  ASSUME IInv, NEW s \in Submissions, NEW i \in DOMAIN cycles[s],
         \/ \E token \in 1 .. MaxAttempts :
              \/ AnswerTooLate(<<s, i>>, token)
              \/ CompleteRun(<<s, i>>, token)
              \/ \E kind \in FailureKinds : FailRun(<<s, i>>, token, kind)
         \/ LeaseExpires(<<s, i>>)
  PROVE  CyclesAdvance
<1> DEFINE c == cycles[s][i]
<1>1. c \in Cycle /\ CycleInv(c) /\ Run(<<s, i>>) = c
  BY DEF IInv, TypeOK, RunsEntitled, Run
<1>2. ASSUME NEW d, SetRun(<<s, i>>, d) PROVE cycles' = [cycles EXCEPT ![s][i] = d]
  BY <1>2 DEF SetRun
<1>3. ASSUME NEW token \in 1 .. MaxAttempts, HoldsLease(<<s, i>>, token)
      PROVE  c.run = "leased" /\ c.attempts = token /\ ~c.lapsed /\ Live(c)
  BY <1>1, <1>3 DEF HoldsLease, Live, LiveStatuses
<1>4. ASSUME NEW token \in 1 .. MaxAttempts, AnswerTooLate(<<s, i>>, token)
      PROVE  CyclesAdvance
  <2>1. cycles' = [cycles EXCEPT ![s][i] = Cancelled(c)]
    BY <1>1, <1>2, <1>4 DEF AnswerTooLate
  <2> QED
    BY <1>1, <2>1, CancelledAdvances, SetAdvances
<1>5. ASSUME NEW token \in 1 .. MaxAttempts, CompleteRun(<<s, i>>, token)
      PROVE  CyclesAdvance
  <2>1. cycles' = [cycles EXCEPT ![s][i] = Ended(c, "preview_ready", token)]
    BY <1>1, <1>2, <1>5 DEF CompleteRun
  <2>2. c.input = orders[s].intake
    BY <1>1, <1>5 DEF CompleteRun, CurrentInput, OrderOf
  <2>3. c.run = "leased" /\ c.attempts = token /\ ~c.lapsed /\ Live(c)
    BY <1>3, <1>5 DEF CompleteRun
  <2>4. Advances(c, Ended(c, "preview_ready", token))
    BY <1>1, <2>3, EndedAdvances
  <2> HIDE DEF c
  <2> QED
    BY <2>1, <2>2, <2>3, <2>4, SetAdvances DEF c
<1>6. ASSUME NEW token \in 1 .. MaxAttempts, NEW kind \in FailureKinds, FailRun(<<s, i>>, token, kind)
      PROVE  CyclesAdvance
  <2> DEFINE status == StatusAfterFailure(kind, c.attempts)
  <2>1. cycles' = [cycles EXCEPT ![s][i] = Ended(c, status, token)]
    BY <1>1, <1>2, <1>6 DEF FailRun
  <2>2. status \in {"queued", "needs_editorial_input", "failed"}
    BY DEF StatusAfterFailure
  <2>3. c.run = "leased" /\ c.attempts = token /\ ~c.lapsed
    BY <1>3, <1>6 DEF FailRun
  <2> HIDE DEF status
  <2>4. Advances(c, Ended(c, status, token))
    BY <1>1, <2>2, <2>3, EndedAdvances
  <2>5. Ended(c, status, token).run # "preview_ready"
    BY <1>1, <2>2 DEF Ended, Cycle
  <2> QED
    BY <2>1, <2>4, <2>5, SetAdvances
<1>7. CASE LeaseExpires(<<s, i>>)
  <2>1. cycles' = [cycles EXCEPT ![s][i] = [c EXCEPT !.lapsed = TRUE]] /\ c.run = "leased"
    BY <1>1, <1>2, <1>7 DEF LeaseExpires
  <2>2. [c EXCEPT !.lapsed = TRUE].run = "leased"
    BY <1>1, <2>1 DEF Cycle
  <2> QED
    BY <1>1, <2>1, <2>2, LapsedAdvances, SetAdvances
<1> QED
  BY <1>4, <1>5, <1>6, <1>7

LEMMA WorkAdvances ==
  ASSUME IInv, Worker \/ \E s \in Submissions : CompleteReview(s)
  PROVE  CyclesAdvance /\ RunsOnly
<1>1. CASE \E m \in Materials : ClaimNext(m)
  BY <1>1, ClaimAdvances DEF ClaimNext
<1>2. ASSUME NEW r \in Runs,
             \/ \E token \in 1 .. MaxAttempts :
                  \/ AnswerTooLate(r, token)
                  \/ CompleteRun(r, token)
                  \/ \E kind \in FailureKinds : FailRun(r, token, kind)
             \/ LeaseExpires(r)
      PROVE  CyclesAdvance /\ RunsOnly
  <2>1. PICK s \in Submissions : \E i \in DOMAIN cycles[s] : r = <<s, i>>
    BY RunsAre DEF IInv
  <2>2. PICK i \in DOMAIN cycles[s] : r = <<s, i>>
    BY <2>1
  <2>3. RunsOnly
    BY <1>2 DEF AnswerTooLate, CompleteRun, FailRun, LeaseExpires
  <2> QED
    BY <1>2, <2>2, <2>3, RunAdvances
<1>3. ASSUME NEW s \in Submissions, CompleteReview(s)
      PROVE  CyclesAdvance /\ RunsOnly
  <2>1. PICK i \in DOMAIN cycles[s] :
          /\ cycles[s][i].run = "preview_ready"
          /\ cycles' = [cycles EXCEPT ![s][i].review = "completed"]
    BY <1>3 DEF CompleteReview
  <2>2. cycles[s][i] \in Cycle /\ CycleInv(cycles[s][i])
    BY DEF IInv, TypeOK, RunsEntitled
  <2>3. cycles' = [cycles EXCEPT ![s][i] = [cycles[s][i] EXCEPT !.review = "completed"]]
    BY <2>1
  <2> QED
    BY <1>3, <2>1, <2>2, <2>3, ReviewedAdvances, SetAdvances DEF CompleteReview, RunsOnly
<1> QED
  BY <1>1, <1>2, <1>3 DEF Worker

\* Reconciliation leaves the order as the evidence says, and its live runs, if
\* any, entitled; the cycles it closes go forward.
Reconciled(s) ==
  /\ orders'[s] \in Order
  /\ orders'[s].status = Verdict(orders'[s], payments'[orders'[s].payment])
  /\ \A i \in DOMAIN cycles'[s] :
       Live(cycles'[s][i]) => cycles'[s][i].input = orders'[s].intake /\ EntitledTo(s, cycles[s][i].input)'

LEMMA NewCycleInv ==
  ASSUME NEW i \in Intakes
  PROVE  NewCycle(i) \in Cycle /\ CycleInv(NewCycle(i)) /\ NewCycle(i).input = i
BY LimitsAssumption DEF NewCycle, Cycle, CycleInv, Live, LiveStatuses

LEMMA ClosedAdvances ==
  ASSUME TypeOK, RunsEntitled, NEW s \in Submissions, NEW o \in Order, NEW pay \in Payment,
         NEW closed, closed = ClosedBy(o, pay, cycles[s])
  PROVE  /\ closed \in Seq(Cycle)
         /\ Len(closed) = Len(cycles[s]) /\ DOMAIN closed = DOMAIN cycles[s]
         /\ \A i \in DOMAIN cycles[s] :
              /\ Advances(cycles[s][i], closed[i])
              /\ closed[i].run = "preview_ready" => cycles[s][i].run = "preview_ready"
              /\ Live(closed[i]) => /\ Verdict(o, pay) = "review_required"
                                    /\ closed[i].input = o.intake
<1>1. cycles[s] \in Seq(Cycle) /\ Len(cycles[s]) \in Nat /\ DOMAIN cycles[s] = 1 .. Len(cycles[s])
  BY DEF TypeOK
<1>2. closed = [i \in 1 .. Len(cycles[s]) |->
                  IF Verdict(o, pay) # "review_required" \/ Outdated(cycles[s][i], o)
                    THEN Cancelled(cycles[s][i]) ELSE cycles[s][i]]
  BY <1>1 DEF ClosedBy
<1>3. ASSUME NEW i \in 1 .. Len(cycles[s])
      PROVE  /\ Advances(cycles[s][i], closed[i])
             /\ closed[i].run = "preview_ready" => cycles[s][i].run = "preview_ready"
             /\ Live(closed[i]) => /\ Verdict(o, pay) = "review_required"
                                   /\ closed[i].input = o.intake
  <2>1. cycles[s][i] \in Cycle /\ CycleInv(cycles[s][i])
    BY <1>1, <1>3 DEF RunsEntitled
  <2>2. CASE Verdict(o, pay) # "review_required" \/ Outdated(cycles[s][i], o)
    <3>1. closed[i] = Cancelled(cycles[s][i])
      BY <1>2, <2>2
    <3>2. ~Live(closed[i])
      BY <2>1, <3>1, CancelledAdvances DEF Advances, CycleInv
    <3> QED
      BY <2>1, <3>1, <3>2, CancelledAdvances
  <2>3. CASE ~(Verdict(o, pay) # "review_required" \/ Outdated(cycles[s][i], o))
    <3>1. closed[i] = cycles[s][i]
      BY <1>2, <2>3
    <3> QED
      BY <2>1, <2>3, <3>1, StaysAdvances DEF Outdated, CycleInv
  <2> QED
    BY <2>2, <2>3
<1>4. closed \in [1 .. Len(cycles[s]) -> Cycle]
  <2>1. \A i \in 1 .. Len(cycles[s]) : closed[i] \in Cycle
    BY <1>3 DEF Advances
  <2> QED
    BY <1>2, <2>1
<1> HIDE DEF ClosedBy
<1> QED
  BY <1>1, <1>3, <1>4, SequenceOf

\* Of the cycles h, only the newest is live or open.
NewestOnly(h) ==
  \A i \in DOMAIN h : Live(h[i]) \/ h[i].review = "open" => i = Len(h)

LEMMA ReconcileAdvances ==
  ASSUME IInv, NEW s \in Submissions, NEW o \in Order, NEW pay \in Payment,
         pay = payments'[o.payment], ReconcileAs(s, o)
  PROVE  /\ Advance(s)
         /\ Reconciled(s)
         /\ NewestOnly(cycles'[s])
         /\ \A i \in DOMAIN cycles'[s] : CycleInv(cycles'[s][i])
         /\ \A i \in DOMAIN cycles[s] : ~GetsReady(s, i)
         /\ orders' = [orders EXCEPT ![s] = [o EXCEPT !.status = Verdict(o, pay)]]
         /\ \A t \in Submissions \ {s} : cycles'[t] = cycles[t]
         /\ cycles' \in [Submissions -> Seq(Cycle)]
         /\ unreconciled' = unreconciled \ {s}
<1> DEFINE h == cycles[s]
           closed == ClosedBy(o, pay, h)
           o2 == [o EXCEPT !.status = Verdict(o, pay)]
<1>1. h \in Seq(Cycle) /\ Len(h) \in Nat /\ DOMAIN h = 1 .. Len(h)
  BY DEF IInv, TypeOK
<1>2. /\ closed \in Seq(Cycle)
      /\ Len(closed) = Len(h) /\ DOMAIN closed = DOMAIN h
      /\ \A i \in DOMAIN h :
           /\ Advances(h[i], closed[i])
           /\ closed[i].run = "preview_ready" => h[i].run = "preview_ready"
           /\ Live(closed[i]) => Verdict(o, pay) = "review_required" /\ closed[i].input = o.intake
  BY ClosedAdvances DEF IInv
<1>3. /\ cycles' = [cycles EXCEPT ![s] = ReconciledCycles(o, pay, h)]
      /\ orders' = [orders EXCEPT ![s] = o2]
      /\ unreconciled' = unreconciled \ {s}
  BY DEF ReconcileAs
<1>4. cycles'[s] = IF DueCycle(o, pay, closed) THEN Append(closed, NewCycle(o.intake)) ELSE closed
  BY <1>3 DEF IInv, TypeOK, ReconciledCycles
<1>5. o2 \in Order /\ o2.payment = o.payment /\ o2.intake = o.intake /\ o2.conflict = o.conflict
        /\ o2.status = Verdict(o, pay) /\ o2 # None
  BY VerdictOf, OrderFields, RowAssumption DEF Order
<1>6. Verdict(o2, pay) = Verdict(o, pay) /\ Verdict([o2 EXCEPT !.intake = o.intake], pay) = Verdict(o, pay)
  <2>1. [o2 EXCEPT !.intake = o.intake].conflict = o.conflict
          /\ [o2 EXCEPT !.intake = o.intake].intake = o.intake
    BY <1>5 DEF Order
  <2> QED
    BY <1>5, <2>1 DEF Verdict
<1>7. orders'[s] = o2
  BY <1>3 DEF IInv, TypeOK
<1>8. NewestOnly(closed)
  <2>1. \A i \in DOMAIN h : (Live(closed[i]) => Live(h[i])) /\ (closed[i].review = "open" => h[i].review = "open")
    BY <1>2 DEF Advances
  <2> QED
    BY <1>2, <2>1 DEF IInv, OneLiveRun, NewestOnly
<1> HIDE DEF o2, closed
<1>9. orders'[s] \in Order /\ orders'[s].status = Verdict(orders'[s], payments'[orders'[s].payment])
  BY <1>5, <1>6, <1>7
<1>10. Verdict(o, pay) = "review_required" => EntitledTo(s, o.intake)'
  BY <1>5, <1>6, <1>7 DEF EntitledTo
<1>11. CASE ~DueCycle(o, pay, closed)
  <2>1. cycles'[s] = closed
    BY <1>4, <1>11
  <2>2. Reconciled(s)
    <3>1. \A i \in DOMAIN closed : Live(closed[i]) => closed[i].input = o.intake /\ Verdict(o, pay) = "review_required"
      BY <1>2
    <3>2. \A i \in DOMAIN cycles'[s] : Live(cycles'[s][i]) =>
            /\ cycles'[s][i].input = orders'[s].intake
            /\ EntitledTo(s, cycles[s][i].input)'
      BY <1>5, <1>7, <1>10, <2>1, <3>1 DEF EntitledTo
    <3> QED
      BY <1>9, <3>2 DEF Reconciled
  <2>3. Advance(s)
    BY <1>1, <1>2, <2>1 DEF Advance
  <2>4. \A i \in DOMAIN cycles'[s] : CycleInv(cycles'[s][i])
    BY <1>2, <2>1 DEF Advances
  <2>5. \A i \in DOMAIN cycles[s] : ~GetsReady(s, i)
    BY <1>2, <2>1 DEF GetsReady
  <2>6. /\ \A t \in Submissions \ {s} : cycles'[t] = cycles[t]
        /\ cycles' \in [Submissions -> Seq(Cycle)]
    BY <1>2, <1>3, <1>4, <2>1 DEF IInv, TypeOK
  <2> QED
    BY <1>3, <1>8, <2>1, <2>2, <2>3, <2>4, <2>5, <2>6 DEF o2
<1>12. CASE DueCycle(o, pay, closed)
  <2> DEFINE new == NewCycle(o.intake)
  <2>1. new \in Cycle /\ CycleInv(new) /\ new.input = o.intake
    BY NewCycleInv, OrderFields
  <2> HIDE DEF new
  <2>2. cycles'[s] = Append(closed, new)
    BY <1>4, <1>12 DEF new
  <2>3. /\ cycles'[s] \in Seq(Cycle) /\ Len(cycles'[s]) = Len(h) + 1
        /\ DOMAIN cycles'[s] = 1 .. Len(h) + 1
        /\ \A i \in 1 .. Len(h) : cycles'[s][i] = closed[i]
        /\ cycles'[s][Len(h) + 1] = new
    BY <1>1, <1>2, <2>1, <2>2
  <2>4. \A i \in DOMAIN h : closed[i].review # "open" /\ ~Live(closed[i]) /\ CycleInv(closed[i])
    BY <1>2, <1>12 DEF DueCycle, Advances, CycleInv
  <2>5. Verdict(o, pay) = "review_required"
    BY <1>12 DEF DueCycle
  <2>6. \A i \in DOMAIN cycles'[s] :
          Live(cycles'[s][i]) => i = Len(h) + 1 /\ cycles'[s][i].input = o.intake
    BY <1>1, <2>1, <2>3, <2>4
  <2>7. Reconciled(s)
    <3>1. \A i \in DOMAIN cycles'[s] : Live(cycles'[s][i]) =>
            /\ cycles'[s][i].input = orders'[s].intake
            /\ EntitledTo(s, cycles[s][i].input)'
      BY <1>5, <1>7, <1>10, <2>5, <2>6 DEF EntitledTo
    <3> QED
      BY <1>9, <3>1 DEF Reconciled
  <2>8. NewestOnly(cycles'[s])
    BY <1>1, <2>3, <2>4 DEF NewestOnly
  <2>9. \A i \in DOMAIN cycles'[s] : CycleInv(cycles'[s][i])
    BY <1>1, <2>1, <2>3, <2>4
  <2>10. Advance(s) /\ \A i \in DOMAIN cycles[s] : ~GetsReady(s, i)
    BY <1>1, <1>2, <2>3 DEF Advance, GetsReady
  <2> QED
    BY <1>3, <2>3, <2>7, <2>8, <2>9, <2>10 DEF IInv, TypeOK, o2
<1> QED
  BY <1>11, <1>12

-----------------------------------------------------------------------------
(* The invariant                                                            *)

\* What a step does to the rows: cycles go forward, and one becomes ready only
\* for an order that keeps its row and evidence.
StepKeeps ==
  /\ cycles' \in [Submissions -> Seq(Cycle)]
  /\ \A s \in Submissions :
       /\ Advance(s)
       /\ \A i \in DOMAIN cycles[s] : GetsReady(s, i) =>
            /\ Live(cycles[s][i]) /\ cycles[s][i].input = orders[s].intake
            /\ UNCHANGED <<orders, payments>>

LEMMA CyclesKept ==
  ASSUME IInv, UNCHANGED cycles
  PROVE  StepKeeps
<1>1. ASSUME NEW s \in Submissions
      PROVE  Advance(s) /\ \A i \in DOMAIN cycles[s] : ~GetsReady(s, i)
  <2>1. cycles[s] \in Seq(Cycle) /\ \A i \in DOMAIN cycles[s] : cycles[s][i] \in Cycle /\ CycleInv(cycles[s][i])
    BY <1>1 DEF IInv, TypeOK, RunsEntitled
  <2> QED
    BY <2>1, StaysAdvances DEF Advance, GetsReady
<1> QED
  BY <1>1 DEF StepKeeps, IInv, TypeOK

\* Cycles that go forward while orders and payments stay keep the invariant.
LEMMA WorkKeeps ==
  ASSUME IInv, CyclesAdvance, RunsOnly
  PROVE  IInv' /\ StepKeeps
<1> USE DEF RunsOnly
<1>1. ASSUME NEW s \in Submissions
      PROVE  /\ cycles'[s] \in Seq(Cycle) /\ cycles[s] \in Seq(Cycle)
             /\ Len(cycles'[s]) = Len(cycles[s])
             /\ DOMAIN cycles'[s] = DOMAIN cycles[s]
             /\ \A i \in DOMAIN cycles[s] : Advances(cycles[s][i], cycles'[s][i])
  BY DEF CyclesAdvance, IInv, TypeOK
<1>2. TypeOK' /\ OneHolder' /\ HeldPayment' /\ StatusFollowsEvidence'
  BY DEF IInv, TypeOK, CyclesAdvance, OneHolder, HeldPayment, StatusFollowsEvidence
<1>3. OneLiveRun'
  BY <1>1 DEF IInv, OneLiveRun, Advances
<1>4. RunsEntitled'
  <2>1. ASSUME NEW s \in Submissions, NEW i \in DOMAIN cycles'[s]
        PROVE  /\ CycleInv(cycles'[s][i])
               /\ Live(cycles'[s][i]) => EntitledTo(s, cycles[s][i].input)'
    <3>1. Advances(cycles[s][i], cycles'[s][i])
      BY <1>1, <2>1
    <3>2. CASE Live(cycles'[s][i])
      <4>1. EntitledTo(s, cycles[s][i].input)
        BY <1>1, <2>1, <3>1, <3>2 DEF IInv, RunsEntitled, Advances
      <4>2. cycles'[s][i].input = cycles[s][i].input
        BY <3>1 DEF Advances
      <4> QED
        BY <3>1, <4>1, <4>2 DEF EntitledTo, Advances
    <3>3. CASE ~Live(cycles'[s][i])
      BY <3>1, <3>3 DEF Advances
    <3> QED
      BY <3>2, <3>3
  <2> QED
    BY <2>1 DEF RunsEntitled
<1>5. StepKeeps
  BY <1>1 DEF StepKeeps, CyclesAdvance, Advance
<1> QED
  BY <1>2, <1>3, <1>4, <1>5 DEF IInv

\* What the webhooks and an operator's repair leave when s alone is reconciled:
\* no other order is held by a payment that changed.
LEMMA ReconcileKeeps ==
  ASSUME IInv, NEW s \in Submissions, NEW o \in Order, ReconcileAs(s, o),
         payments' \in [Payments -> Payment \cup {None}],
         payments'[o.payment] \in Payment, payments'[o.payment].email # None,
         \A t \in Submissions \ {s} : orders[t] # None =>
           /\ orders[t].payment # o.payment
           /\ payments'[orders[t].payment] = payments[orders[t].payment],
         seen' \subseteq TallyEvents \cup StripeEvents, UNCHANGED edits
  PROVE  IInv' /\ StepKeeps
<1> DEFINE pay == payments'[o.payment]
           o2 == [o EXCEPT !.status = Verdict(o, pay)]
<1>1. /\ Advance(s)
      /\ Reconciled(s)
      /\ NewestOnly(cycles'[s])
      /\ \A i \in DOMAIN cycles'[s] : CycleInv(cycles'[s][i])
      /\ \A i \in DOMAIN cycles[s] : ~GetsReady(s, i)
      /\ orders' = [orders EXCEPT ![s] = o2]
      /\ \A t \in Submissions \ {s} : cycles'[t] = cycles[t]
      /\ cycles' \in [Submissions -> Seq(Cycle)]
      /\ unreconciled' = unreconciled \ {s}
  BY ReconcileAdvances
<1>2. orders'[s] = o2 /\ o2 \in Order /\ o2.payment = o.payment /\ o2 # None
        /\ \A t \in Submissions \ {s} : orders'[t] = orders[t]
  <2>1. o2 \in Order /\ o2 # None /\ o2.payment = o.payment
    BY VerdictOf, OrderFields, RowAssumption DEF Order
  <2> QED
    BY <1>1, <2>1 DEF IInv, TypeOK
<1> HIDE DEF o2
<1>3. TypeOK'
  BY <1>1, <1>2 DEF IInv, TypeOK
<1>4. OneHolder'
  BY <1>2 DEF IInv, OneHolder
<1>5. HeldPayment'
  BY <1>2 DEF IInv, HeldPayment
<1>6. StatusFollowsEvidence'
  BY <1>1, <1>2 DEF IInv, StatusFollowsEvidence, Reconciled
<1>7. OneLiveRun'
  BY <1>1 DEF IInv, OneLiveRun, NewestOnly
<1>8. RunsEntitled'
  <2>1. ASSUME NEW t \in Submissions, NEW i \in DOMAIN cycles'[t], t # s
        PROVE  CycleInv(cycles'[t][i]) /\ (Live(cycles'[t][i]) => EntitledTo(t, cycles[t][i].input)')
    <3>1. cycles'[t] = cycles[t] /\ orders'[t] = orders[t]
      BY <1>1, <1>2, <2>1
    <3>2. CycleInv(cycles[t][i]) /\ (Live(cycles[t][i]) => EntitledTo(t, cycles[t][i].input))
      BY <2>1, <3>1 DEF IInv, RunsEntitled
    <3>3. orders[t] # None => payments'[orders[t].payment] = payments[orders[t].payment]
      BY <2>1
    <3> QED
      BY <3>1, <3>2, <3>3 DEF EntitledTo
  <2> QED
    BY <1>1, <2>1 DEF RunsEntitled, Reconciled
<1>9. StepKeeps
  <2>1. ASSUME NEW t \in Submissions, t # s
        PROVE  Advance(t) /\ \A i \in DOMAIN cycles[t] : ~GetsReady(t, i)
    <3>1. cycles[t] \in Seq(Cycle) /\ \A i \in DOMAIN cycles[t] : cycles[t][i] \in Cycle /\ CycleInv(cycles[t][i])
      BY <2>1 DEF IInv, TypeOK, RunsEntitled
    <3> QED
      BY <1>1, <2>1, <3>1, StaysAdvances DEF Advance, GetsReady
  <2> QED
    BY <1>1, <2>1 DEF StepKeeps
<1> QED
  BY <1>3, <1>4, <1>5, <1>6, <1>7, <1>8, <1>9 DEF IInv

LEMMA TallyKeeps ==
  ASSUME IInv, NEW e \in TallyEvents, IngestTally(e)
  PROVE  IInv' /\ StepKeeps
<1> DEFINE p == e.payment
<1>1. /\ e.submission \in Submissions /\ p \in Payments /\ e.intake \in Intakes
      /\ EmailOf[e.intake] \in Emails /\ EmailOf[e.intake] # None
  BY EvidenceAssumption
<1>2. /\ payments' \in [Payments -> Payment \cup {None}]
      /\ payments'[p] \in Payment /\ payments'[p].email # None
      /\ \A q \in Payments \ {p} : payments'[q] = payments[q]
  <2>1. ReportPayment(e) /\ payments[p] \in Payment \cup {None}
    BY <1>1 DEF IngestTally, IInv, TypeOK
  <2>2. payments'[p] = IF payments[p] = None
          THEN [status |-> "reported_by_tally", right |-> FALSE, email |-> EmailOf[e.intake]]
          ELSE WithEmail(payments[p], EmailOf[e.intake])
    BY <1>1, <2>1 DEF ReportPayment, IInv, TypeOK
  <2>3. payments'[p] \in Payment /\ payments'[p].email # None
    <3>1. CASE payments[p] = None
      BY <1>1, <2>2, <3>1 DEF Payment
    <3>2. CASE payments[p] # None
      BY <1>1, <2>1, <2>2, <3>2 DEF Payment, WithEmail
    <3> QED
      BY <3>1, <3>2
  <2>4. DOMAIN payments' = Payments /\ \A q \in Payments \ {p} : payments'[q] = payments[q]
    BY <2>1 DEF ReportPayment, IInv, TypeOK
  <2>5. payments' = [q \in Payments |-> payments'[q]]
    BY <2>1 DEF ReportPayment, IInv, TypeOK
  <2> QED
    BY <2>3, <2>4, <2>5 DEF IInv, TypeOK
<1>3. ASSUME NEW t \in Submissions, orders[t] # None
      PROVE  payments'[orders[t].payment] = payments[orders[t].payment] /\ orders[t] \in Order
  <2>1. orders[t] \in Order /\ orders[t].payment \in Payments
    BY <1>3, OrderFields DEF IInv, TypeOK
  <2>2. CASE orders[t].payment = p
    <3>1. payments[p] \in Payment /\ payments[p].email # None /\ payments[p] # None
      BY <1>3, <2>2, RowAssumption DEF IInv, HeldPayment
    <3>2. payments'[p] = WithEmail(payments[p], EmailOf[e.intake])
      BY <1>1, <3>1 DEF IngestTally, ReportPayment, IInv, TypeOK
    <3> QED
      BY <2>1, <2>2, <3>1, <3>2 DEF WithEmail
  <2>3. CASE orders[t].payment # p
    BY <1>2, <2>1, <2>3
  <2> QED
    BY <2>1, <2>2, <2>3
<1>4. seen' \subseteq TallyEvents \cup StripeEvents /\ UNCHANGED edits
  BY DEF IngestTally, Log, IInv, TypeOK
<1> HIDE DEF p
<1>5. CASE NewSubmission(e)
  <2> DEFINE o == [payment |-> e.payment, status |-> "pending_payment",
                   conflict |-> FALSE, intake |-> e.intake]
  <2>1. o \in Order /\ o.payment = p
    BY <1>1 DEF Order, p
  <2>2. ReconcileAs(e.submission, o) /\ \A t \in Submissions : orders[t] # None => orders[t].payment # p
    BY <1>5 DEF NewSubmission, HoldersOf, p
  <2> HIDE DEF o
  <2> QED
    BY <1>1, <1>2, <1>3, <1>4, <2>1, <2>2, ReconcileKeeps
<1>6. CASE PaymentClaimedTwice(e)
  <2>1. PICK s \in Submissions :
          orders[s] # None /\ orders[s].payment = p /\ ReconcileAs(s, Conflicting(orders[s]))
    BY <1>6 DEF PaymentClaimedTwice, HoldersOf, p
  <2>2. Conflicting(orders[s]) \in Order /\ Conflicting(orders[s]).payment = p
    BY <1>3, <2>1, OrderFields DEF Conflicting, Order
  <2>3. \A t \in Submissions \ {s} : orders[t] # None => orders[t].payment # p
    BY <2>1 DEF IInv, OneHolder
  <2> QED
    BY <1>2, <1>3, <1>4, <2>1, <2>2, <2>3, ReconcileKeeps
<1>7. CASE SubmissionRepeated(e) \/ SubmissionWithOtherPayment(e)
  <2> DEFINE s == e.submission
  <2>1. PICK o \in {orders[s], Conflicting(orders[s])} : ReconcileAs(s, o)
    BY <1>7 DEF SubmissionRepeated, SubmissionWithOtherPayment
  <2>2. s \in Submissions /\ orders[s] # None /\ orders[s] \in Order
    BY <1>1, <1>3, <1>7 DEF SubmissionRepeated, SubmissionWithOtherPayment
  <2>3. o \in Order /\ o.payment = orders[s].payment
    <3>1. Conflicting(orders[s]) \in Order
      BY <2>2, OrderFields
    <3>2. Conflicting(orders[s]).payment = orders[s].payment
      BY <2>2 DEF Conflicting, Order
    <3> QED
      BY <2>1, <2>2, <3>1, <3>2
  <2>4. \A t \in Submissions \ {s} : orders[t] # None => orders[t].payment # o.payment
    BY <2>2, <2>3 DEF IInv, OneHolder
  <2>5. payments'[o.payment] \in Payment /\ payments'[o.payment].email # None
    BY <1>3, <2>2, <2>3 DEF IInv, HeldPayment
  <2> HIDE DEF s
  <2> QED
    BY <1>2, <1>3, <1>4, <2>1, <2>2, <2>3, <2>4, <2>5, ReconcileKeeps
<1> QED
  BY <1>5, <1>6, <1>7 DEF IngestTally

LEMMA StripeKeeps ==
  ASSUME IInv, NEW e \in StripeEvents, IngestStripe(e)
  PROVE  IInv' /\ StepKeeps
<1> DEFINE p == e.payment
<1>1. p \in Payments /\ e.right \in BOOLEAN /\ e.email \in Emails \cup {None}
  BY EvidenceAssumption
<1>2. payments'[p] = [status |-> "succeeded", right |-> e.right,
         email |-> IF e.email = None /\ payments[p] # None THEN payments[p].email ELSE e.email]
  BY <1>1 DEF IngestStripe, VerifyPayment, IInv, TypeOK
<1>3. payments'[p] \in Payment
  <2>1. payments[p] # None => payments[p].email \in Emails \cup {None}
    BY <1>1 DEF IInv, TypeOK, Payment
  <2> QED
    BY <1>1, <1>2, <2>1 DEF Payment
<1>4. \A q \in Payments \ {p} : payments'[q] = payments[q]
  BY DEF IngestStripe, VerifyPayment, IInv, TypeOK
<1>5. payments' \in [Payments -> Payment \cup {None}]
  <2>1. payments' = [q \in Payments |-> payments'[q]]
    BY DEF IngestStripe, VerifyPayment, IInv, TypeOK
  <2> QED
    BY <1>3, <1>4, <2>1 DEF IInv, TypeOK
<1>6. seen' \subseteq TallyEvents \cup StripeEvents /\ UNCHANGED edits
  BY DEF IngestStripe, Log, IInv, TypeOK
<1>7. \A t \in Submissions : orders[t] # None => orders[t] \in Order /\ orders[t].payment \in Payments
  BY OrderFields DEF IInv, TypeOK
<1>8. CASE HoldersOf(p) = {} /\ UNCHANGED <<orders, cycles, unreconciled>>
  <2>1. \A t \in Submissions : orders[t] # None => payments'[orders[t].payment] = payments[orders[t].payment]
    BY <1>4, <1>7, <1>8 DEF HoldersOf
  <2>2. TypeOK'
    BY <1>5, <1>6, <1>8 DEF IInv, TypeOK
  <2>3. OneHolder' /\ HeldPayment' /\ StatusFollowsEvidence' /\ OneLiveRun'
    BY <1>8, <2>1 DEF IInv, OneHolder, HeldPayment, StatusFollowsEvidence, OneLiveRun
  <2>4. RunsEntitled'
    BY <1>8, <2>1 DEF IInv, RunsEntitled, EntitledTo
  <2>5. StepKeeps
    BY <1>8, CyclesKept
  <2> QED
    BY <2>2, <2>3, <2>4, <2>5 DEF IInv
<1>9. CASE \E s \in HoldersOf(p) : ReconcileAs(s, orders[s])
  <2>1. PICK s \in Submissions : orders[s] # None /\ orders[s].payment = p /\ ReconcileAs(s, orders[s])
    BY <1>9 DEF HoldersOf
  <2>2. \A t \in Submissions \ {s} : orders[t] # None => orders[t].payment # p
    BY <2>1 DEF IInv, OneHolder
  <2>3. payments'[p].email # None
    BY <1>2, <2>1, RowAssumption DEF IInv, HeldPayment
  <2> HIDE DEF p
  <2> QED
    BY <1>3, <1>4, <1>5, <1>6, <1>7, <2>1, <2>2, <2>3, ReconcileKeeps
<1> QED
  BY <1>8, <1>9 DEF IngestStripe

LEMMA OperatorKeeps ==
  ASSUME IInv, NEW s \in Submissions, (\E i \in Intakes : EditIntake(s, i)) \/ Reconcile(s)
  PROVE  IInv' /\ StepKeeps
<1>1. orders[s] # None /\ orders[s] \in Order
  BY DEF EditIntake, Reconcile, IInv, TypeOK
<1>2. ASSUME NEW i \in Intakes, EditIntake(s, i) PROVE IInv' /\ StepKeeps
  <2> DEFINE o == [orders[s] EXCEPT !.intake = i]
  <2>1. o \in Order /\ o # None /\ o.payment = orders[s].payment
    <3>1. o \in Order /\ o # None
      BY <1>1, OrderFields, RowAssumption
    <3>2. o.payment = orders[s].payment
      BY <1>1 DEF Order
    <3> QED
      BY <3>1, <3>2
  <2>2. orders'[s] = o /\ \A t \in Submissions \ {s} : orders'[t] = orders[t]
    BY <1>2 DEF EditIntake, IInv, TypeOK
  <2>3. UNCHANGED <<seen, payments, cycles>> /\ unreconciled' = unreconciled \cup {s}
          /\ edits' \in 0 .. MaxEdits
    BY <1>2, LimitsAssumption DEF EditIntake, IInv, TypeOK
  <2>4. \A j \in Intakes : [o EXCEPT !.intake = j] = [orders[s] EXCEPT !.intake = j]
    BY <1>1 DEF Order
  <2>5. orders' \in [Submissions -> Order \cup {None}]
    BY <1>2, <2>1, <2>2 DEF EditIntake, IInv, TypeOK
  <2> HIDE DEF o
  <2>6. TypeOK'
    BY <2>3, <2>5 DEF IInv, TypeOK
  <2>7. OneHolder' /\ HeldPayment' /\ StatusFollowsEvidence' /\ OneLiveRun'
    BY <1>1, <2>1, <2>2, <2>3 DEF IInv, OneHolder, HeldPayment, StatusFollowsEvidence, OneLiveRun
  <2>8. ASSUME NEW t \in Submissions, NEW k \in DOMAIN cycles[t], Live(cycles[t][k])
        PROVE  EntitledTo(t, cycles[t][k].input)'
    <3>1. EntitledTo(t, cycles[t][k].input) /\ cycles[t][k].input \in Intakes
      <4>1. EntitledTo(t, cycles[t][k].input)
        BY <2>8 DEF IInv, RunsEntitled
      <4>2. cycles[t][k] \in Cycle
        BY <2>8 DEF IInv, TypeOK
      <4> QED
        BY <4>1, <4>2 DEF Cycle
    <3> QED
      BY <2>1, <2>2, <2>3, <2>4, <3>1 DEF EntitledTo
  <2>9. RunsEntitled'
    BY <2>3, <2>8 DEF IInv, RunsEntitled
  <2> QED
    BY <2>3, <2>6, <2>7, <2>9, CyclesKept DEF IInv
<1>3. CASE Reconcile(s)
  <2>1. ReconcileAs(s, orders[s]) /\ UNCHANGED <<payments, seen, edits>>
    BY <1>3 DEF Reconcile
  <2>2. \A t \in Submissions \ {s} : orders[t] # None => orders[t].payment # orders[s].payment
    BY <1>1 DEF IInv, OneHolder
  <2>3. payments'[orders[s].payment] \in Payment /\ payments'[orders[s].payment].email # None
    BY <1>1, <2>1 DEF IInv, HeldPayment
  <2>4. payments' \in [Payments -> Payment \cup {None}] /\ seen' \subseteq TallyEvents \cup StripeEvents
    BY <2>1 DEF IInv, TypeOK
  <2> QED
    BY <1>1, <2>1, <2>2, <2>3, <2>4, ReconcileKeeps
<1> QED
  BY <1>2, <1>3

LEMMA StepKeepsInv ==
  ASSUME IInv, Next
  PROVE  IInv' /\ StepKeeps
<1>1. CASE Worker \/ \E s \in Submissions : CompleteReview(s)
  BY <1>1, WorkAdvances, WorkKeeps
<1>2. CASE \E e \in TallyEvents \cup StripeEvents : RecordRejected(e)
  <2>1. UNCHANGED <<payments, orders, cycles, unreconciled, edits>>
          /\ seen' \subseteq TallyEvents \cup StripeEvents
    BY <1>2 DEF RecordRejected, Log, IInv, TypeOK
  <2> QED
    BY <2>1, CyclesKept DEF IInv, TypeOK, OneHolder, HeldPayment, StatusFollowsEvidence,
       OneLiveRun, RunsEntitled, EntitledTo
<1>3. CASE \E s \in Submissions : (\E i \in Intakes : EditIntake(s, i)) \/ Reconcile(s)
  BY <1>3, OperatorKeeps
<1> QED
  BY <1>1, <1>2, <1>3, TallyKeeps, StripeKeeps DEF Next, Ingress, Operator

LEMMA InitKeepsInv == Init => IInv
<1> SUFFICES ASSUME Init PROVE IInv
  OBVIOUS
<1>1. TypeOK
  BY LimitsAssumption DEF Init, TypeOK
<1> QED
  BY <1>1 DEF Init, IInv, OneHolder, HeldPayment, StatusFollowsEvidence, OneLiveRun, RunsEntitled

LEMMA Stutter == IInv /\ UNCHANGED vars => IInv'
BY DEF vars, IInv, TypeOK, OneHolder, HeldPayment, StatusFollowsEvidence, OneLiveRun,
   RunsEntitled, EntitledTo

\* Orders, cycles and the evidence keep together, whatever the order of the
\* webhooks, edits, claims and answers.
THEOREM RunsInvariant == Spec => []IInv
<1>1. IInv /\ [Next]_vars => IInv'
  BY StepKeepsInv, Stutter
<1> QED
  BY <1>1, InitKeepsInv, PTL DEF Spec

-----------------------------------------------------------------------------
(* Theorems                                                                 *)

\* The tables of ingress and fulfillment hold values of their columns, and no
\* run has more attempts than complete_preview_run and its like allow.
THEOREM RunsTyped == Spec => []TypeOK
BY RunsInvariant, PTL DEF IInv

\* An order has one live run at most, that of its newest cycle.
THEOREM OneRunIsLive == Spec => []OneLiveRun
BY RunsInvariant, PTL DEF IInv

\* After each transaction the status column says what the evidence says.
THEOREM StatusIsEvidence == Spec => []StatusFollowsEvidence
BY RunsInvariant, PTL DEF IInv

\* A live run for the intake the order has is entitled, also after an operator
\* has edited the intake away and back.
LEMMA EntitledNow ==
  ASSUME IInv, NEW s \in Submissions, NEW i \in DOMAIN cycles[s],
         Live(cycles[s][i]), cycles[s][i].input = orders[s].intake
  PROVE  EligibleNow(s)
<1>1. EntitledTo(s, orders[s].intake) /\ orders[s] \in Order
  BY DEF IInv, TypeOK, RunsEntitled, EntitledTo
<1>2. [orders[s] EXCEPT !.intake = orders[s].intake] = orders[s]
  BY <1>1 DEF Order
<1> QED
  BY <1>1, <1>2 DEF EntitledTo, EligibleNow

\* Claimed or waiting work on an order as it stands is paid for.
THEOREM LiveWorkIsPaid == Spec => []WorkIsPaid
<1>1. IInv => WorkIsPaid
  <2> SUFFICES ASSUME IInv, NEW r \in Runs, Live(Run(r)), CurrentInput(r)
               PROVE  Run(r).review = "open" /\ EligibleNow(r[1])
    BY DEF WorkIsPaid
  <2>1. PICK s \in Submissions : \E i \in DOMAIN cycles[s] : r = <<s, i>>
    BY RunsAre DEF IInv
  <2>2. PICK i \in DOMAIN cycles[s] : r = <<s, i>>
    BY <2>1
  <2>3. CycleInv(cycles[s][i]) /\ Live(cycles[s][i]) /\ cycles[s][i].input = orders[s].intake
    BY <2>2 DEF IInv, RunsEntitled, Run, CurrentInput, OrderOf
  <2> QED
    BY <2>2, <2>3, EntitledNow DEF CycleInv, Run
<1> QED
  BY <1>1, RunsInvariant, PTL

\* The artifact or reason of a run is its last lease's.
THEOREM AnswersAreFenced == Spec => []AnswerOfLastLease
<1>1. IInv => AnswerOfLastLease
  <2> SUFFICES ASSUME IInv, NEW r \in Runs
               PROVE  /\ Run(r).run \in {"preview_ready", "needs_editorial_input"}
                           => Run(r).answer = Run(r).attempts
                      /\ Run(r).answer \in {0, Run(r).attempts}
    BY DEF AnswerOfLastLease
  <2>1. PICK s \in Submissions : \E i \in DOMAIN cycles[s] : r = <<s, i>>
    BY RunsAre DEF IInv
  <2>2. PICK i \in DOMAIN cycles[s] : r = <<s, i>>
    BY <2>1
  <2>3. CycleInv(Run(r))
    BY <2>2 DEF IInv, RunsEntitled, Run
  <2> QED
    BY <2>3 DEF CycleInv
<1> QED
  BY <1>1, RunsInvariant, PTL

\* A step of the system, or none, leaves the rows as StepKeeps says.
LEMMA StepsKeep == ASSUME IInv, [Next]_vars PROVE StepKeeps
<1>1. CASE UNCHANGED vars
  BY <1>1, CyclesKept DEF vars
<1> QED
  BY <1>1, StepKeepsInv

\* Runs are historical evidence: none disappears or is taken back, and a lease
\* that lasts is not given away.
THEOREM RunsAreEvidence == Spec => RunsMoveForward
<1> DEFINE Forward(r) ==
      /\ r \in Runs'
      /\ ~Live(Run(r)) => Run(r)' = [Run(r) EXCEPT !.review = Run(r)'.review]
      /\ Run(r).material # None => Run(r)'.material = Run(r).material
      /\ Run(r)'.attempts > Run(r).attempts
           => /\ Run(r).run = "queued" \/ Run(r).lapsed
              /\ Run(r)'.attempts <= MaxAttempts
<1>1. ASSUME IInv, IInv', [Next]_vars PROVE \A r \in Runs : Forward(r)
  <2> SUFFICES ASSUME NEW r \in Runs PROVE Forward(r)
    OBVIOUS
  <2>1. PICK s \in Submissions : \E i \in DOMAIN cycles[s] : r = <<s, i>>
    BY <1>1, RunsAre DEF IInv
  <2>2. PICK i \in DOMAIN cycles[s] : r = <<s, i>>
    BY <2>1
  <2>3. Advance(s)
    BY <1>1, StepsKeep DEF StepKeeps
  <2>4. Run(r) = cycles[s][i] /\ Run(r)' = cycles'[s][i]
    BY <2>2 DEF Run
  <2>5. i \in DOMAIN cycles'[s]
    BY <1>1, <2>3 DEF Advance, IInv, TypeOK
  <2>6. r \in Runs'
    BY <2>2, <2>5 DEF Runs
  <2>7. Run(r)'.attempts <= MaxAttempts
    <3>1. s \in Submissions /\ cycles' \in [Submissions -> Seq(Cycle)] /\ MaxAttempts \in Nat
      BY <1>1, LimitsAssumption DEF IInv, TypeOK
    <3>2. cycles'[s][i] \in Cycle
      BY <2>5, <3>1
    <3> QED
      BY <2>4, <3>1, <3>2 DEF Cycle
  <2> QED
    BY <2>3, <2>4, <2>6, <2>7 DEF Advance, Advances
<1>2. IInv /\ IInv' /\ [Next]_vars => [\A r \in Runs : Forward(r)]_vars
  BY <1>1
<1> QED
  BY <1>2, RunsInvariant, PTL DEF Spec, RunsMoveForward

\* A preview is accepted only for an order that is eligible for it there and
\* then, although complete_preview_run reads the status column alone.
THEOREM PreviewsAreEligible == Spec => ReadyIsEligible
<1> DEFINE Eligible(r) == Run(r).run # "preview_ready" /\ Run(r)'.run = "preview_ready"
                            => CurrentInput(r)' /\ EligibleNow(r[1])'
<1>1. ASSUME IInv, IInv', [Next]_vars PROVE \A r \in Runs : Eligible(r)
  <2> SUFFICES ASSUME NEW r \in Runs, Run(r).run # "preview_ready", Run(r)'.run = "preview_ready"
               PROVE  CurrentInput(r)' /\ EligibleNow(r[1])'
    OBVIOUS
  <2>1. PICK s \in Submissions : \E i \in DOMAIN cycles[s] : r = <<s, i>>
    BY <1>1, RunsAre DEF IInv
  <2>2. PICK i \in DOMAIN cycles[s] : r = <<s, i>>
    BY <2>1
  <2>3. GetsReady(s, i)
    BY <2>2 DEF GetsReady, Run
  <2>4. /\ Live(cycles[s][i]) /\ cycles[s][i].input = orders[s].intake
        /\ UNCHANGED <<orders, payments>>
        /\ cycles'[s][i].input = cycles[s][i].input
    BY <1>1, <2>3, StepsKeep DEF StepKeeps, Advance, Advances
  <2>5. EligibleNow(s)
    BY <1>1, <2>4, EntitledNow
  <2> QED
    BY <2>2, <2>4, <2>5 DEF CurrentInput, Run, OrderOf, EligibleNow
<1>2. IInv /\ IInv' /\ [Next]_vars => [\A r \in Runs : Eligible(r)]_vars
  BY <1>1
<1> QED
  BY <1>2, RunsInvariant, PTL DEF Spec, ReadyIsEligible
=============================================================================

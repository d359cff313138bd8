------------------------- MODULE CustomerFlowProofs -------------------------
(***************************************************************************)
(* Theorems about the customer's side of CustomerFlow.  The promises to a  *)
(* customer outlast the requests that made them, so the proof has two      *)
(* parts: no step takes anything back (Grows), and what a request holds    *)
(* between two awaits is still true of the stores when it is used          *)
(* (CheckoutInHand, DeliveryInHand).                                       *)
(***************************************************************************)
EXTENDS CustomerFlow, FiniteSetTheorems, TLAPS

Job == [intake : Intakes, checkout : Sessions \cup {None}, intent : Intents \cup {None}]

PaymentFact == [intent : Intents, session : Sessions, job : Jobs]

CanonicalJob == [state : {"awaiting_payment", "generation_queued"} \cup PaidStates,
                 event : EventIds \cup {None}, intent : Intents \cup {None}]

CheckoutContext == [pc : {"idle", "joining", "waiting", "opening", "binding"},
                    job : Jobs \cup {None}, session : Sessions \cup {None}]

DeliveryContext == [pc : {"idle", "recording", "updating", "storing", "refused"},
                    id : EventIds \cup {None}, payment : PaymentFact \cup {None}]

FlowType ==
  /\ jobs \in [Jobs -> Job \cup {None}]
  /\ submissions \in [Keys -> Jobs \cup {None}]
  /\ providerEvents \in [EventIds -> PaymentFact \cup {None}]
  /\ configured \in BOOLEAN
  /\ canonical \in [Jobs -> CanonicalJob \cup {None}]
  /\ gateway \in [Jobs -> Sessions \cup {None}]
  /\ owner \in [Sessions -> Jobs \cup {None}]
  /\ issued \in [EventIds -> PaymentFact \cup {None}]
  /\ submit \in [Submitters -> Jobs \cup {None}]
  /\ checkout \in [Customers -> CheckoutContext]
  /\ delivery \in [Deliverers -> DeliveryContext]
  /\ tokens \subseteq Jobs
  /\ told \in [Jobs -> SUBSET Sessions]
  /\ faults \in Nat

\* What an intake or a replay of it goes on with has been stored.
IntakesStored ==
  /\ \A key \in Keys : submissions[key] # None => jobs[submissions[key]] # None
  /\ \A r \in Submitters : submit[r] # None => jobs[submit[r]] # None

CheckoutInHand(r) ==
  /\ checkout[r].pc # "idle" => checkout[r].job \in tokens
  /\ checkout[r].pc = "binding" => checkout[r].session \in Sessions

ToldHoldTokens == \A j \in Jobs : told[j] # {} => j \in tokens

SessionsOf(j) == {s \in Sessions : owner[s] = j}

\* The gateway's key of a job holds one of the job's sessions, and a job has
\* more sessions than held keys only by faults.
KeysHeld ==
  \A j \in Jobs :
    /\ gateway[j] # None => owner[gateway[j]] = j
    /\ IsFiniteSet(SessionsOf(j))
    /\ Cardinality(SessionsOf(j)) <= faults + (IF gateway[j] = None THEN 0 ELSE 1)

StorePaid(p) == jobs[p.job] # None /\ jobs[p.job].intent = p.intent

CanonicalPaid(p) ==
  /\ canonical[p.job] # None
  /\ canonical[p.job].state # "awaiting_payment"
  /\ canonical[p.job].intent = p.intent

\* What a delivery of a payment event has done before its next step.
DeliveryInHand(d) ==
  LET p == delivery[d].payment IN
  delivery[d].pc \in {"recording", "updating", "storing"} =>
    /\ delivery[d].id \in EventIds
    /\ p \in PaymentFact
    /\ jobs[p.job] # None
    /\ delivery[d].pc # "recording" /\ configured => CanonicalPaid(p)
    /\ delivery[d].pc = "storing" => StorePaid(p)

EventsPaid ==
  \A id \in EventIds : providerEvents[id] # None =>
    StorePaid(providerEvents[id]) /\ (configured => CanonicalPaid(providerEvents[id]))

FlowInv ==
  /\ FlowType
  /\ IntakesStored
  /\ TokensHaveJobs
  /\ \A r \in Customers : CheckoutInHand(r)
  /\ ToldHoldTokens
  /\ ToldSessionIsBound
  /\ KeysHeld
  /\ \A d \in Deliverers : DeliveryInHand(d)
  /\ EventsPaid

-----------------------------------------------------------------------------
(* Nothing is taken back                                                    *)

JobGrows(j) ==
  jobs[j] # None =>
    /\ jobs'[j] # None
    /\ jobs[j].checkout # None => jobs'[j].checkout = jobs[j].checkout
    /\ jobs[j].intent # None => jobs'[j].intent = jobs[j].intent

CanonicalGrows(j) ==
  canonical[j] # None =>
    /\ canonical'[j] # None
    /\ canonical[j].state # "awaiting_payment" =>
         /\ canonical'[j].state # "awaiting_payment"
         /\ canonical'[j].intent = canonical[j].intent

Grows ==
  /\ \A j \in Jobs : JobGrows(j) /\ CanonicalGrows(j)
  /\ tokens \subseteq tokens'
  /\ configured' = configured

LEMMA JobRecords ==
  /\ None \notin Job /\ None \notin CanonicalJob
  /\ \A job \in Job :
       /\ job.checkout \in Sessions \cup {None} /\ job.intent \in Intents \cup {None}
       /\ \A s \in Sessions : [job EXCEPT !.checkout = s] \in Job
       /\ \A i \in Intents : [job EXCEPT !.intent = i] \in Job
BY CustomerAssumption DEF Job, CanonicalJob

\* Steps that leave a part of the state keep what the invariant says of it,
\* because what it rests on only grows.
LEMMA Kept ==
  ASSUME FlowInv, Grows
  PROVE  /\ UNCHANGED <<submissions, submit>> => IntakesStored'
         /\ UNCHANGED tokens => TokensHaveJobs'
         /\ \A r \in Customers : UNCHANGED checkout[r] => CheckoutInHand(r)'
         /\ UNCHANGED told => ToldHoldTokens' /\ ToldSessionIsBound'
         /\ \A d \in Deliverers : UNCHANGED delivery[d] => DeliveryInHand(d)'
         /\ UNCHANGED providerEvents => EventsPaid'
<1> USE DEF FlowInv, Grows
<1>1. UNCHANGED <<submissions, submit>> => IntakesStored'
  BY DEF FlowType, IntakesStored, JobGrows
<1>2. UNCHANGED tokens => TokensHaveJobs'
  BY DEF FlowType, TokensHaveJobs, JobGrows, CanonicalGrows
<1>3. \A r \in Customers : UNCHANGED checkout[r] => CheckoutInHand(r)'
  BY DEF FlowType, CheckoutInHand
<1>4. ASSUME UNCHANGED told PROVE ToldHoldTokens' /\ ToldSessionIsBound'
  <2>1. ToldHoldTokens'
    BY <1>4 DEF ToldHoldTokens
  <2>2. ASSUME NEW j \in Jobs, NEW s \in told[j] PROVE jobs'[j].checkout = s
    <3>1. jobs[j].checkout = s /\ s # None /\ j \in tokens
      BY <2>2, CustomerAssumption DEF FlowType, ToldSessionIsBound, ToldHoldTokens
    <3> QED
      BY <3>1 DEF TokensHaveJobs, JobGrows
  <2> QED
    BY <1>4, <2>1, <2>2 DEF ToldSessionIsBound
<1>5. ASSUME NEW p \in PaymentFact
      PROVE  /\ StorePaid(p) => StorePaid(p)'
             /\ CanonicalPaid(p) => CanonicalPaid(p)'
             /\ jobs[p.job] # None => jobs'[p.job] # None
  BY <1>5, CustomerAssumption DEF PaymentFact, StorePaid, CanonicalPaid, JobGrows, CanonicalGrows
<1>6. ASSUME NEW d \in Deliverers, UNCHANGED delivery[d] PROVE DeliveryInHand(d)'
  <2>1. DeliveryInHand(d)
    OBVIOUS
  <2> QED
    BY <1>5, <1>6, <2>1 DEF DeliveryInHand, StorePaid, CanonicalPaid
<1>7. UNCHANGED providerEvents => EventsPaid'
  BY <1>5 DEF FlowType, EventsPaid, StorePaid, CanonicalPaid
<1> QED
  BY <1>1, <1>2, <1>3, <1>4, <1>6, <1>7

\* Nothing grows when the stores stay.
LEMMA StoresStay ==
  ASSUME UNCHANGED <<jobs, canonical, configured>>, tokens \subseteq tokens'
  PROVE  Grows
BY DEF Grows, JobGrows, CanonicalGrows

LEMMA KeysStay ==
  ASSUME FlowInv, UNCHANGED <<gateway, owner>>, faults' \in Nat, faults <= faults'
  PROVE  KeysHeld'
<1>1. \A j \in Jobs : SessionsOf(j)' = SessionsOf(j)
  BY DEF SessionsOf
<1>2. \A j \in Jobs : Cardinality(SessionsOf(j)) \in Nat
  BY FS_CardinalityType DEF FlowInv, KeysHeld
<1> HIDE DEF SessionsOf
<1> QED
  BY <1>1, <1>2 DEF FlowInv, FlowType, KeysHeld

LEMMA FaultCounts ==
  ASSUME FlowInv, Fault \/ UNCHANGED faults
  PROVE  faults' \in Nat /\ faults <= faults'
BY DEF Fault, FlowInv, FlowType

-----------------------------------------------------------------------------
(* submitIntake                                                             *)

LEMMA SubmitNewKeeps ==
  ASSUME FlowInv, NEW r \in Submitters, SubmitNew(r)
  PROVE  FlowInv' /\ Grows
<1>1. PICK key \in Keys \cup {None}, intake \in Intakes, j \in Jobs :
        /\ jobs[j] = None
        /\ jobs' = [jobs EXCEPT ![j] = [intake |-> intake, checkout |-> None, intent |-> None]]
        /\ submissions' = [k \in Keys |-> IF k = key THEN j ELSE submissions[k]]
        /\ Stored(r, j)
  BY DEF SubmitNew
<1>2. UNCHANGED <<providerEvents, pending, configured, canonical, outside, checkout,
                  delivery, told, faults>>
  BY DEF SubmitNew
<1> USE <1>2 DEF FlowInv, FlowType, outside
<1>3. [intake |-> intake, checkout |-> None, intent |-> None] \in Job
  BY DEF Job
<1>4. jobs'[j] \in Job /\ jobs'[j] # None /\ \A i \in Jobs \ {j} : jobs'[i] = jobs[i]
  BY <1>1, <1>3, JobRecords
<1>5. jobs' \in [Jobs -> Job \cup {None}] /\ submissions' \in [Keys -> Jobs \cup {None}]
  BY <1>1, <1>3
<1>6. /\ submit' \in [Submitters -> Jobs \cup {None}]
      /\ tokens \subseteq tokens' /\ tokens' \subseteq tokens \cup {j}
      /\ \A q \in Submitters : submit'[q] \in {submit[q], j}
      /\ configured => tokens' = tokens
  BY <1>1 DEF Stored
<1>7. Grows
  BY <1>1, <1>4, <1>6 DEF Grows, JobGrows, CanonicalGrows
<1>8. IntakesStored'
  BY <1>1, <1>4, <1>6 DEF IntakesStored
<1>9. TokensHaveJobs'
  BY <1>4, <1>6 DEF TokensHaveJobs
<1>10. FlowType'
  BY <1>5, <1>6
<1>11. KeysHeld'
  BY KeysStay
<1> QED
  BY <1>7, <1>8, <1>9, <1>10, <1>11, Kept

LEMMA SubmitAgainKeeps ==
  ASSUME FlowInv, NEW r \in Submitters, SubmitAgain(r)
  PROVE  FlowInv'
<1>1. PICK key \in Keys, intake \in Intakes :
        /\ submissions[key] # None
        /\ Stored(r, submissions[key]) \/ UNCHANGED <<submit, tokens>>
  BY DEF SubmitAgain
<1>2. UNCHANGED <<store, configured, canonical, outside, checkout, delivery, told, faults>>
  BY DEF SubmitAgain
<1> DEFINE j == submissions[key]
<1> USE <1>2 DEF FlowInv, FlowType, outside, store
<1>3. j \in Jobs /\ jobs[j] # None
  BY <1>1 DEF IntakesStored
<1>4. Stored(r, j) \/ UNCHANGED <<submit, tokens>>
  BY <1>1
<1> HIDE DEF j
<1>5. /\ submit' \in [Submitters -> Jobs \cup {None}]
      /\ tokens \subseteq tokens' /\ tokens' \subseteq tokens \cup {j}
      /\ \A q \in Submitters : submit'[q] \in {submit[q], j}
      /\ configured => tokens' = tokens
  BY <1>3, <1>4 DEF Stored
<1>6. Grows
  BY <1>5, StoresStay
<1>7. IntakesStored'
  BY <1>3, <1>5 DEF IntakesStored
<1>8. TokensHaveJobs'
  BY <1>3, <1>5 DEF TokensHaveJobs
<1>9. FlowType'
  BY <1>3, <1>5
<1>10. KeysHeld'
  BY KeysStay
<1> QED
  BY <1>6, <1>7, <1>8, <1>9, <1>10, Kept

LEMMA CreateCanonicalKeeps ==
  ASSUME FlowInv, NEW r \in Submitters, CreateCanonical(r)
  PROVE  FlowInv' /\ Grows
<1> DEFINE j == submit[r]
           new == [state |-> "awaiting_payment", event |-> None, intent |-> None]
<1> USE DEF FlowInv, FlowType, outside, store
<1>1. /\ j \in Jobs /\ jobs[j] # None
      /\ submit' = [submit EXCEPT ![r] = None]
      /\ UNCHANGED <<store, configured, outside, checkout, delivery, told>>
  BY DEF CreateCanonical, IntakesStored
<1>2. new \in CanonicalJob /\ new # None
  BY JobRecords DEF CanonicalJob
<1>3. \/ Created(j) /\ tokens' = tokens \cup {j} /\ UNCHANGED faults
      \/ UNCHANGED <<canonical, tokens>> /\ Fault
      \/ Created(j) /\ UNCHANGED tokens /\ Fault
  BY DEF CreateCanonical
<1>4. /\ canonical' \in [Jobs -> CanonicalJob \cup {None}]
      /\ Created(j) => canonical'[j] # None
      /\ \A i \in Jobs : canonical[i] # None => canonical'[i] = canonical[i]
  BY <1>1, <1>2, <1>3 DEF Created
<1>5. tokens \subseteq tokens' /\ tokens' \subseteq Jobs
        /\ \A i \in tokens' : i \in tokens \/ (i = j /\ canonical'[i] # None)
  BY <1>1, <1>3, <1>4
<1>6. faults' \in Nat /\ faults <= faults'
  BY <1>3, FaultCounts
<1> HIDE DEF j, new
<1>7. Grows
  BY <1>1, <1>4, <1>5 DEF Grows, JobGrows, CanonicalGrows
<1>8. IntakesStored'
  BY <1>1 DEF IntakesStored
<1>9. TokensHaveJobs'
  BY <1>1, <1>4, <1>5 DEF TokensHaveJobs
<1>10. FlowType'
  BY <1>1, <1>4, <1>5, <1>6
<1>11. KeysHeld'
  BY <1>1, <1>6, KeysStay
<1> QED
  BY <1>1, <1>7, <1>8, <1>9, <1>10, <1>11, Kept

-----------------------------------------------------------------------------
(* createCheckout                                                           *)

\* A request that goes on has its job's token in hand, and later its session.
LEMMA CheckoutGoesOn ==
  ASSUME FlowInv, NEW r \in Customers, NEW context \in CheckoutContext,
         checkout' = [checkout EXCEPT ![r] = context], tokens' = tokens,
         context.pc # "idle" => context.job \in tokens,
         context.pc = "binding" => context.session \in Sessions
  PROVE  /\ checkout' \in [Customers -> CheckoutContext]
         /\ \A q \in Customers : CheckoutInHand(q)'
<1>1. checkout'[r] = context /\ \A q \in Customers \ {r} : checkout'[q] = checkout[q]
  BY DEF FlowInv, FlowType
<1>2. \A q \in Customers : CheckoutInHand(q)'
  BY <1>1 DEF FlowInv, CheckoutInHand
<1> QED
  BY <1>2 DEF FlowInv, FlowType

LEMMA AskCheckoutKeeps ==
  ASSUME FlowInv, NEW r \in Customers, AskCheckout(r)
  PROVE  FlowInv'
<1> USE DEF FlowInv, FlowType, outside, store
<1>1. UNCHANGED <<store, configured, canonical, outside, submit, delivery, tokens, faults>>
        /\ checkout[r].pc = "idle"
  BY DEF AskCheckout
<1>2. PICK j \in tokens :
        IF jobs[j].checkout # None
          THEN told' = [told EXCEPT ![j] = @ \cup {jobs[j].checkout}] /\ UNCHANGED checkout
          ELSE /\ checkout' = [checkout EXCEPT ![r].pc = "joining", ![r].job = j]
               /\ UNCHANGED told
  BY DEF AskCheckout
<1>3. jobs[j] \in Job /\ j \in Jobs
  BY DEF TokensHaveJobs
<1>4. Grows /\ KeysHeld'
  BY <1>1, StoresStay, KeysStay
<1>5. CASE jobs[j].checkout # None
  <2>1. jobs[j].checkout \in Sessions
    BY <1>3, <1>5, JobRecords
  <2>2. told' = [told EXCEPT ![j] = @ \cup {jobs[j].checkout}] /\ UNCHANGED checkout
    BY <1>2, <1>5
  <2>3. FlowType'
    BY <1>1, <1>3, <2>1, <2>2
  <2>4. ToldHoldTokens' /\ ToldSessionIsBound'
    BY <1>1, <1>3, <2>2 DEF ToldHoldTokens, ToldSessionIsBound
  <2> QED
    BY <1>1, <1>4, <2>2, <2>3, <2>4, Kept
<1>6. CASE jobs[j].checkout = None
  <2>1. checkout' = [checkout EXCEPT ![r].pc = "joining", ![r].job = j] /\ UNCHANGED told
    BY <1>2, <1>6
  <2> DEFINE context == [checkout[r] EXCEPT !.pc = "joining", !.job = j]
  <2>2. checkout' = [checkout EXCEPT ![r] = context]
    BY <2>1
  <2>3. context \in CheckoutContext /\ context.pc = "joining" /\ context.job = j
    BY <1>3 DEF CheckoutContext
  <2>4. checkout' \in [Customers -> CheckoutContext] /\ \A q \in Customers : CheckoutInHand(q)'
    BY <1>1, <2>2, <2>3, CheckoutGoesOn
  <2>5. FlowType'
    BY <1>1, <2>1, <2>4
  <2> QED
    BY <1>1, <1>4, <2>1, <2>4, <2>5, Kept
<1> QED
  BY <1>5, <1>6

LEMMA JoinCheckoutKeeps ==
  ASSUME FlowInv, NEW r \in Customers, JoinCheckout(r)
  PROVE  FlowInv'
<1> USE DEF FlowInv, FlowType, outside
<1>1. /\ checkout[r].pc = "joining"
      /\ UNCHANGED <<jobs, submissions, providerEvents, configured, canonical, outside, submit,
                     delivery, tokens, told, faults>>
      /\ \E pc \in {"waiting", "opening"} : checkout' = [checkout EXCEPT ![r].pc = pc]
  BY DEF JoinCheckout
<1>2. PICK pc \in {"waiting", "opening"} :
        checkout' = [checkout EXCEPT ![r] = [checkout[r] EXCEPT !.pc = pc]]
  BY <1>1
<1> DEFINE context == [checkout[r] EXCEPT !.pc = pc]
<1>3. context \in CheckoutContext /\ context.pc = pc /\ context.job = checkout[r].job
  BY DEF CheckoutContext
<1>4. checkout[r].job \in tokens
  BY <1>1 DEF CheckoutInHand
<1>5. checkout' \in [Customers -> CheckoutContext] /\ \A q \in Customers : CheckoutInHand(q)'
  BY <1>1, <1>2, <1>3, <1>4, CheckoutGoesOn
<1>6. FlowType'
  BY <1>1, <1>5
<1>7. Grows /\ KeysHeld'
  BY <1>1, StoresStay, KeysStay
<1> QED
  BY <1>1, <1>5, <1>6, <1>7, Kept

\* The requests an operation ends forget what they had in hand.
LEMMA EndsIdle ==
  ASSUME FlowInv, NEW r \in Customers, EndOperation(r), tokens' = tokens
  PROVE  /\ checkout' \in [Customers -> CheckoutContext]
         /\ \A q \in Customers : CheckoutInHand(q)'
<1>1. \A q \in Customers :
        /\ Idle(q) \in CheckoutContext
        /\ Idle(q).pc = "idle"
  BY DEF FlowInv, FlowType, Idle, CheckoutContext
<1>2. \A q \in Customers : checkout'[q] = Idle(q) \/ checkout'[q] = checkout[q]
  BY DEF EndOperation
<1>3. checkout' = [q \in Customers |-> checkout'[q]]
  BY DEF EndOperation
<1>4. checkout' \in [Customers -> CheckoutContext]
  <2>1. \A q \in Customers : checkout'[q] \in CheckoutContext
    BY <1>1, <1>2 DEF FlowInv, FlowType
  <2> QED
    BY <1>3, <2>1
<1>5. \A q \in Customers : CheckoutInHand(q)'
  BY <1>1, <1>2 DEF FlowInv, CheckoutInHand
<1> QED
  BY <1>4, <1>5

\* A new session is the key's first, or follows a fault.
LEMMA SessionOpens ==
  ASSUME FlowInv, NEW j \in Jobs, NEW s \in Sessions,
         IF gateway[j] # None THEN s = gateway[j] ELSE owner[s] = None,
         gateway' = [gateway EXCEPT ![j] = s], owner' = [owner EXCEPT ![s] = j],
         faults' \in Nat, faults <= faults'
  PROVE  KeysHeld'
<1> USE DEF FlowInv, FlowType
<1>1. s # None /\ j # None
  BY CustomerAssumption
<1>2. gateway'[j] = s /\ owner'[s] = j
      /\ (\A i \in Jobs \ {j} : gateway'[i] = gateway[i])
      /\ (\A t \in Sessions \ {s} : owner'[t] = owner[t])
  OBVIOUS
<1>3. \A i \in Jobs : IsFiniteSet(SessionsOf(i)) /\ Cardinality(SessionsOf(i)) \in Nat
  BY FS_CardinalityType DEF KeysHeld
<1>4. \A i \in Jobs \ {j} : SessionsOf(i)' = SessionsOf(i)
  <2>1. owner[s] \in {None, j}
    BY <1>1 DEF KeysHeld
  <2> QED
    BY <1>1, <1>2, <2>1, CustomerAssumption DEF SessionsOf
<1>5. SessionsOf(j)' = SessionsOf(j) \cup {s}
  BY <1>2 DEF SessionsOf
<1>6. \A i \in Jobs \ {j} :
        /\ gateway'[i] # None => owner'[gateway'[i]] = i
        /\ IsFiniteSet(SessionsOf(i)')
        /\ Cardinality(SessionsOf(i)') <= faults' + (IF gateway'[i] = None THEN 0 ELSE 1)
  <2> TAKE i \in Jobs \ {j}
  <2>1. gateway'[i] # None => gateway[i] # s \/ owner[s] = i
    BY DEF KeysHeld
  <2>2. owner[s] \in {None, j}
    BY <1>1 DEF KeysHeld
  <2>3. gateway'[i] # None => gateway[i] # s
    BY <1>2, <2>1, <2>2, CustomerAssumption
  <2>4. gateway'[i] # None => owner'[gateway'[i]] = i
    BY <1>2, <2>3 DEF KeysHeld
  <2>5. Cardinality(SessionsOf(i)) <= faults + (IF gateway'[i] = None THEN 0 ELSE 1)
    BY <1>2 DEF KeysHeld
  <2> HIDE DEF SessionsOf
  <2> QED
    BY <1>3, <1>4, <2>4, <2>5
<1>7. IsFiniteSet(SessionsOf(j)') /\ Cardinality(SessionsOf(j)') <= faults' + 1
  <2>1. CASE gateway[j] # None
    <3>1. SessionsOf(j)' = SessionsOf(j)
      <4>1. s \in SessionsOf(j)
        BY <2>1 DEF KeysHeld, SessionsOf
      <4> HIDE DEF SessionsOf
      <4> QED
        BY <1>5, <4>1
    <3>2. Cardinality(SessionsOf(j)) <= faults + 1
      BY <2>1 DEF KeysHeld
    <3> QED
      BY <1>3, <3>1, <3>2
  <2>2. CASE gateway[j] = None
    <3>1. s \notin SessionsOf(j)
      BY <1>1, <2>2 DEF SessionsOf
    <3>2. /\ IsFiniteSet(SessionsOf(j) \cup {s})
          /\ Cardinality(SessionsOf(j) \cup {s}) = Cardinality(SessionsOf(j)) + 1
      BY <1>3, <3>1, FS_AddElement
    <3>3. Cardinality(SessionsOf(j)) <= faults
      BY <1>3, <2>2 DEF KeysHeld
    <3> QED
      BY <1>3, <1>5, <3>2, <3>3
  <2> QED
    BY <2>1, <2>2
<1>8. \A i \in Jobs :
        /\ gateway'[i] # None => owner'[gateway'[i]] = i
        /\ IsFiniteSet(SessionsOf(i)')
        /\ Cardinality(SessionsOf(i)') <= faults' + (IF gateway'[i] = None THEN 0 ELSE 1)
  BY <1>1, <1>2, <1>6, <1>7
<1> QED
  BY <1>8 DEF KeysHeld

LEMMA OpenSessionKeeps ==
  ASSUME FlowInv, NEW r \in Customers, OpenSession(r)
  PROVE  FlowInv'
<1> DEFINE j == checkout[r].job
<1> USE DEF FlowInv, FlowType
<1>1. /\ checkout[r].pc = "opening" /\ j \in tokens /\ j \in Jobs
      /\ UNCHANGED <<jobs, submissions, providerEvents, configured, canonical, issued, submit,
                     delivery, tokens, told>>
  BY DEF OpenSession, CheckoutInHand
<1>2. ASSUME EndFailed(r), Fault
      PROVE  /\ checkout' \in [Customers -> CheckoutContext]
             /\ \A q \in Customers : CheckoutInHand(q)'
             /\ faults' \in Nat /\ faults <= faults'
  <2>1. EndOperation(r)
    BY <1>2 DEF EndFailed
  <2> QED
    BY <1>1, <1>2, <2>1, EndsIdle, FaultCounts
<1>3. CASE EndFailed(r) /\ Fault /\ UNCHANGED <<gateway, owner>>
  <2>1. Grows /\ KeysHeld'
    BY <1>1, <1>2, <1>3, StoresStay, KeysStay
  <2>2. FlowType'
    BY <1>1, <1>2, <1>3
  <2> QED
    BY <1>1, <1>2, <1>3, <2>1, <2>2, Kept
<1>4. ASSUME NEW s \in Sessions,
             IF GatewayHolds(j) # None THEN s = GatewayHolds(j) ELSE owner[s] = None,
             gateway' = [gateway EXCEPT ![j] = s], owner' = [owner EXCEPT ![s] = j],
             \/ /\ checkout' = [checkout EXCEPT ![r].pc = "binding", ![r].session = s]
                /\ UNCHANGED faults
             \/ Fault /\ EndFailed(r)
      PROVE  FlowInv'
  <2>1. /\ checkout' \in [Customers -> CheckoutContext]
        /\ \A q \in Customers : CheckoutInHand(q)'
        /\ faults' \in Nat /\ faults <= faults'
    <3>1. CASE checkout' = [checkout EXCEPT ![r].pc = "binding", ![r].session = s] /\ UNCHANGED faults
      <4> DEFINE context == [checkout[r] EXCEPT !.pc = "binding", !.session = s]
      <4>1. checkout' = [checkout EXCEPT ![r] = context]
        BY <3>1
      <4>2. /\ context \in CheckoutContext /\ context.pc = "binding"
            /\ context.job = j /\ context.session = s
        BY <1>4 DEF CheckoutContext
      <4>3. faults' \in Nat /\ faults <= faults'
        BY <3>1
      <4> HIDE DEF context, j
      <4>4. checkout' \in [Customers -> CheckoutContext] /\ \A q \in Customers : CheckoutInHand(q)'
        BY <1>1, <1>4, <4>1, <4>2, CheckoutGoesOn
      <4> QED
        BY <4>3, <4>4
    <3> QED
      BY <1>2, <1>4, <3>1
  <2> HIDE DEF j
  <2>2. KeysHeld'
    BY <1>1, <1>4, <2>1, SessionOpens DEF GatewayHolds
  <2>3. FlowType'
    BY <1>1, <1>4, <2>1
  <2>4. Grows
    BY <1>1, StoresStay
  <2> QED
    BY <1>1, <2>1, <2>2, <2>3, <2>4, Kept
<1> QED
  BY <1>3, <1>4 DEF OpenSession

LEMMA BindSessionKeeps ==
  ASSUME FlowInv, NEW r \in Customers, BindSession(r)
  PROVE  FlowInv' /\ Grows
<1> DEFINE j == checkout[r].job
           session == BoundSession(j, checkout[r].session)
<1> USE DEF FlowInv, FlowType, outside
<1>1. /\ checkout[r].pc = "binding" /\ j \in tokens /\ j \in Jobs
      /\ checkout[r].session \in Sessions
      /\ jobs[j] # None /\ jobs[j] \in Job
      /\ jobs' = [jobs EXCEPT ![j].checkout = session]
      /\ told' = [told EXCEPT ![j] = @ \cup {session}]
      /\ EndOperation(r)
      /\ UNCHANGED <<submissions, providerEvents, configured, canonical, outside, submit,
                     delivery, tokens, faults>>
  BY DEF BindSession, CheckoutInHand, TokensHaveJobs
<1>2. session \in Sessions /\ (jobs[j].checkout # None => session = jobs[j].checkout)
  BY <1>1, JobRecords DEF BoundSession
<1> HIDE DEF session, j
<1>3. jobs'[j] = [jobs[j] EXCEPT !.checkout = session] /\ \A i \in Jobs \ {j} : jobs'[i] = jobs[i]
  BY <1>1
<1>4. /\ jobs'[j] \in Job /\ jobs'[j] # None
      /\ jobs'[j].checkout = session /\ jobs'[j].intent = jobs[j].intent
  BY <1>1, <1>2, <1>3, JobRecords DEF Job
<1>5. Grows
  BY <1>1, <1>2, <1>3, <1>4 DEF Grows, JobGrows, CanonicalGrows
<1>6. told'[j] = told[j] \cup {session} /\ \A i \in Jobs \ {j} : told'[i] = told[i]
  BY <1>1
<1>7. checkout' \in [Customers -> CheckoutContext]
        /\ \A q \in Customers : CheckoutInHand(q)'
  BY <1>1, EndsIdle
<1>8. FlowType'
  <2>1. jobs' \in [Jobs -> Job \cup {None}]
    BY <1>1, <1>3, <1>4
  <2>2. told' \in [Jobs -> SUBSET Sessions]
    BY <1>1, <1>2
  <2> QED
    BY <1>1, <1>7, <2>1, <2>2
<1>9. ToldHoldTokens'
  BY <1>1, <1>6 DEF ToldHoldTokens
<1>10. ToldSessionIsBound'
  <2>1. \A s \in told[j] : s = session
    BY <1>1, <1>2, CustomerAssumption DEF ToldSessionIsBound
  <2> QED
    BY <1>1, <1>3, <1>4, <1>6, <2>1 DEF ToldSessionIsBound
<1>11. KeysHeld'
  BY <1>1, KeysStay
<1> QED
  BY <1>1, <1>5, <1>7, <1>8, <1>9, <1>10, <1>11, Kept

-----------------------------------------------------------------------------
(* recordPaymentSucceeded                                                   *)

\* A delivery that goes on has in hand what its steps so far have done.
LEMMA DeliveryGoesOn ==
  ASSUME FlowInv, Grows, NEW d \in Deliverers, NEW context \in DeliveryContext,
         delivery' = [delivery EXCEPT ![d] = context],
         context.pc \in {"recording", "updating", "storing"} =>
           /\ context.id \in EventIds
           /\ context.payment \in PaymentFact
           /\ jobs'[context.payment.job] # None
           /\ context.pc # "recording" /\ configured => CanonicalPaid(context.payment)'
           /\ context.pc = "storing" => StorePaid(context.payment)'
  PROVE  /\ delivery' \in [Deliverers -> DeliveryContext]
         /\ \A q \in Deliverers : DeliveryInHand(q)'
<1>1. delivery'[d] = context /\ \A q \in Deliverers \ {d} : delivery'[q] = delivery[q]
  BY DEF FlowInv, FlowType
<1>2. delivery' \in [Deliverers -> DeliveryContext]
  BY DEF FlowInv, FlowType
<1>3. DeliveryInHand(d)'
  BY <1>1 DEF DeliveryInHand, Grows, CanonicalPaid, StorePaid
<1>4. \A q \in Deliverers \ {d} : DeliveryInHand(q)'
  BY <1>1, Kept
<1> QED
  BY <1>2, <1>3, <1>4

\* The steps that answer a delivery and leave the rest to Grows.
LEMMA DeliverySteps ==
  ASSUME FlowInv, Grows, NEW d \in Deliverers, NEW context \in DeliveryContext,
         delivery' = [delivery EXCEPT ![d] = context],
         context.pc \in {"recording", "updating", "storing"} =>
           /\ context.id \in EventIds
           /\ context.payment \in PaymentFact
           /\ jobs'[context.payment.job] # None
           /\ context.pc # "recording" /\ configured => CanonicalPaid(context.payment)'
           /\ context.pc = "storing" => StorePaid(context.payment)',
         jobs' \in [Jobs -> Job \cup {None}], canonical' \in [Jobs -> CanonicalJob \cup {None}],
         providerEvents' \in [EventIds -> PaymentFact \cup {None}], EventsPaid',
         Fault \/ UNCHANGED faults,
         UNCHANGED <<submissions, pending, configured, outside, submit, checkout, tokens, told>>
  PROVE  FlowInv'
<1>1. delivery' \in [Deliverers -> DeliveryContext] /\ \A q \in Deliverers : DeliveryInHand(q)'
  BY DeliveryGoesOn
<1>2. faults' \in Nat /\ faults <= faults'
  BY FaultCounts
<1>3. FlowType'
  BY <1>1, <1>2 DEF FlowInv, FlowType, outside
<1>4. KeysHeld'
  BY <1>2, KeysStay DEF outside
<1> QED
  BY <1>1, <1>3, <1>4, Kept DEF FlowInv

LEMMA RestType == NoDelivery \in DeliveryContext /\ NoDelivery.pc = "idle"
BY DEF NoDelivery, DeliveryContext

LEMMA ReceiveKeeps ==
  ASSUME FlowInv, NEW d \in Deliverers, NEW id \in EventIds, NEW p \in PaymentFact,
         Receive(d, id, p), Fault \/ UNCHANGED faults
  PROVE  FlowInv'
<1>0. PICK context : context =
      IF providerEvents[id] = p THEN NoDelivery
      ELSE [pc |-> IF providerEvents[id] # None \/ ~Matches(p) THEN "refused"
                   ELSE IF configured THEN "recording" ELSE "updating",
            id |-> id, payment |-> p]
  OBVIOUS
<1>1. /\ delivery' = [delivery EXCEPT ![d] = context]
      /\ UNCHANGED <<store, configured, canonical, outside, submit, checkout, tokens, told>>
  BY <1>0 DEF Receive
<1>2. context \in DeliveryContext
  BY <1>0, RestType DEF DeliveryContext
<1>3. context.pc \in {"recording", "updating", "storing"} =>
        /\ context.id = id /\ context.payment = p /\ jobs[p.job] # None
        /\ context.pc # "storing" /\ (context.pc = "updating" => ~configured)
  BY <1>0, RestType DEF Matches
<1>4. Grows
  BY <1>1, StoresStay DEF store
<1>5. EventsPaid' /\ jobs' \in [Jobs -> Job \cup {None}]
        /\ canonical' \in [Jobs -> CanonicalJob \cup {None}]
        /\ providerEvents' \in [EventIds -> PaymentFact \cup {None}]
  BY <1>1, <1>4, Kept DEF store, FlowInv, FlowType
<1>6. context.pc \in {"recording", "updating", "storing"} =>
        /\ context.id \in EventIds
        /\ context.payment \in PaymentFact
        /\ jobs'[context.payment.job] # None
        /\ context.pc # "recording" /\ configured => CanonicalPaid(context.payment)'
        /\ context.pc = "storing" => StorePaid(context.payment)'
  BY <1>1, <1>2, <1>3 DEF store, DeliveryContext
<1> QED
  BY <1>1, <1>2, <1>4, <1>5, <1>6, DeliverySteps DEF store

LEMMA RecordCanonicalKeeps ==
  ASSUME FlowInv, NEW d \in Deliverers, RecordCanonical(d)
  PROVE  FlowInv' /\ Grows
<1>0. PICK context \in DeliveryContext : context = delivery[d]
  BY DEF FlowInv, FlowType
<1> DEFINE p == context.payment
           j == p.job
<1>1. /\ context.pc = "recording"
      /\ UNCHANGED <<store, configured, outside, submit, checkout, tokens, told>>
  BY <1>0 DEF RecordCanonical
<1>2. /\ context.id \in EventIds /\ p \in PaymentFact /\ jobs[j] # None
      /\ j \in Jobs /\ p.intent \in Intents
  <2>1. DeliveryInHand(d)
    BY DEF FlowInv
  <2>2. context.id \in EventIds /\ p \in PaymentFact /\ jobs[j] # None
    BY <1>0, <1>1, <2>1 DEF DeliveryInHand
  <2> QED
    BY <2>2 DEF PaymentFact
<1>3. PICK sameInstant \in BOOLEAN :
        \/ /\ Recordable(context, sameInstant) /\ Recorded(context)
           /\ \/ Answer(d, "updating") /\ UNCHANGED faults
              \/ Answer(d, "refused") /\ Fault
        \/ Answer(d, "refused") /\ UNCHANGED <<canonical, faults>>
        \/ Answer(d, "refused") /\ Fault /\ UNCHANGED canonical
  BY <1>0 DEF RecordCanonical
<1>4. PICK pc \in {"updating", "refused"} :
        /\ delivery' = [delivery EXCEPT ![d] = [context EXCEPT !.pc = pc]]
        /\ Fault \/ UNCHANGED faults
        /\ \/ pc = "refused" /\ UNCHANGED canonical
           \/ Recordable(context, sameInstant) /\ Recorded(context)
  BY <1>0, <1>3 DEF Answer
<1> DEFINE next == [context EXCEPT !.pc = pc]
<1>5. next \in DeliveryContext /\ next.pc = pc /\ next.id = context.id /\ next.payment = p
  BY <1>1 DEF DeliveryContext
<1> HIDE DEF next
<1>6. ASSUME Recordable(context, sameInstant), Recorded(context)
      PROVE  /\ CanonicalPaid(p)'
             /\ \A i \in Jobs : CanonicalGrows(i)
             /\ canonical' \in [Jobs -> CanonicalJob \cup {None}]
  <2> DEFINE new == [state |-> "generation_queued", event |-> context.id, intent |-> p.intent]
  <2>1. canonical[j] # None /\ canonical \in [Jobs -> CanonicalJob \cup {None}]
    BY <1>6 DEF Recordable, FlowInv, FlowType
  <2>2. CASE canonical[j].state = "awaiting_payment"
    <3>1. canonical' = [canonical EXCEPT ![j] = new]
      BY <1>6, <2>2 DEF Recorded
    <3>2. new \in CanonicalJob /\ new # None
      BY <1>2, JobRecords DEF CanonicalJob
    <3>3. canonical'[j] = new /\ \A i \in Jobs \ {j} : canonical'[i] = canonical[i]
      BY <1>2, <2>1, <3>1
    <3>4. CanonicalPaid(p)'
      BY <3>2, <3>3 DEF CanonicalPaid
    <3>5. canonical' \in [Jobs -> CanonicalJob \cup {None}]
      BY <2>1, <3>1, <3>2
    <3> QED
      BY <2>2, <3>2, <3>3, <3>4, <3>5 DEF CanonicalGrows
  <2>3. CASE canonical[j].state # "awaiting_payment"
    <3>1. canonical' = canonical
      BY <1>6, <2>3 DEF Recorded
    <3>2. canonical[j].intent = p.intent
      BY <1>6, <2>3 DEF Recordable, Replays
    <3> QED
      BY <2>1, <2>3, <3>1, <3>2 DEF CanonicalPaid, CanonicalGrows
  <2> QED
    BY <2>2, <2>3
<1>7. /\ \A i \in Jobs : CanonicalGrows(i)
      /\ canonical' \in [Jobs -> CanonicalJob \cup {None}]
      /\ pc = "updating" => CanonicalPaid(p)'
  BY <1>4, <1>6 DEF CanonicalGrows, FlowInv, FlowType
<1>8. Grows
  BY <1>1, <1>7 DEF Grows, JobGrows, store
<1>9. EventsPaid' /\ jobs' \in [Jobs -> Job \cup {None}]
        /\ providerEvents' \in [EventIds -> PaymentFact \cup {None}]
  BY <1>1, <1>8, Kept DEF store, FlowInv, FlowType
<1>10. next.pc \in {"recording", "updating", "storing"} =>
         /\ next.id \in EventIds
         /\ next.payment \in PaymentFact
         /\ jobs'[next.payment.job] # None
         /\ next.pc # "recording" /\ configured => CanonicalPaid(next.payment)'
         /\ next.pc = "storing" => StorePaid(next.payment)'
  <2>1. jobs' = jobs
    BY <1>1 DEF store
  <2>2. CanonicalPaid(p)' => CanonicalPaid(next.payment)'
    BY <1>5
  <2> QED
    BY <1>2, <1>5, <1>7, <2>1, <2>2
<1> QED
  BY <1>1, <1>4, <1>5, <1>7, <1>8, <1>9, <1>10, DeliverySteps DEF store, next

LEMMA UpdatePaymentKeeps ==
  ASSUME FlowInv, NEW d \in Deliverers, UpdatePayment(d)
  PROVE  FlowInv' /\ Grows
<1>0. PICK context \in DeliveryContext : context = delivery[d]
  BY DEF FlowInv, FlowType
<1> DEFINE p == context.payment
           j == p.job
<1>1. /\ context.pc = "updating"
      /\ UNCHANGED <<submissions, providerEvents, pending, configured, canonical, outside,
                     submit, checkout, tokens, told, faults>>
      /\ \/ Answer(d, "refused") /\ UNCHANGED jobs
         \/ /\ ~OtherIntentBound(j, p.intent)
            /\ jobs' = [jobs EXCEPT ![j].intent = IF @ = None THEN p.intent ELSE @]
            /\ Answer(d, "storing")
  BY <1>0 DEF UpdatePayment
<1>2. /\ context.id \in EventIds /\ p \in PaymentFact /\ jobs[j] # None
      /\ j \in Jobs /\ p.intent \in Intents /\ (configured => CanonicalPaid(p))
  <2>1. DeliveryInHand(d)
    BY DEF FlowInv
  <2>2. context.id \in EventIds /\ p \in PaymentFact /\ jobs[j] # None
          /\ (configured => CanonicalPaid(p))
    BY <1>0, <1>1, <2>1 DEF DeliveryInHand
  <2> QED
    BY <2>2 DEF PaymentFact
<1>3. PICK pc \in {"refused", "storing"} :
        /\ delivery' = [delivery EXCEPT ![d] = [context EXCEPT !.pc = pc]]
        /\ \/ pc = "refused" /\ UNCHANGED jobs
           \/ /\ ~OtherIntentBound(j, p.intent)
              /\ jobs' = [jobs EXCEPT ![j].intent = IF @ = None THEN p.intent ELSE @]
  BY <1>0, <1>1 DEF Answer
<1> DEFINE next == [context EXCEPT !.pc = pc]
<1>4. next \in DeliveryContext /\ next.pc = pc /\ next.id = context.id /\ next.payment = p
  BY <1>1 DEF DeliveryContext
<1> HIDE DEF next
<1>5. ASSUME ~OtherIntentBound(j, p.intent),
             jobs' = [jobs EXCEPT ![j].intent = IF @ = None THEN p.intent ELSE @]
      PROVE  /\ StorePaid(p)'
             /\ \A i \in Jobs : JobGrows(i)
             /\ jobs' \in [Jobs -> Job \cup {None}]
  <2>1. jobs[j] \in Job /\ jobs \in [Jobs -> Job \cup {None}]
    BY <1>2 DEF FlowInv, FlowType
  <2>2. jobs'[j] = [jobs[j] EXCEPT !.intent = p.intent]
    <3>1. jobs[j].intent \in {None, p.intent}
      BY <1>5 DEF OtherIntentBound
    <3> QED
      BY <1>2, <1>5, <2>1, <3>1
  <2>3. jobs'[j] \in Job /\ jobs'[j] # None /\ jobs'[j].intent = p.intent
          /\ jobs'[j].checkout = jobs[j].checkout
    BY <1>2, <2>1, <2>2, JobRecords DEF Job
  <2>4. \A i \in Jobs \ {j} : jobs'[i] = jobs[i]
    BY <1>5, <2>1
  <2>5. jobs[j].intent # None => jobs'[j].intent = jobs[j].intent
    BY <1>5, <2>3 DEF OtherIntentBound
  <2>6. jobs' \in [Jobs -> Job \cup {None}]
    BY <1>5, <2>1, <2>3, <2>4
  <2> QED
    BY <2>3, <2>4, <2>5, <2>6 DEF StorePaid, JobGrows
<1>6. /\ \A i \in Jobs : JobGrows(i)
      /\ jobs' \in [Jobs -> Job \cup {None}]
      /\ pc = "storing" => StorePaid(p)'
  BY <1>3, <1>5 DEF JobGrows, FlowInv, FlowType
<1>7. Grows
  BY <1>1, <1>6 DEF Grows, CanonicalGrows
<1>8. EventsPaid' /\ canonical' \in [Jobs -> CanonicalJob \cup {None}]
        /\ providerEvents' \in [EventIds -> PaymentFact \cup {None}]
  BY <1>1, <1>7, Kept DEF FlowInv, FlowType
<1>9. next.pc \in {"recording", "updating", "storing"} =>
        /\ next.id \in EventIds
        /\ next.payment \in PaymentFact
        /\ jobs'[next.payment.job] # None
        /\ next.pc # "recording" /\ configured => CanonicalPaid(next.payment)'
        /\ next.pc = "storing" => StorePaid(next.payment)'
  <2>1. jobs'[j] # None
    BY <1>2, <1>6 DEF JobGrows
  <2>2. configured => CanonicalPaid(p)'
    BY <1>1, <1>2 DEF CanonicalPaid
  <2>3. /\ CanonicalPaid(p)' => CanonicalPaid(next.payment)'
        /\ StorePaid(p)' => StorePaid(next.payment)'
    BY <1>4
  <2> QED
    BY <1>2, <1>4, <1>6, <2>1, <2>2, <2>3
<1> QED
  BY <1>1, <1>3, <1>4, <1>6, <1>7, <1>8, <1>9, DeliverySteps DEF next

LEMMA StoreEventKeeps ==
  ASSUME FlowInv, NEW d \in Deliverers, StoreEvent(d)
  PROVE  FlowInv'
<1>0. PICK context \in DeliveryContext : context = delivery[d]
  BY DEF FlowInv, FlowType
<1> DEFINE p == context.payment
           id == context.id
<1>1. /\ context.pc = "storing"
      /\ providerEvents' = [providerEvents EXCEPT ![id] = IF @ = None THEN p ELSE @]
      /\ Rest(d) \/ Answer(d, "refused")
      /\ UNCHANGED <<jobs, submissions, pending, configured, canonical, outside, submit,
                     checkout, tokens, told, faults>>
  BY <1>0 DEF StoreEvent
<1>2. id \in EventIds /\ p \in PaymentFact /\ StorePaid(p) /\ (configured => CanonicalPaid(p))
  <2>1. DeliveryInHand(d)
    BY DEF FlowInv
  <2> QED
    BY <1>0, <1>1, <2>1 DEF DeliveryInHand
<1>3. PICK next \in DeliveryContext :
        delivery' = [delivery EXCEPT ![d] = next] /\ next.pc \in {"idle", "refused"}
  <2>1. [context EXCEPT !.pc = "refused"] \in DeliveryContext
          /\ [context EXCEPT !.pc = "refused"].pc = "refused"
    BY DEF DeliveryContext
  <2> QED
    BY <1>0, <1>1, <2>1, RestType DEF Rest, Answer
<1>4. Grows
  BY <1>1, StoresStay
<1>5. providerEvents' \in [EventIds -> PaymentFact \cup {None}]
  BY <1>1, <1>2 DEF FlowInv, FlowType
<1>6. EventsPaid'
  <2>1. StorePaid(p)' /\ (configured' => CanonicalPaid(p)')
    BY <1>1, <1>2 DEF StorePaid, CanonicalPaid
  <2>2. \A e \in EventIds : providerEvents'[e] \in {providerEvents[e], p}
    BY <1>1, <1>2 DEF FlowInv, FlowType
  <2>3. \A e \in EventIds : providerEvents[e] # None =>
          /\ jobs'[providerEvents[e].job] # None
          /\ jobs'[providerEvents[e].job].intent = providerEvents[e].intent
          /\ configured' => /\ canonical'[providerEvents[e].job] # None
                            /\ canonical'[providerEvents[e].job].state # "awaiting_payment"
                            /\ canonical'[providerEvents[e].job].intent = providerEvents[e].intent
    BY <1>1 DEF FlowInv, EventsPaid, StorePaid, CanonicalPaid
  <2> QED
    BY <2>1, <2>2, <2>3 DEF EventsPaid, StorePaid, CanonicalPaid
<1> QED
  BY <1>1, <1>3, <1>4, <1>5, <1>6, DeliverySteps DEF FlowInv, FlowType

LEMMA RefuseKeeps ==
  ASSUME FlowInv, NEW d \in Deliverers, Refuse(d)
  PROVE  FlowInv'
<1>1. /\ delivery' = [delivery EXCEPT ![d] = NoDelivery]
      /\ UNCHANGED <<store, configured, canonical, outside, submit, checkout, tokens, told, faults>>
  BY DEF Refuse, Rest
<1>2. Grows
  BY <1>1, StoresStay DEF store
<1>3. EventsPaid' /\ FlowType
  BY <1>1, <1>2, Kept DEF store, FlowInv
<1> QED
  BY <1>1, <1>2, <1>3, RestType, DeliverySteps DEF store, FlowType

-----------------------------------------------------------------------------
(* Outside the service                                                      *)

LEMMA PayKeeps ==
  ASSUME FlowInv, NEW id \in EventIds, Pay(id)
  PROVE  FlowInv'
<1>1. PICK s \in Sessions, intent \in Intents :
        /\ owner[s] # None
        /\ issued' = [issued EXCEPT ![id] = [intent |-> intent, session |-> s, job |-> owner[s]]]
  BY DEF Pay
<1>2. UNCHANGED <<store, configured, canonical, gateway, owner, requests, tokens, told, faults>>
  BY DEF Pay
<1> USE <1>2 DEF FlowInv, FlowType, requests, store
<1>3. [intent |-> intent, session |-> s, job |-> owner[s]] \in PaymentFact
  BY <1>1 DEF PaymentFact
<1>4. issued' \in [EventIds -> PaymentFact \cup {None}]
  BY <1>1, <1>3
<1>5. FlowType'
  BY <1>4
<1>6. Grows /\ KeysHeld'
  BY StoresStay, KeysStay
<1> QED
  BY <1>5, <1>6, Kept

LEMMA DeliverKeeps ==
  ASSUME FlowInv, NEW id \in EventIds, Deliver(id) \/ DeliverGarbled(id)
  PROVE  FlowInv'
<1>1. issued[id] \in PaymentFact
  BY DEF Deliver, DeliverGarbled, FlowInv, FlowType
<1>2. PICK p \in PaymentFact, d \in Deliverers : Receive(d, id, p) /\ (Fault \/ UNCHANGED faults)
  <2>1. CASE Deliver(id)
    BY <1>1, <2>1 DEF Deliver
  <2>2. CASE DeliverGarbled(id)
    <3>1. PICK d \in Deliverers, intent \in Intents :
            Receive(d, id, [issued[id] EXCEPT !.intent = intent]) /\ Fault
      BY <2>2 DEF DeliverGarbled
    <3>2. [issued[id] EXCEPT !.intent = intent] \in PaymentFact
      BY <1>1 DEF PaymentFact
    <3> QED
      BY <3>1, <3>2
  <2> QED
    BY <2>1, <2>2
<1> QED
  BY <1>2, ReceiveKeeps

\* A lapsed key is a fault, which pays for the session that may follow.
LEMMA LapseKeeps ==
  ASSUME FlowInv, NEW j \in Jobs, LapseKey(j)
  PROVE  FlowInv'
<1>1. /\ gateway[j] # None
      /\ gateway' = [gateway EXCEPT ![j] = None]
      /\ faults' = faults + 1
      /\ UNCHANGED <<store, configured, canonical, owner, issued, requests, tokens, told>>
  BY DEF LapseKey, Fault
<1> USE DEF FlowInv, FlowType, requests, store
<1>2. Grows
  BY <1>1, StoresStay
<1>3. FlowType'
  BY <1>1
<1>4. KeysHeld'
  <2>1. \A i \in Jobs : SessionsOf(i)' = SessionsOf(i)
    BY <1>1 DEF SessionsOf
  <2>2. \A i \in Jobs : Cardinality(SessionsOf(i)) \in Nat
    BY FS_CardinalityType DEF KeysHeld
  <2> HIDE DEF SessionsOf
  <2>3. \A i \in Jobs : gateway'[i] = IF i = j THEN None ELSE gateway[i]
    BY <1>1
  <2>4. \A i \in Jobs : Cardinality(SessionsOf(i)) <= faults' + (IF gateway'[i] = None THEN 0 ELSE 1)
    BY <1>1, <2>2, <2>3 DEF KeysHeld
  <2> QED
    BY <1>1, <2>1, <2>3, <2>4 DEF KeysHeld
<1> QED
  BY <1>1, <1>2, <1>3, <1>4, Kept

LEMMA FulfillKeeps ==
  ASSUME FlowInv, NEW j \in Jobs, Fulfill(j)
  PROVE  FlowInv' /\ Grows
<1>1. PICK state \in PaidStates : canonical' = [canonical EXCEPT ![j].state = state]
  BY DEF Fulfill
<1>2. /\ canonical[j] # None
      /\ UNCHANGED <<store, configured, outside, requests, tokens, told, faults>>
  BY DEF Fulfill
<1> USE <1>2 DEF FlowInv, FlowType, requests, store, outside
<1>3. /\ canonical'[j] = [canonical[j] EXCEPT !.state = state]
      /\ \A i \in Jobs \ {j} : canonical'[i] = canonical[i]
  BY <1>1
<1>4. canonical'[j] \in CanonicalJob /\ canonical'[j] # None
        /\ canonical'[j].intent = canonical[j].intent
        /\ canonical'[j].state # "awaiting_payment"
  BY <1>3, JobRecords, CustomerAssumption DEF CanonicalJob
<1>5. canonical' \in [Jobs -> CanonicalJob \cup {None}]
  BY <1>1, <1>3, <1>4
<1>6. Grows
  BY <1>3, <1>4 DEF Grows, JobGrows, CanonicalGrows
<1>7. FlowType' /\ KeysHeld'
  BY <1>5, KeysStay
<1> QED
  BY <1>6, <1>7, Kept

-----------------------------------------------------------------------------
(* The invariant and what follows from it                                   *)

LEMMA InitFlow == Init => FlowInv
<1> SUFFICES ASSUME Init PROVE FlowInv
  OBVIOUS
<1>1. FlowType
  BY RestType DEF Init, FlowType, CheckoutContext
<1>2. \A j \in Jobs : SessionsOf(j) = {}
  BY CustomerAssumption DEF Init, SessionsOf
<1>3. KeysHeld
  <2>1. IsFiniteSet({}) /\ Cardinality({}) = 0
    BY FS_EmptySet
  <2>2. \A j \in Jobs : IsFiniteSet(SessionsOf(j)) /\ Cardinality(SessionsOf(j)) = 0
    BY <1>2, <2>1
  <2>3. faults = 0 /\ \A j \in Jobs : gateway[j] = None
    BY DEF Init
  <2> HIDE DEF SessionsOf
  <2> QED
    BY <2>2, <2>3 DEF KeysHeld
<1>4. (\A r \in Customers : CheckoutInHand(r)) /\ (\A d \in Deliverers : DeliveryInHand(d))
  BY DEF Init, CheckoutInHand, DeliveryInHand, NoDelivery
<1> QED
  BY <1>1, <1>3, <1>4 DEF Init, FlowInv, IntakesStored, TokensHaveJobs, ToldHoldTokens,
     ToldSessionIsBound, EventsPaid

LEMMA StutterFlow == ASSUME FlowInv, UNCHANGED vars PROVE FlowInv'
<1>1. Grows
  BY StoresStay DEF vars, store
<1>2. KeysHeld'
  BY KeysStay DEF vars, outside, FlowInv, FlowType
<1>3. FlowType'
  BY DEF FlowInv, FlowType, vars, store, outside, requests
<1> QED
  BY <1>1, <1>2, <1>3, Kept DEF FlowInv, vars, store, outside, requests

LEMMA StepFlow == ASSUME FlowInv, Next PROVE FlowInv'
BY SubmitNewKeeps, SubmitAgainKeeps, CreateCanonicalKeeps, AskCheckoutKeeps, JoinCheckoutKeeps,
   OpenSessionKeeps, BindSessionKeeps, PayKeeps, DeliverKeeps, RecordCanonicalKeeps,
   UpdatePaymentKeeps, StoreEventKeeps, RefuseKeeps, LapseKeeps, FulfillKeeps DEF Next

\* Requests of any number, interleaved at every await, with calls that fail or
\* lose their answers, keep stores and promises together.
THEOREM FlowInvariant == Spec => []FlowInv
<1>1. FlowInv /\ [Next]_vars => FlowInv'
  BY StepFlow, StutterFlow
<1> QED
  BY <1>1, InitFlow, PTL DEF Spec

\* Whoever holds a token has a job that fulfillment knows.
THEOREM TokensAreGood == Spec => []TokensHaveJobs
BY FlowInvariant, PTL DEF FlowInv

\* Customers are sent only to the session their job is bound to.
THEOREM SessionsAreBound == Spec => []ToldSessionIsBound
BY FlowInvariant, PTL DEF FlowInv

\* One session per job, and one more for each fault at most.
THEOREM SessionsArePaidFor == Spec => []OneSessionPerKey
<1>1. FlowInv => OneSessionPerKey
  <2> SUFFICES ASSUME FlowInv, NEW j \in Jobs PROVE Cardinality(SessionsOf(j)) <= 1 + faults
    BY DEF OneSessionPerKey, SessionsOf
  <2>1. Cardinality(SessionsOf(j)) \in Nat /\ faults \in Nat
    BY FS_CardinalityType DEF FlowInv, FlowType, KeysHeld
  <2> QED
    BY <2>1 DEF FlowInv, KeysHeld
<1> QED
  BY <1>1, FlowInvariant, PTL

\* An accepted payment event is paid in the store, in the canonical job and in
\* the status the customer sees.
THEOREM PaymentsAreKept == Spec => []AcceptedIsPaid
<1>1. FlowInv => AcceptedIsPaid
  <2> SUFFICES ASSUME FlowInv, NEW id \in EventIds, providerEvents[id] # None,
                      NEW p, p = providerEvents[id]
               PROVE  /\ jobs[p.job].intent = p.intent
                      /\ configured => canonical[p.job].intent = p.intent
                      /\ PublicStatus(p.job).payment = "paid"
    BY DEF AcceptedIsPaid
  <2>1. StorePaid(p) /\ (configured => CanonicalPaid(p)) /\ p \in PaymentFact
    BY DEF FlowInv, FlowType, EventsPaid
  <2>2. p.intent # None
    BY <2>1, CustomerAssumption DEF PaymentFact
  <2>3. PublicStatus(p.job).payment = "paid"
    BY <2>1, <2>2 DEF PublicStatus, StorePaid, CanonicalPaid
  <2> QED
    BY <2>1, <2>3 DEF StorePaid, CanonicalPaid
<1> QED
  BY <1>1, FlowInvariant, PTL

\* No step takes anything back.
LEMMA StepGrows == ASSUME FlowInv, Next PROVE Grows
<1>1. \/ Grows
      \/ UNCHANGED <<jobs, canonical, configured>> /\ tokens \subseteq tokens'
  BY SubmitNewKeeps, CreateCanonicalKeeps, BindSessionKeeps, RecordCanonicalKeeps,
     UpdatePaymentKeeps, FulfillKeeps
     DEF Next, SubmitAgain, AskCheckout, JoinCheckout, OpenSession, Pay, Deliver, DeliverGarbled,
         Receive, StoreEvent, Refuse, LapseKey, Stored, store
<1> QED
  BY <1>1, StoresStay

\* What a customer or the provider was told is not taken back, however requests,
\* deliveries, failed calls and late answers fall (createCheckout,
\* recordPaymentSucceeded and publicStatus of the service).
THEOREM PromisesAreKept == Spec => PromisesStand
<1> DEFINE JobStands(j) ==
             /\ jobs[j].checkout # None => jobs'[j].checkout = jobs[j].checkout
             /\ jobs[j].intent # None => jobs'[j].intent = jobs[j].intent
             /\ PublicStatus(j).payment = "paid" => PublicStatus(j)'.payment = "paid"
           EventStands(id) == providerEvents[id] # None => providerEvents'[id] = providerEvents[id]
<1>1. ASSUME FlowInv, Next, NEW j \in tokens
      PROVE  JobStands(j)
  <2>1. /\ j \in Jobs /\ jobs[j] # None /\ configured \in BOOLEAN
        /\ configured => canonical[j] # None
    BY <1>1 DEF FlowInv, FlowType, TokensHaveJobs
  <2>2. JobGrows(j) /\ CanonicalGrows(j) /\ configured' = configured
    BY <1>1, <2>1, StepGrows DEF Grows
  <2>3. PublicStatus(j).payment = "paid" => PublicStatus(j)'.payment = "paid"
    <3>1. CASE configured
      BY <2>1, <2>2, <3>1 DEF PublicStatus, CanonicalGrows
    <3>2. CASE ~configured
      BY <2>1, <2>2, <3>2 DEF PublicStatus, JobGrows
    <3> QED
      BY <3>1, <3>2
  <2> QED
    BY <2>1, <2>2, <2>3 DEF JobGrows
<1>2. ASSUME FlowInv, Next, NEW id \in EventIds
      PROVE  EventStands(id)
  <2>1. CASE UNCHANGED providerEvents
    BY <2>1
  <2>2. ASSUME NEW d \in Deliverers, StoreEvent(d)
        PROVE  EventStands(id)
    BY <1>1, <1>2, <2>2 DEF StoreEvent, FlowInv, FlowType
  <2> QED
    BY <1>2, <2>1, <2>2
       DEF Next, SubmitNew, SubmitAgain, CreateCanonical, AskCheckout, JoinCheckout, OpenSession,
           BindSession, Pay, Deliver, DeliverGarbled, Receive, RecordCanonical, UpdatePayment,
           Refuse, LapseKey, Fulfill, store
<1> DEFINE Stand == (\A j \in tokens : JobStands(j)) /\ (\A id \in EventIds : EventStands(id))
<1>3. FlowInv /\ [Next]_vars => [Stand]_vars
  BY <1>1, <1>2
<1> QED
  BY <1>3, FlowInvariant, PTL DEF Spec, PromisesStand

-----------------------------------------------------------------------------
(* The checkouts under way                                                  *)

\* Requests of one job share one operation: whoever waits waits for an operation that
\* is under way and will answer or fail for them all, and a job never has two, however
\* they end (pendingCheckouts and its `finally`, service.mjs:89-97).
JoinedIsUnderWay ==
  /\ \A j \in Jobs : pending[j] # None =>
       checkout[pending[j]].job = j /\ checkout[pending[j]].pc \in {"opening", "binding"}
  /\ \A r \in Customers :
       /\ checkout[r].pc = "waiting" => pending[checkout[r].job] # None
       /\ checkout[r].pc \in {"opening", "binding"} => pending[checkout[r].job] = r

JoinedInv == pending \in [Jobs -> Customers \cup {None}] /\ JoinedIsUnderWay

\* The requests that have read a job name one that exists.
LEMMA RequestsNameJobs ==
  ASSUME FlowInv, NEW r \in Customers, checkout[r].pc # "idle"
  PROVE  checkout[r].job \in Jobs
BY DEF FlowInv, FlowType, CheckoutInHand

\* An operation that ends frees its job and lets go of all who wait for it.
LEMMA EndingFrees ==
  ASSUME FlowInv, JoinedInv, NEW r \in Customers, EndOperation(r),
         checkout[r].pc \in {"opening", "binding"}
  PROVE  JoinedInv'
<1> DEFINE j == checkout[r].job
<1>1. j \in Jobs /\ pending[j] = r /\ pending' = [pending EXCEPT ![j] = None]
  BY RequestsNameJobs DEF EndOperation, JoinedInv, JoinedIsUnderWay
<1>2. \A q \in Customers :
        \/ checkout'[q].pc = "idle"
        \/ /\ checkout'[q] = checkout[q] /\ q # r
           /\ ~(checkout[q].pc = "waiting" /\ checkout[q].job = j)
  BY DEF EndOperation, Idle, FlowInv, FlowType, CheckoutContext
<1>3. \A q \in Customers : checkout'[q].pc \in {"waiting", "opening", "binding"} =>
        /\ checkout'[q] = checkout[q] /\ q # r
        /\ checkout[q].job \in Jobs /\ checkout[q].job # j
  BY <1>1, <1>2, RequestsNameJobs DEF JoinedInv, JoinedIsUnderWay
<1>4. ASSUME NEW i \in Jobs, pending'[i] # None
      PROVE  checkout'[pending'[i]].job = i /\ checkout'[pending'[i]].pc \in {"opening", "binding"}
  <2>1. i # j /\ pending'[i] = pending[i] /\ pending[i] \in Customers
    BY <1>1, <1>4 DEF JoinedInv
  <2>2. checkout[pending[i]].job = i /\ checkout[pending[i]].pc \in {"opening", "binding"}
    BY <1>4, <2>1 DEF JoinedInv, JoinedIsUnderWay
  <2>3. checkout'[pending[i]] = checkout[pending[i]]
    BY <1>1, <2>1, <2>2 DEF EndOperation
  <2> QED
    BY <2>1, <2>2, <2>3
<1>5. \A q \in Customers :
        /\ checkout'[q].pc = "waiting" => pending'[checkout'[q].job] # None
        /\ checkout'[q].pc \in {"opening", "binding"} => pending'[checkout'[q].job] = q
  BY <1>1, <1>3 DEF JoinedInv, JoinedIsUnderWay
<1>6. pending' \in [Jobs -> Customers \cup {None}]
  BY <1>1 DEF JoinedInv
<1> QED
  BY <1>4, <1>5, <1>6 DEF JoinedInv, JoinedIsUnderWay

\* A request that goes on without joining or ending an operation.
LEMMA GoingOnKeepsJoined ==
  ASSUME FlowInv, JoinedInv, NEW r \in Customers, NEW context,
         checkout' = [checkout EXCEPT ![r] = context], UNCHANGED pending,
         \/ checkout[r].pc = "idle" /\ context.pc = "joining"
         \/ /\ checkout[r].pc \in {"opening", "binding"} /\ context.pc \in {"opening", "binding"}
            /\ context.job = checkout[r].job
  PROVE  JoinedInv'
<1>1. checkout'[r] = context /\ \A q \in Customers \ {r} : checkout'[q] = checkout[q]
  BY DEF FlowInv, FlowType
<1>2. ASSUME NEW i \in Jobs, pending[i] # None
      PROVE  checkout'[pending[i]].job = i /\ checkout'[pending[i]].pc \in {"opening", "binding"}
  <2>1. /\ pending[i] \in Customers
        /\ checkout[pending[i]].job = i /\ checkout[pending[i]].pc \in {"opening", "binding"}
    BY <1>2 DEF JoinedInv, JoinedIsUnderWay
  <2> QED
    BY <1>1, <2>1
<1>3. ASSUME NEW q \in Customers
      PROVE  /\ checkout'[q].pc = "waiting" => pending[checkout'[q].job] # None
             /\ checkout'[q].pc \in {"opening", "binding"} => pending[checkout'[q].job] = q
  BY <1>1 DEF JoinedInv, JoinedIsUnderWay
<1> QED
  BY <1>2, <1>3 DEF JoinedInv, JoinedIsUnderWay

LEMMA JoinKeepsJoined ==
  ASSUME FlowInv, JoinedInv, NEW r \in Customers, JoinCheckout(r)
  PROVE  JoinedInv'
<1> DEFINE j == checkout[r].job
<1>1. checkout[r].pc = "joining" /\ j \in Jobs
  BY RequestsNameJobs DEF JoinCheckout
<1>2. \A q \in Customers \ {r} : checkout'[q] = checkout[q]
  BY DEF JoinCheckout, FlowInv, FlowType
<1>3. checkout'[r].job = j
  BY DEF JoinCheckout, FlowInv, FlowType, CheckoutContext
<1>4. CASE pending[j] # None
  <2>1. checkout'[r].pc = "waiting" /\ UNCHANGED pending
    BY <1>4 DEF JoinCheckout, FlowInv, FlowType, CheckoutContext
  <2>2. ASSUME NEW i \in Jobs, pending[i] # None
        PROVE  checkout'[pending[i]].job = i /\ checkout'[pending[i]].pc \in {"opening", "binding"}
    <3>1. /\ pending[i] \in Customers
          /\ checkout[pending[i]].job = i /\ checkout[pending[i]].pc \in {"opening", "binding"}
      BY <2>2 DEF JoinedInv, JoinedIsUnderWay
    <3> QED
      BY <1>1, <1>2, <3>1
  <2> QED
    BY <1>2, <1>3, <1>4, <2>1, <2>2 DEF JoinedInv, JoinedIsUnderWay
<1>5. CASE pending[j] = None
  <2>1. checkout'[r].pc = "opening" /\ pending' = [pending EXCEPT ![j] = r]
    BY <1>5 DEF JoinCheckout, FlowInv, FlowType, CheckoutContext
  <2>2. pending'[j] = r /\ \A i \in Jobs \ {j} : pending'[i] = pending[i]
    BY <1>1, <2>1 DEF JoinedInv
  <2>3. r # None
    BY CustomerAssumption
  <2>4. ASSUME NEW i \in Jobs, pending'[i] # None
        PROVE  checkout'[pending'[i]].job = i /\ checkout'[pending'[i]].pc \in {"opening", "binding"}
    <3>1. CASE i = j
      BY <1>3, <2>1, <2>2, <3>1
    <3>2. CASE i # j
      <4>1. /\ pending'[i] = pending[i] /\ pending[i] \in Customers
            /\ checkout[pending[i]].job = i /\ checkout[pending[i]].pc \in {"opening", "binding"}
        BY <2>2, <2>4, <3>2 DEF JoinedInv, JoinedIsUnderWay
      <4> QED
        BY <1>1, <1>2, <4>1
    <3> QED
      BY <3>1, <3>2
  <2>5. ASSUME NEW q \in Customers
        PROVE  /\ checkout'[q].pc = "waiting" => pending'[checkout'[q].job] # None
               /\ checkout'[q].pc \in {"opening", "binding"} => pending'[checkout'[q].job] = q
    <3>1. CASE q = r
      BY <1>3, <2>1, <2>2, <3>1
    <3>2. CASE q # r
      <4>1. checkout'[q].pc \in {"waiting", "opening", "binding"} =>
              checkout[q].job \in Jobs \ {j}
        BY <1>2, <1>5, <2>3, <3>2, RequestsNameJobs, CustomerAssumption
           DEF JoinedInv, JoinedIsUnderWay
      <4> QED
        BY <1>2, <2>2, <3>2, <4>1 DEF JoinedInv, JoinedIsUnderWay
    <3> QED
      BY <3>1, <3>2
  <2>6. pending' \in [Jobs -> Customers \cup {None}]
    BY <2>1 DEF JoinedInv
  <2> QED
    BY <2>4, <2>5, <2>6 DEF JoinedInv, JoinedIsUnderWay
<1> QED
  BY <1>4, <1>5

\* Whoever waits for a checkout waits for an operation that is under way, and a job has
\* one at a time, although operations fail and lose their answers.
THEOREM WaitersAreServed == Spec => []JoinedIsUnderWay
<1>1. Init => JoinedInv
  BY DEF Init, JoinedInv, JoinedIsUnderWay
<1>2. ASSUME FlowInv, JoinedInv, Next PROVE JoinedInv'
  <2>1. ASSUME UNCHANGED <<pending, checkout>> PROVE JoinedInv'
    BY <1>2, <2>1 DEF JoinedInv, JoinedIsUnderWay
  <2>2. ASSUME NEW r \in Customers, AskCheckout(r) PROVE JoinedInv'
    <3>1. ASSUME NEW j \in tokens,
                 checkout' = [checkout EXCEPT ![r].pc = "joining", ![r].job = j]
          PROVE  JoinedInv'
      <4> DEFINE context == [checkout[r] EXCEPT !.pc = "joining", !.job = j]
      <4>1. checkout' = [checkout EXCEPT ![r] = context]
        BY <3>1
      <4>2. context.pc = "joining"
        BY <1>2 DEF FlowInv, FlowType, CheckoutContext
      <4>3. checkout[r].pc = "idle" /\ UNCHANGED pending
        BY <2>2 DEF AskCheckout, store
      <4> HIDE DEF context
      <4> QED
        BY <1>2, <4>1, <4>2, <4>3, GoingOnKeepsJoined
    <3> QED
      BY <2>1, <2>2, <3>1 DEF AskCheckout, store
  <2>3. ASSUME NEW r \in Customers, OpenSession(r) PROVE JoinedInv'
    <3>1. CASE EndFailed(r)
      BY <1>2, <2>3, <3>1, EndingFrees DEF OpenSession, EndFailed
    <3>2. ASSUME NEW s \in Sessions, UNCHANGED pending,
                 checkout' = [checkout EXCEPT ![r].pc = "binding", ![r].session = s]
          PROVE  JoinedInv'
      <4> DEFINE context == [checkout[r] EXCEPT !.pc = "binding", !.session = s]
      <4>1. checkout' = [checkout EXCEPT ![r] = context]
        BY <3>2
      <4>2. context.pc = "binding" /\ context.job = checkout[r].job
        BY <1>2 DEF FlowInv, FlowType, CheckoutContext
      <4>3. checkout[r].pc = "opening"
        BY <2>3 DEF OpenSession
      <4> HIDE DEF context
      <4> QED
        BY <1>2, <3>2, <4>1, <4>2, <4>3, GoingOnKeepsJoined
    <3> QED
      BY <2>3, <3>1, <3>2 DEF OpenSession
  <2>4. ASSUME NEW r \in Customers, BindSession(r) PROVE JoinedInv'
    BY <1>2, <2>4, EndingFrees DEF BindSession
  <2> QED
    BY <1>2, <2>1, <2>2, <2>3, <2>4, JoinKeepsJoined
       DEF Next, SubmitNew, SubmitAgain, CreateCanonical, Pay, Deliver, DeliverGarbled, Receive,
           RecordCanonical, UpdatePayment, StoreEvent, Refuse, LapseKey, Fulfill, store, requests
<1>3. FlowInv /\ JoinedInv /\ [Next]_vars => JoinedInv'
  <2>1. UNCHANGED vars /\ JoinedInv => JoinedInv'
    BY DEF vars, store, requests, JoinedInv, JoinedIsUnderWay
  <2> QED
    BY <1>2, <2>1
<1>4. Spec => []JoinedInv
  BY <1>1, <1>3, FlowInvariant, PTL DEF Spec
<1>5. JoinedInv => JoinedIsUnderWay
  BY DEF JoinedInv
<1> QED
  BY <1>4, <1>5, PTL
=============================================================================

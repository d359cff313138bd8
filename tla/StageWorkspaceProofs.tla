------------------------- MODULE StageWorkspaceProofs --------------------------
(***************************************************************************)
(* The files of an accepted artifact set stay as they were listed, for     *)
(* every number of workers, attempts, reworks and faults, as long as no    *)
(* lease runs out under a worker at work.                                  *)
(*                                                                         *)
(* Leases that run out only under dead workers leave one worker on the     *)
(* files at a time (OneWriter), so what it listed is still there when it   *)
(* returns (Collected); and once a set is accepted, no worker gets as far  *)
(* as a command or a clean-up again (KeptInPlace).                         *)
(***************************************************************************)
EXTENDS StageWorkspace, TLAPS

Listings == UNION {[S -> Nat] : S \in SUBSET Files}
ArtifactSet == [listed : Listings, transcript : Nat]

Fields == {"pc", "n", "final", "listed", "transcript", "take", "next", "todo", "retryable"}

\* What a worker finds if it looks now.
Found == Present /\ DOMAIN Listing # {}
Last == accepted[Len(accepted)].listed

WorkspaceType ==
  /\ kind \in Kinds
  /\ disk \in [Files -> Nat] /\ takes \in Nat /\ overruns \in Nat
  /\ DOMAIN worker = Workers
  /\ \A w \in Workers : /\ DOMAIN worker[w] = Fields
                        /\ worker[w].take \in Nat /\ worker[w].transcript \in Nat

\* A worker at work holds the lease, and is the only one.
OneWriter ==
  overruns = 0 =>
    \A w \in Workers : worker[w].pc # "idle" =>
      /\ worker[w].n = attempt /\ Leased
      /\ \A v \in Workers : worker[v].pc # "idle" => v = w

\* What a worker listed is what is there until it returns.
Collected ==
  overruns = 0 =>
    \A w \in Workers :
      /\ worker[w].pc = "persisting" =>
           worker[w].listed = Listing /\ Found /\ manifest = None
      /\ worker[w].pc \in {"reading", "returning"} =>
           worker[w].listed = Listing /\ Found /\ manifest = Listing

\* With a set accepted, workers look and return, and write nothing.
KeptInPlace ==
  overruns = 0 /\ accepted # <<>> =>
    /\ Found /\ Listing = Last /\ manifest = Last /\ published \in {None, Last}
    /\ \A w \in Workers : worker[w].pc \in {"idle", "looking", "reading", "returning", "failing"}

\* Review and publication follow an accepted set.
AcceptedFirst ==
  overruns = 0 =>
    /\ accepted \in Seq(ArtifactSet)
    /\ status \in {"review", "approved", "publishing", "published"} => accepted # <<>>
    /\ accepted = <<>> => published = None

IInv == WorkspaceType /\ OneWriter /\ Collected /\ KeptInPlace /\ AcceptedFirst

-----------------------------------------------------------------------------
(* Lemmas.                                                                  *)

LEMMA SameFiles ==
  ASSUME UNCHANGED <<kind, disk>>
  PROVE  Listing' = Listing /\ Present' = Present /\ Found' = Found
  BY DEF Listing, Present, Found

\* A listing is one of files, and null is none.
LEMMA ListingType ==
  ASSUME kind \in Kinds, disk \in [Files -> Nat]
  PROVE  Listing \in Listings /\ Listing # None
<1> DEFINE S == {g \in Inventoried(kind) : disk[g] # 0} \cap Files
<1>1. Inventoried(kind) \subseteq Files
  <2>1. \A i \in DOMAIN Output(kind) : Output(kind)[i] \in Files
    <3>1. CASE kind = "private_review"
      BY <3>1 DEF Output, Files
    <3>2. CASE kind = "prepared_bundle"
      BY <3>2 DEF Output, Files
    <3>3. CASE kind = "narration_review"
      BY <3>3 DEF Output, Files
    <3> QED
      BY <3>1, <3>2, <3>3 DEF Kinds
  <2> QED
    BY <2>1 DEF Inventoried, OutputFiles
<1>2. S \in SUBSET Files /\ Listing \in [S -> Nat]
  BY <1>1 DEF Listing
<1> QED
  BY <1>2, WorkspaceAssumption DEF Listings

\* A step of one worker, from one context to the next.
LEMMA Moves ==
  ASSUME IInv, NEW w \in Workers, NEW context, Goto(w, context)
  PROVE  /\ DOMAIN worker' = Workers
         /\ worker'[w] = context
         /\ \A v \in Workers : v # w => worker'[v] = worker[v]
  BY DEF IInv, WorkspaceType, Goto

LEMMA IdleContext ==
  /\ DOMAIN Idle = Fields /\ Idle.pc = "idle"
  /\ Idle.take \in Nat /\ Idle.transcript \in Nat
  BY DEF Idle, Fields

\* The last element of a sequence that has one more.
LEMMA AppendedIsLast ==
  ASSUME NEW s \in Seq(ArtifactSet), NEW e \in ArtifactSet
  PROVE  /\ Append(s, e) \in Seq(ArtifactSet) /\ Append(s, e) # <<>>
         /\ Append(s, e)[Len(Append(s, e))] = e
  OBVIOUS

\* A worker that goes idle leaves nobody at work.
LEMMA GoesIdle ==
  ASSUME IInv, NEW w \in Workers, worker[w].pc # "idle", Goto(w, Idle), overruns = 0
  PROVE  \A v \in Workers : worker'[v].pc = "idle"
  BY Moves, IdleContext DEF IInv, OneWriter

\* Nobody works unless the job is leased.
LEMMA AtRest ==
  ASSUME IInv, overruns = 0, ~Leased
  PROVE  \A v \in Workers : worker[v].pc = "idle"
  BY DEF IInv, OneWriter

-----------------------------------------------------------------------------
(* Steps that touch no file and no worker, or send one home.                *)

\* Nobody is at work afterwards, and the files are those that were accepted.
LEMMA RestKeeps ==
  ASSUME IInv, UNCHANGED <<kind, disk, manifest, takes>>,
         overruns' \in Nat, overruns' = 0 => overruns = 0,
         DOMAIN worker' = Workers,
         \A v \in Workers : /\ DOMAIN worker'[v] = Fields
                            /\ worker'[v].take \in Nat /\ worker'[v].transcript \in Nat,
         overruns' = 0 => \A v \in Workers : worker'[v].pc = "idle",
         UNCHANGED <<accepted, published>>,
         overruns' = 0 /\ status' \in {"review", "approved", "publishing", "published"} =>
           accepted # <<>>
  PROVE  IInv'
<1>1. WorkspaceType' /\ AcceptedFirst'
  BY DEF IInv, WorkspaceType, AcceptedFirst
<1>2. OneWriter' /\ Collected'
  BY DEF OneWriter, Collected
<1>3. KeptInPlace'
  BY SameFiles DEF IInv, KeptInPlace, Last
<1> QED
  BY <1>1, <1>2, <1>3 DEF IInv

LEMMA ReviewerKeeps ==
  ASSUME IInv, Approve \/ SendBack
  PROVE  IInv'
<1>1. /\ status = "review" /\ status' \in {"approved", "queued"}
      /\ UNCHANGED <<kind, disk, manifest, takes, accepted, published, worker, overruns>>
  BY DEF Approve, SendBack, files
<1>2. overruns = 0 => accepted # <<>>
  BY <1>1 DEF IInv, AcceptedFirst
<1>3. overruns = 0 => \A v \in Workers : worker[v].pc = "idle"
  BY <1>1, AtRest DEF Leased
<1> QED
  BY <1>1, <1>2, <1>3, RestKeeps DEF IInv, WorkspaceType

\* A lease that runs out under a living worker is counted.
LEMMA ExpireKeeps ==
  ASSUME IInv, Expire
  PROVE  IInv'
<1>1. /\ status' \in {"queued", "failed"}
      /\ UNCHANGED <<kind, disk, manifest, takes, accepted, published, worker>>
  BY DEF Expire, files
<1>2. /\ overruns \in Nat /\ overruns' \in Nat
      /\ overruns' = 0 => overruns = 0 /\ ~ \E w \in Workers : Holds(w)
  BY DEF Expire, IInv, WorkspaceType
<1>3. overruns' = 0 => \A v \in Workers : worker[v].pc = "idle"
  BY <1>2 DEF IInv, OneWriter, Holds
<1> QED
  BY <1>1, <1>2, <1>3, RestKeeps DEF IInv, WorkspaceType

LEMMA CrashKeeps ==
  ASSUME IInv, NEW w \in Workers, Crash(w) \/ FailAttempt(w)
  PROVE  IInv'
<1>1. /\ worker[w].pc # "idle" /\ Goto(w, Idle)
      /\ status' \in {status, "queued", "failed"}
      /\ UNCHANGED <<kind, disk, manifest, takes, accepted, published, overruns>>
  BY DEF Crash, FailAttempt, At, files, job
<1>2. \A v \in Workers : /\ DOMAIN worker'[v] = Fields
                         /\ worker'[v].take \in Nat /\ worker'[v].transcript \in Nat
  BY <1>1, Moves, IdleContext DEF IInv, WorkspaceType
<1>3. overruns = 0 => \A v \in Workers : worker'[v].pc = "idle"
  BY <1>1, GoesIdle
<1>4. overruns = 0 /\ status' \in {"review", "approved", "publishing", "published"} =>
        accepted # <<>>
  BY <1>1 DEF IInv, AcceptedFirst
<1> QED
  BY <1>1, <1>2, <1>3, <1>4, Moves, RestKeeps DEF IInv, WorkspaceType

-----------------------------------------------------------------------------
(* Workers begin.                                                           *)

\* From rest, one worker begins to look, under a new lease.
LEMMA BeginKeeps ==
  ASSUME IInv, NEW w \in Workers, NEW context, Goto(w, context),
         DOMAIN context = Fields, context.take \in Nat, context.transcript \in Nat,
         context.pc = "looking", context.n = attempt',
         ~Leased, Leased',
         overruns = 0 /\ status' = "publishing" => accepted # <<>>,
         UNCHANGED <<kind, disk, manifest, takes, accepted, published, overruns>>
  PROVE  IInv'
<1>1. /\ DOMAIN worker' = Workers /\ worker'[w] = context
      /\ \A v \in Workers : v # w => worker'[v] = worker[v]
  BY Moves
<1>2. overruns = 0 => \A v \in Workers : worker[v].pc = "idle"
  BY AtRest
<1>3. WorkspaceType'
  BY <1>1 DEF IInv, WorkspaceType
<1>4. OneWriter'
  BY <1>1, <1>2 DEF OneWriter
<1>5. Collected'
  BY <1>1, <1>2 DEF Collected
<1>6. KeptInPlace'
  BY <1>1, <1>2, SameFiles DEF IInv, KeptInPlace, Last
<1>7. AcceptedFirst'
  BY DEF IInv, AcceptedFirst, Leased
<1> QED
  BY <1>3, <1>4, <1>5, <1>6, <1>7 DEF IInv

LEMMA ClaimKeeps ==
  ASSUME IInv, NEW w \in Workers, Claim(w) \/ StartPublish(w)
  PROVE  IInv'
<1>1. CASE Claim(w)
  <2>1. PICK context : context = [Idle EXCEPT !.pc = "looking", !.n = attempt']
    OBVIOUS
  <2>2. /\ DOMAIN context = Fields /\ context.take \in Nat /\ context.transcript \in Nat
        /\ context.pc = "looking" /\ context.n = attempt'
    BY <2>1, IdleContext DEF Fields
  <2>3. /\ Goto(w, context) /\ status = "queued" /\ status' = "running"
        /\ UNCHANGED <<kind, disk, manifest, takes, accepted, published, overruns>>
    BY <1>1, <2>1 DEF Claim, files
  <2> QED
    BY <2>2, <2>3, BeginKeeps DEF Leased
<1>2. CASE StartPublish(w)
  <2>1. PICK context :
          context = [Idle EXCEPT !.pc = "looking", !.n = attempt, !.final = TRUE]
    OBVIOUS
  <2>2. /\ DOMAIN context = Fields /\ context.take \in Nat /\ context.transcript \in Nat
        /\ context.pc = "looking" /\ context.n = attempt
    BY <2>1, IdleContext DEF Fields
  <2>3. /\ Goto(w, context) /\ status = "approved" /\ status' = "publishing"
        /\ UNCHANGED <<kind, disk, manifest, takes, accepted, published, overruns, attempt>>
    BY <1>2, <2>1 DEF StartPublish, files
  <2>4. overruns = 0 => accepted # <<>>
    BY <2>3 DEF IInv, AcceptedFirst
  <2> QED
    BY <2>2, <2>3, <2>4, BeginKeeps DEF Leased
<1> QED
  BY <1>1, <1>2

-----------------------------------------------------------------------------
(* A worker at work.                                                        *)

\* One step of a worker at work that leaves the files and the job alone: it
\* keeps the invariant if what the worker holds then is what there is.
LEMMA LookingKeeps ==
  ASSUME IInv, NEW w \in Workers, NEW context, Goto(w, context),
         DOMAIN context = Fields, context.take \in Nat, context.transcript \in Nat,
         worker[w].pc # "idle", context.n = worker[w].n,
         UNCHANGED <<kind, disk, manifest, takes, job, overruns>>,
         overruns = 0 /\ context.pc = "persisting" =>
           context.listed = Listing /\ Found /\ manifest = None,
         overruns = 0 /\ context.pc \in {"reading", "returning"} =>
           context.listed = Listing /\ Found /\ manifest = Listing,
         overruns = 0 /\ accepted # <<>> =>
           context.pc \in {"idle", "looking", "reading", "returning", "failing"}
  PROVE  IInv'
<1>1. /\ DOMAIN worker' = Workers /\ worker'[w] = context
      /\ \A v \in Workers : v # w => worker'[v] = worker[v]
  BY Moves
<1>2. UNCHANGED <<status, attempt, accepted, published>>
  BY DEF job
<1>3. WorkspaceType' /\ AcceptedFirst'
  BY <1>1, <1>2 DEF IInv, WorkspaceType, AcceptedFirst
<1>4. OneWriter'
  BY <1>1, <1>2 DEF IInv, OneWriter, Leased
<1>5. Collected'
  BY <1>1, SameFiles DEF IInv, Collected
<1>6. KeptInPlace'
  BY <1>1, <1>2, SameFiles DEF IInv, KeptInPlace, Last
<1> QED
  BY <1>3, <1>4, <1>5, <1>6 DEF IInv

LEMMA LookKeeps ==
  ASSUME IInv, NEW w \in Workers, Look(w)
  PROVE  IInv'
<1>1. PICK listed : listed = Listing
  OBVIOUS
<1>2. PICK context : context = [worker[w] EXCEPT !.listed = listed]
  OBVIOUS
<1>3. PICK next :
        /\ Goto(w, next)
        /\ next = CASE ~Found /\ ~context.final -> [context EXCEPT !.pc = "starting"]
                    [] ~Found /\ context.final  -> Refused(context)
                    [] Found /\ manifest = None -> [context EXCEPT !.pc = "persisting"]
                    [] Found /\ manifest = listed -> [context EXCEPT !.pc = "reading"]
                    [] Found /\ manifest \notin {None, listed} -> Refused(context)
  BY <1>1, <1>2 DEF Look, Found
<1>4. /\ worker[w].pc # "idle"
      /\ UNCHANGED <<kind, disk, manifest, takes, job, overruns>>
  BY DEF Look, At, files
<1>5. listed # None
  BY <1>1, ListingType DEF IInv, WorkspaceType
<1>6. /\ DOMAIN context = Fields /\ context.listed = listed /\ context.n = worker[w].n
      /\ context.take \in Nat /\ context.transcript \in Nat
  BY <1>2 DEF IInv, WorkspaceType, Fields
<1>7. \/ ~Found /\ next = [context EXCEPT !.pc = "starting"]
      \/ next = Refused(context)
      \/ Found /\ manifest = None /\ next = [context EXCEPT !.pc = "persisting"]
      \/ Found /\ manifest = listed /\ next = [context EXCEPT !.pc = "reading"]
  <2>1. CASE ~Found /\ ~context.final
    BY <1>3, <2>1
  <2>2. CASE ~Found /\ context.final
    BY <1>3, <2>2
  <2>3. CASE Found /\ manifest = None
    BY <1>3, <1>5, <2>3
  <2>4. CASE Found /\ manifest = listed
    BY <1>3, <1>5, <2>4
  <2>5. CASE Found /\ manifest \notin {None, listed}
    BY <1>3, <2>5
  <2> QED
    BY <2>1, <2>2, <2>3, <2>4, <2>5
<1>8. /\ DOMAIN next = Fields /\ next.listed = listed /\ next.n = worker[w].n
      /\ next.take \in Nat /\ next.transcript \in Nat
      /\ \/ ~Found /\ next.pc = "starting"
         \/ next.pc = "failing"
         \/ Found /\ manifest = None /\ next.pc = "persisting"
         \/ Found /\ manifest = listed /\ next.pc = "reading"
  BY <1>6, <1>7 DEF Refused, Fields
<1>9. overruns = 0 /\ accepted # <<>> => Found /\ manifest = listed
  BY <1>1 DEF IInv, KeptInPlace
<1> HIDE DEF Found
<1> QED
  BY <1>1, <1>3, <1>4, <1>5, <1>8, <1>9, LookingKeeps

LEMMA ReadKeeps ==
  ASSUME IInv, NEW w \in Workers, ReadDigests(w)
  PROVE  IInv'
<1>1. PICK next :
        /\ Goto(w, next)
        /\ next = IF Present
                  THEN [worker[w] EXCEPT !.pc = "returning", !.transcript = disk["transcript"]]
                  ELSE Refused(worker[w])
  BY DEF ReadDigests
<1>2. /\ worker[w].pc = "reading"
      /\ UNCHANGED <<kind, disk, manifest, takes, job, overruns>>
  BY DEF ReadDigests, At, files
<1>3. disk["transcript"] \in Nat
  BY DEF IInv, WorkspaceType, Files
<1>4. /\ DOMAIN next = Fields /\ next.listed = worker[w].listed /\ next.n = worker[w].n
      /\ next.take \in Nat /\ next.transcript \in Nat
      /\ next.pc \in {"returning", "failing"}
  BY <1>1, <1>3 DEF IInv, WorkspaceType, Fields, Refused
<1>5. overruns = 0 => worker[w].listed = Listing /\ Found /\ manifest = Listing
  BY <1>2 DEF IInv, Collected
<1> QED
  BY <1>1, <1>2, <1>4, <1>5, LookingKeeps

\* A worker that has got as far as a command, a clean-up or a new manifest is
\* alone, and nothing was accepted yet: whatever it does to the files.
LEMMA WritingKeeps ==
  ASSUME IInv, NEW w \in Workers, NEW context, Goto(w, context),
         DOMAIN context = Fields, context.take \in Nat, context.transcript \in Nat,
         context.n = worker[w].n,
         worker[w].pc \in {"persisting", "starting", "writing", "cleaning"},
         disk' \in [Files -> Nat], takes' \in Nat,
         UNCHANGED <<kind, job, overruns>>,
         overruns = 0 => context.pc # "persisting",
         overruns = 0 /\ context.pc \in {"reading", "returning"} =>
           context.listed = Listing' /\ Found' /\ manifest' = Listing'
  PROVE  IInv'
<1>1. /\ DOMAIN worker' = Workers /\ worker'[w] = context
      /\ \A v \in Workers : v # w => worker'[v] = worker[v]
  BY Moves
<1>2. UNCHANGED <<status, attempt, accepted, published>>
  BY DEF job
<1>3. WorkspaceType' /\ AcceptedFirst'
  BY <1>1, <1>2 DEF IInv, WorkspaceType, AcceptedFirst
<1>4. OneWriter'
  BY <1>1, <1>2 DEF IInv, OneWriter, Leased
<1>5. overruns = 0 => \A v \in Workers : v # w => worker[v].pc = "idle"
  BY DEF IInv, OneWriter
<1>6. Collected'
  BY <1>1, <1>5 DEF Collected
<1>7. overruns = 0 => accepted = <<>>
  BY DEF IInv, KeptInPlace
<1>8. KeptInPlace'
  BY <1>2, <1>7 DEF KeptInPlace
<1> QED
  BY <1>3, <1>4, <1>6, <1>8 DEF IInv

LEMMA PersistKeeps ==
  ASSUME IInv, NEW w \in Workers, Persist(w)
  PROVE  IInv'
<1>1. PICK next : Goto(w, next) /\ next = [worker[w] EXCEPT !.pc = "reading"]
  BY DEF Persist
<1>2. /\ worker[w].pc = "persisting" /\ manifest' = worker[w].listed
      /\ UNCHANGED <<kind, disk, takes, job, overruns>>
  BY DEF Persist, At
<1>3. /\ DOMAIN next = Fields /\ next.listed = worker[w].listed /\ next.n = worker[w].n
      /\ next.take \in Nat /\ next.transcript \in Nat /\ next.pc = "reading"
  BY <1>1 DEF IInv, WorkspaceType, Fields
<1>4. overruns = 0 => worker[w].listed = Listing /\ Found
  BY <1>2 DEF IInv, Collected
<1>5. disk' \in [Files -> Nat] /\ takes' \in Nat
  BY <1>2 DEF IInv, WorkspaceType
<1> QED
  BY <1>1, <1>2, <1>3, <1>4, <1>5, SameFiles, WritingKeeps

\* The parts of a context that a command or a clean-up leaves alone.
LEMMA CleaningContext ==
  ASSUME IInv, NEW w \in Workers, NEW retryable, NEW next,
         next = Cleaning(worker[w], retryable)
  PROVE  /\ DOMAIN next = Fields /\ next.n = worker[w].n /\ next.pc = "cleaning"
         /\ next.take \in Nat /\ next.transcript \in Nat
  BY DEF IInv, WorkspaceType, Cleaning, Fields

LEMMA CommandKeeps ==
  ASSUME IInv, NEW w \in Workers,
         StartCommand(w) \/ WriteFile(w) \/ CommandFails(w) \/ CleanUp(w)
  PROVE  IInv'
<1>1. /\ worker[w].pc \in {"starting", "writing", "cleaning"}
      /\ UNCHANGED <<kind, job, overruns>>
  BY DEF StartCommand, WriteFile, CommandFails, CleanUp, At
<1>2. /\ disk \in [Files -> Nat] /\ takes \in Nat /\ DOMAIN worker[w] = Fields
      /\ worker[w].take \in Nat /\ worker[w].transcript \in Nat
  BY DEF IInv, WorkspaceType
<1>3. CASE StartCommand(w)
  <2>1. CASE Accepts(kind)
    <3>1. PICK next :
            Goto(w, next) /\ next = [worker[w] EXCEPT !.pc = "writing", !.take = takes', !.next = 1]
      BY <1>3, <2>1 DEF StartCommand
    <3>2. takes' \in Nat /\ disk' = disk
      BY <1>2, <1>3, <2>1 DEF StartCommand
    <3>3. /\ DOMAIN next = Fields /\ next.n = worker[w].n /\ next.pc = "writing"
          /\ next.take \in Nat /\ next.transcript \in Nat
      BY <1>2, <3>1, <3>2 DEF Fields
    <3> QED
      BY <1>1, <1>2, <3>1, <3>2, <3>3, WritingKeeps
  <2>2. CASE ~Accepts(kind)
    <3>1. PICK next : Goto(w, next) /\ next = Cleaning(worker[w], FALSE)
      BY <1>3, <2>2 DEF StartCommand
    <3>2. takes' = takes /\ disk' = disk
      BY <1>3, <2>2 DEF StartCommand
    <3> QED
      BY <1>1, <1>2, <3>1, <3>2, CleaningContext, WritingKeeps
  <2> QED
    BY <2>1, <2>2
<1>4. CASE WriteFile(w)
  <2>1. PICK next :
          /\ Goto(w, next)
          /\ \/ next = [worker[w] EXCEPT !.pc = "looking", !.final = TRUE]
             \/ next = [worker[w] EXCEPT !.next = worker[w].next + 1]
    BY <1>4 DEF WriteFile
  <2>2. /\ worker[w].pc = "writing" /\ takes' = takes
        /\ \E f : disk' = [disk EXCEPT ![f] = worker[w].take]
    BY <1>4 DEF WriteFile, At
  <2>3. disk' \in [Files -> Nat]
    BY <1>2, <2>2
  <2>4. /\ DOMAIN next = Fields /\ next.n = worker[w].n /\ next.pc \in {"looking", "writing"}
        /\ next.take \in Nat /\ next.transcript \in Nat
    BY <1>2, <2>1, <2>2 DEF Fields
  <2> QED
    BY <1>1, <1>2, <2>1, <2>2, <2>3, <2>4, WritingKeeps
<1>5. CASE CommandFails(w)
  <2>1. PICK retryable, next : Goto(w, next) /\ next = Cleaning(worker[w], retryable)
    BY <1>5 DEF CommandFails
  <2>2. takes' = takes /\ disk' = disk
    BY <1>5 DEF CommandFails, files
  <2> QED
    BY <1>1, <1>2, <2>1, <2>2, CleaningContext, WritingKeeps
<1>6. CASE CleanUp(w)
  <2>1. PICK part \in worker[w].todo :
          /\ disk' = IF part = "root"
                       THEN [f \in Files |-> IF f \in OutputFiles(kind) THEN 0 ELSE disk[f]]
                       ELSE disk
          /\ Goto(w, IF worker[w].todo = {part}
                       THEN [worker[w] EXCEPT !.pc = "failing", !.todo = {}]
                       ELSE [worker[w] EXCEPT !.todo = worker[w].todo \ {part}])
    BY <1>6 DEF CleanUp
  <2>2. worker[w].pc = "cleaning" /\ takes' = takes
    BY <1>6 DEF CleanUp, At
  <2>3. disk' \in [Files -> Nat]
    BY <1>2, <2>1
  <2>4. PICK next :
          /\ Goto(w, next)
          /\ \/ next = [worker[w] EXCEPT !.pc = "failing", !.todo = {}]
             \/ next = [worker[w] EXCEPT !.todo = worker[w].todo \ {part}]
    BY <2>1
  <2>5. /\ DOMAIN next = Fields /\ next.n = worker[w].n /\ next.pc \in {"failing", "cleaning"}
        /\ next.take \in Nat /\ next.transcript \in Nat
    BY <1>2, <2>2, <2>4 DEF Fields
  <2> QED
    BY <1>1, <1>2, <2>2, <2>3, <2>4, <2>5, WritingKeeps
<1> QED
  BY <1>3, <1>4, <1>5, <1>6

-----------------------------------------------------------------------------
(* What a handler returns.                                                  *)

LEMMA ReturnKeeps ==
  ASSUME IInv, NEW w \in Workers, Return(w)
  PROVE  IInv'
<1>1. /\ worker[w].pc = "returning" /\ Goto(w, Idle)
      /\ UNCHANGED <<kind, disk, manifest, takes, published, overruns>>
  BY DEF Return, At, files
<1>2. \A v \in Workers : /\ DOMAIN worker'[v] = Fields
                         /\ worker'[v].take \in Nat /\ worker'[v].transcript \in Nat
  BY <1>1, Moves, IdleContext DEF IInv, WorkspaceType
<1>3. overruns = 0 => \A v \in Workers : worker'[v].pc = "idle"
  BY <1>1, GoesIdle
<1>4. CASE ~(Holds(w) /\ status = "running")
  <2>1. UNCHANGED <<accepted, status>>
    BY <1>4 DEF Return
  <2> QED
    BY <1>1, <1>2, <1>3, <2>1, Moves, RestKeeps DEF IInv, WorkspaceType, AcceptedFirst
<1>5. CASE Holds(w) /\ status = "running"
  <2>1. PICK set : set = [listed |-> worker[w].listed, transcript |-> worker[w].transcript]
    OBVIOUS
  <2>2. accepted' = Append(accepted, set) /\ status' = "review"
    BY <1>5, <2>1 DEF Return
  <2>3. overruns = 0 => worker[w].listed = Listing /\ Found /\ manifest = Listing
    BY <1>1 DEF IInv, Collected
  <2>4. overruns = 0 =>
          /\ accepted \in Seq(ArtifactSet) /\ published \in {None, Listing}
          /\ set \in ArtifactSet /\ set.listed = Listing
    <3>1. worker[w].transcript \in Nat /\ Listing \in Listings
      BY ListingType DEF IInv, WorkspaceType
    <3> QED
      BY <2>1, <2>3, <3>1 DEF IInv, KeptInPlace, AcceptedFirst, Last, ArtifactSet
  <2>5. overruns = 0 =>
          accepted' \in Seq(ArtifactSet) /\ accepted' # <<>> /\ Last' = Listing
    BY <2>2, <2>4, AppendedIsLast DEF Last
  <2>6. WorkspaceType' /\ OneWriter' /\ Collected'
    BY <1>1, <1>2, <1>3, Moves DEF IInv, WorkspaceType, OneWriter, Collected
  <2>7. KeptInPlace'
    BY <1>1, <1>3, <2>3, <2>4, <2>5, SameFiles DEF KeptInPlace
  <2>8. AcceptedFirst'
    BY <1>1, <2>5 DEF AcceptedFirst
  <2> QED
    BY <2>6, <2>7, <2>8 DEF IInv
<1> QED
  BY <1>4, <1>5

\* The publication lists again what was accepted.
LEMMA PublishKeeps ==
  ASSUME IInv, NEW w \in Workers, PublishReturns(w)
  PROVE  IInv'
<1>1. /\ worker[w].pc = "returning" /\ status = "publishing" /\ Goto(w, Idle)
      /\ UNCHANGED <<kind, disk, manifest, takes, accepted, overruns>>
  BY DEF PublishReturns, At, files
<1>2. \A v \in Workers : /\ DOMAIN worker'[v] = Fields
                         /\ worker'[v].take \in Nat /\ worker'[v].transcript \in Nat
  BY <1>1, Moves, IdleContext DEF IInv, WorkspaceType
<1>3. overruns = 0 => \A v \in Workers : worker'[v].pc = "idle"
  BY <1>1, GoesIdle
<1>4. overruns = 0 =>
        accepted # <<>> /\ worker[w].listed = Last /\ published' \in {published, Last}
  BY <1>1 DEF PublishReturns, IInv, AcceptedFirst, KeptInPlace, Collected, Last
<1>5. WorkspaceType' /\ OneWriter' /\ Collected'
  BY <1>1, <1>2, <1>3, Moves DEF IInv, WorkspaceType, OneWriter, Collected
<1>6. KeptInPlace'
  BY <1>1, <1>3, <1>4, SameFiles DEF IInv, KeptInPlace, Last
<1>7. AcceptedFirst'
  BY <1>1, <1>4 DEF IInv, AcceptedFirst
<1> QED
  BY <1>5, <1>6, <1>7 DEF IInv

-----------------------------------------------------------------------------
(* Theorems.                                                                *)

\* The inductive invariant of a stage's files.
THEOREM WorkspaceInvariant == Spec => []IInv
<1>1. Init => IInv
  <2> SUFFICES ASSUME Init PROVE IInv
    OBVIOUS
  <2>1. WorkspaceType
    BY IdleContext, WorkspaceAssumption DEF Init, WorkspaceType
  <2>2. OneWriter /\ Collected
    BY IdleContext DEF Init, OneWriter, Collected
  <2>3. KeptInPlace /\ AcceptedFirst
    BY DEF Init, KeptInPlace, AcceptedFirst
  <2> QED
    BY <2>1, <2>2, <2>3 DEF IInv
<1>2. IInv /\ [Next]_vars => IInv'
  <2> SUFFICES ASSUME IInv, [Next]_vars PROVE IInv'
    OBVIOUS
  <2>1. CASE \E w \in Workers : Claim(w) \/ StartPublish(w)
    BY <2>1, ClaimKeeps
  <2>2. CASE \E w \in Workers : Crash(w) \/ FailAttempt(w)
    BY <2>2, CrashKeeps
  <2>3. CASE \E w \in Workers : Look(w) \/ Persist(w) \/ ReadDigests(w)
    BY <2>3, LookKeeps, PersistKeeps, ReadKeeps
  <2>4. CASE \E w \in Workers :
               StartCommand(w) \/ WriteFile(w) \/ CommandFails(w) \/ CleanUp(w)
    BY <2>4, CommandKeeps
  <2>5. CASE \E w \in Workers : Return(w) \/ PublishReturns(w)
    BY <2>5, ReturnKeeps, PublishKeeps
  <2>6. CASE Expire
    BY <2>6, ExpireKeeps
  <2>7. CASE Approve \/ SendBack
    BY <2>7, ReviewerKeeps
  <2>8. CASE UNCHANGED vars
    <3>1. UNCHANGED <<kind, disk, manifest, takes, status, attempt, accepted, published,
                      worker, overruns>>
      BY <2>8 DEF vars, files, job
    <3>2. WorkspaceType' /\ OneWriter' /\ AcceptedFirst'
      BY <3>1 DEF IInv, WorkspaceType, OneWriter, AcceptedFirst, Leased
    <3>3. Collected' /\ KeptInPlace'
      BY <3>1, SameFiles DEF IInv, Collected, KeptInPlace, Last
    <3> QED
      BY <3>2, <3>3 DEF IInv
  <2> QED
    BY <2>1, <2>2, <2>3, <2>4, <2>5, <2>6, <2>7, <2>8 DEF Next, Step
<1> QED
  BY <1>1, <1>2, PTL DEF Spec

\* The files of an accepted set stay as they were listed, through crashes,
\* failing commands, a narration sent back and its publication
\* (local-command-stage-handlers.mjs:55-77, local-generation-workspace.mjs:150-186).
THEOREM AcceptedFilesStay == Spec => []AcceptedStaysInLease
<1>1. IInv => AcceptedStaysInLease
  BY DEF IInv, KeptInPlace, AcceptedStaysInLease, Last
<1> QED
  BY <1>1, WorkspaceInvariant, PTL
================================================================================

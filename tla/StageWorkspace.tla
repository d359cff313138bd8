--------------------------- MODULE StageWorkspace ---------------------------
(***************************************************************************)
(* One generation stage of one revision on disk: workers running the       *)
(* command handler of the stage (src/fulfillment/                          *)
(* local-command-stage-handlers.mjs) over the files of its output          *)
(* directory (src/fulfillment/local-generation-workspace.mjs), and the     *)
(* publication that collects the same files again.                         *)
(*                                                                         *)
(* A worker's step ends where the handler awaits the file system.  The job *)
(* is reduced to what the handlers meet: which attempt holds the lease,    *)
(* the output accepted last, and the retries left.  A lease runs out       *)
(* whatever its worker is doing, and nothing stops the worker.             *)
(*                                                                         *)
(* A file is the version of its bytes, 0 while it is absent.  Composing    *)
(* and rendering give the same bytes each time; every narration differs.   *)
(***************************************************************************)
EXTENDS Naturals, Sequences, FiniteSets

CONSTANTS
  StageKinds,    \* the kinds of output explored
  Workers,       \* processes calling runNext
  MaxAttempts,   \* attempts the retry policy allows the stage
  MaxReworks,    \* bound: outputs the reviewer sends back
  MaxFaults,     \* bound: crashes and commands that fail half way
  MaxOverruns,   \* bound: leases that run out under a worker still at work
  None           \* null

Kinds == {"private_review", "prepared_bundle", "narration_review"}
Files == {"source", "page", "transcript", "media", "record"}

ASSUME WorkspaceAssumption ==
  /\ StageKinds \subseteq Kinds
  /\ {MaxAttempts, MaxReworks, MaxFaults, MaxOverruns} \subseteq Nat
  /\ \A S \in SUBSET Files : None \notin [S -> Nat]  \* null is no listing

\* The order a command writes its files in: `record` is the dossier, the
\* job snapshot or the narration review, and always comes last.
Output(k) ==
  CASE k = "private_review"   -> <<"source", "page", "transcript", "media", "record">>
    [] k = "prepared_bundle"  -> <<"page", "transcript", "media", "record">>
    [] k = "narration_review" -> <<"media", "transcript", "record">>

OutputFiles(k) == {Output(k)[i] : i \in DOMAIN Output(k)}

Required_PageOnly(k) == OutputFiles(k) \cap {"page"}

\* ARTIFACT_LAYOUTS: what is listed, and what has to exist in the stage's root.
Inventoried(k) == IF k = "private_review" THEN OutputFiles(k) ELSE OutputFiles(k) \ {"record"}
Required(k) == OutputFiles(k) \cap {"page", "transcript"}

VARIABLES
  kind,         \* the stage explored
  disk,         \* disk[f]: the version of file f
  manifest,     \* the persisted manifest: the listing it froze, or None
  takes,        \* narrations generated so far
  status,       \* queued, running, review, approved, publishing, published, failed
  attempt,      \* attempts claimed
  accepted,     \* the artifact sets the store took, in order
  published,    \* the listing whose manifest the publication names
  worker, reworks, faults, overruns,
  mishaps       \* history: "failed" - a command failed half way; "torn" - a
                \* worker died with page and transcript written, the rest not

files == <<disk, manifest, takes>>
job   == <<status, attempt, accepted, published>>
vars  == <<kind, files, job, worker, reworks, faults, overruns, mishaps>>

Idle == [pc |-> "idle", n |-> 0, final |-> FALSE, listed |-> <<>>, transcript |-> 0,
         take |-> 0, next |-> 1, todo |-> {}, retryable |-> FALSE]

Init ==
  /\ kind \in StageKinds
  /\ disk = [f \in Files |-> 0] /\ manifest = None /\ takes = 0
  /\ status = "queued" /\ attempt = 0 /\ accepted = <<>> /\ published = None
  /\ worker = [w \in Workers |-> Idle]
  /\ reworks = 0 /\ faults = 0 /\ overruns = 0 /\ mishaps = {}

Goto(w, context) == worker' = [worker EXCEPT ![w] = context]
At(w, pc) == worker[w].pc = pc
Holds(w) == worker[w].pc # "idle" /\ worker[w].n = attempt
Leased == status \in {"running", "publishing"}

Listing == [f \in {g \in Inventoried(kind) : disk[g] # 0} |-> disk[f]]
Present == \A f \in Required(kind) : disk[f] # 0

-----------------------------------------------------------------------------
(* runNext around the handler.                                              *)

Claim(w) ==
  /\ At(w, "idle")
  /\ status = "queued"
  /\ attempt < MaxAttempts
  /\ attempt' = attempt + 1
  /\ status' = "running"
  /\ Goto(w, [Idle EXCEPT !.pc = "looking", !.n = attempt'])
  /\ UNCHANGED <<kind, files, accepted, published, reworks, faults, overruns, mishaps>>

\* The lease of a worker that died runs out, or of one that is only slow.
Expire ==
  /\ status = "running"
  /\ LET alive == \E w \in Workers : Holds(w) IN
     /\ alive => overruns < MaxOverruns
     /\ overruns' = IF alive THEN overruns + 1 ELSE overruns
  /\ status' = IF attempt < MaxAttempts THEN "queued" ELSE "failed"
  /\ UNCHANGED <<kind, files, attempt, accepted, published, worker, reworks, faults, mishaps>>

\* A failure is recorded only for the attempt that holds the lease.
FailAttempt(w) ==
  /\ At(w, "failing")
  /\ status' = IF ~(Holds(w) /\ Leased) THEN status
               ELSE IF worker[w].retryable /\ attempt < MaxAttempts /\ status = "running"
                 THEN "queued" ELSE "failed"
  /\ Goto(w, Idle)
  /\ UNCHANGED <<kind, files, attempt, accepted, published, reworks, faults, overruns, mishaps>>

\* The artifact set a handler returned is recorded under the lease only.
Return(w) ==
  LET context == worker[w] IN
  /\ At(w, "returning")
  /\ status # "publishing"
  /\ IF Holds(w) /\ status = "running"
       THEN /\ accepted' = Append(accepted, [listed |-> context.listed,
                                             transcript |-> context.transcript])
            /\ status' = "review"
       ELSE UNCHANGED <<accepted, status>>
  /\ Goto(w, Idle)
  /\ UNCHANGED <<kind, files, attempt, published, reworks, faults, overruns, mishaps>>

-----------------------------------------------------------------------------
(* The handler: collect what is there, else run the command and collect.    *)

Refused(context) == [context EXCEPT !.pc = "failing", !.retryable = FALSE]

Look_RunsAgain(w) ==
  LET context == [worker[w] EXCEPT !.listed = Listing] IN
  /\ At(w, "looking")
  /\ Goto(w, IF ~context.final THEN [context EXCEPT !.pc = "starting"]
             ELSE IF manifest = None THEN [context EXCEPT !.pc = "persisting"]
             ELSE [context EXCEPT !.pc = "reading"])
  /\ UNCHANGED <<kind, files, job, reworks, faults, overruns, mishaps>>

\* collectArtifactSet up to the manifest.  A look that finds nothing ends the
\* handler after its command, and starts the command before it; a divergent
\* manifest ends it either way, and nothing is cleaned up.
Look(w) ==
  LET context == [worker[w] EXCEPT !.listed = Listing]
      found == Present /\ DOMAIN Listing # {} IN
  /\ At(w, "looking")
  /\ Goto(w, CASE ~found /\ ~context.final -> [context EXCEPT !.pc = "starting"]
               [] ~found /\ context.final  -> Refused(context)
               [] found /\ manifest = None -> [context EXCEPT !.pc = "persisting"]
               [] found /\ manifest = Listing -> [context EXCEPT !.pc = "reading"]
               [] found /\ manifest \notin {None, Listing} -> Refused(context))
  /\ UNCHANGED <<kind, files, job, reworks, faults, overruns, mishaps>>

Persist(w) ==
  /\ At(w, "persisting")
  /\ manifest' = worker[w].listed
  /\ Goto(w, [worker[w] EXCEPT !.pc = "reading"])
  /\ UNCHANGED <<kind, disk, takes, job, reworks, faults, overruns, mishaps>>

\* The page and the transcript are read once more for their digests.
ReadDigests(w) ==
  /\ At(w, "reading")
  /\ Goto(w, IF Present
               THEN [worker[w] EXCEPT !.pc = "returning", !.transcript = disk["transcript"]]
               ELSE Refused(worker[w]))
  /\ UNCHANGED <<kind, files, job, reworks, faults, overruns, mishaps>>

Accepts_FreshOnly(k) == \A f \in OutputFiles(k) : disk[f] = 0

\* What a command asks of its output directory before it writes.
Accepts(k) ==
  LET held == {f \in OutputFiles(k) : disk[f] # 0} IN
  CASE k = "private_review"   -> held \in {{}, OutputFiles(k)}
    [] k = "prepared_bundle"  -> TRUE
    [] k = "narration_review" -> held = {}

Cleaning(context, retryable) ==
  [context EXCEPT !.pc = "cleaning", !.todo = {"root", "manifest"}, !.retryable = retryable]

StartCommand(w) ==
  /\ At(w, "starting")
  /\ IF Accepts(kind)
       THEN /\ takes' = IF kind = "narration_review" THEN takes + 1 ELSE 1
            /\ Goto(w, [worker[w] EXCEPT !.pc = "writing", !.take = takes', !.next = 1])
       ELSE Goto(w, Cleaning(worker[w], FALSE)) /\ UNCHANGED takes
  /\ UNCHANGED <<kind, disk, manifest, job, reworks, faults, overruns, mishaps>>

WriteFile(w) ==
  LET context == worker[w]
      last == context.next = Len(Output(kind)) IN
  /\ At(w, "writing")
  /\ disk' = [disk EXCEPT ![Output(kind)[context.next]] = context.take]
  /\ Goto(w, IF last THEN [context EXCEPT !.pc = "looking", !.final = TRUE]
             ELSE [context EXCEPT !.next = @ + 1])
  /\ UNCHANGED <<kind, manifest, takes, job, reworks, faults, overruns, mishaps>>

CommandFails(w) ==
  /\ At(w, "writing")
  /\ faults < MaxFaults /\ faults' = faults + 1
  /\ mishaps' = mishaps \cup {"failed"}
  /\ \E retryable \in BOOLEAN : Goto(w, Cleaning(worker[w], retryable))
  /\ UNCHANGED <<kind, files, job, reworks, overruns>>

\* cleanupStageOutput removes the directory and the manifest in either order.
CleanUp(w) ==
  /\ At(w, "cleaning")
  /\ \E part \in worker[w].todo :
       /\ disk' = IF part = "root"
                    THEN [f \in Files |-> IF f \in OutputFiles(kind) THEN 0 ELSE disk[f]]
                    ELSE disk
       /\ manifest' = IF part = "manifest" THEN None ELSE manifest
       /\ Goto(w, IF worker[w].todo = {part}
                    THEN [worker[w] EXCEPT !.pc = "failing", !.todo = {}]
                    ELSE [worker[w] EXCEPT !.todo = @ \ {part}])
  /\ UNCHANGED <<kind, takes, job, reworks, faults, overruns, mishaps>>

Crash(w) ==
  /\ ~At(w, "idle")
  /\ faults < MaxFaults /\ faults' = faults + 1
  /\ Goto(w, Idle)
  /\ mishaps' = IF At(w, "writing") /\ \A f \in {"page", "transcript"} : disk[f] # 0
                  THEN mishaps \cup {"torn"} ELSE mishaps
  /\ UNCHANGED <<kind, files, job, reworks, overruns>>

-----------------------------------------------------------------------------
(* The reviewer, and the publish handler.                                   *)

Approve ==
  /\ status = "review"
  /\ status' = "approved"
  /\ UNCHANGED <<kind, files, attempt, accepted, published, worker, reworks, faults,
                 overruns, mishaps>>

\* A narration sent back is generated again under the same revision.
SendBack ==
  /\ status = "review"
  /\ kind = "narration_review"
  /\ reworks < MaxReworks /\ reworks' = reworks + 1
  /\ status' = "queued"
  /\ UNCHANGED <<kind, files, attempt, accepted, published, worker, faults, overruns, mishaps>>

\* publish collects the released kind once more; its own lease is not modelled.
StartPublish(w) ==
  /\ At(w, "idle")
  /\ status = "approved"
  /\ status' = "publishing"
  /\ Goto(w, [Idle EXCEPT !.pc = "looking", !.n = attempt, !.final = TRUE])
  /\ UNCHANGED <<kind, files, attempt, accepted, published, reworks, faults, overruns, mishaps>>

\* The store takes a publication only of the release's manifest.
PublishReturns(w) ==
  LET listed == worker[w].listed
      matches == listed = accepted[Len(accepted)].listed IN
  /\ At(w, "returning")
  /\ status = "publishing"
  /\ IF Holds(w)
       THEN /\ status' = IF matches THEN "published" ELSE "failed"
            /\ published' = IF matches THEN listed ELSE published
       ELSE UNCHANGED <<status, published>>
  /\ Goto(w, Idle)
  /\ UNCHANGED <<kind, files, attempt, accepted, reworks, faults, overruns, mishaps>>

Step(w) ==
  \/ FailAttempt(w) \/ Return(w) \/ Look(w) \/ Persist(w) \/ ReadDigests(w)
  \/ StartCommand(w) \/ WriteFile(w) \/ CleanUp(w) \/ PublishReturns(w)

Next ==
  \/ \E w \in Workers : Claim(w) \/ StartPublish(w) \/ Step(w) \/ CommandFails(w) \/ Crash(w)
  \/ Expire \/ Approve \/ SendBack

Spec == Init /\ [][Next]_vars

\* Workers poll and finish what they began; leases run out.
FairSpec ==
  /\ Spec
  /\ \A w \in Workers : WF_vars(Step(w))
  /\ WF_vars(\E w \in Workers : Claim(w))
  /\ WF_vars(Expire)

-----------------------------------------------------------------------------
\* The files of an accepted set stay as they were listed, through crashes,
\* failing commands, a narration sent back and the publication that lists
\* them again, as long as no lease runs out under a worker at work
\* (local-command-stage-handlers.mjs:55-77, local-generation-workspace.mjs:150-186).
AcceptedStaysInLease ==
  overruns = 0 /\ accepted # <<>> =>
    LET last == accepted[Len(accepted)].listed IN
    /\ Listing = last /\ manifest = last
    /\ published \in {None, last}

Whole == \A f \in OutputFiles(kind) : disk[f] # 0

\* Rendering survives a crash: in the end the bundle is accepted, and with every
\* file of it, the uninventoried job snapshot included, unless a command itself
\* failed or a lease ran out under a worker at work.  Only a worker that died
\* between the transcript and the rest makes the retry accept less
\* (local-command-stage-handlers.mjs:65-77, local-generation-workspace.mjs:142).
CrashIsRetried ==
  (kind = "prepared_bundle") ~>
    \/ accepted # <<>> /\ (Whole \/ "torn" \in mishaps)
    \/ "failed" \in mishaps \/ overruns > 0

\* "generation handlers reuse complete artifacts" (generation-stage-workspace
\* test, line 115): an accepted set lists every file its command writes.
AcceptedIsComplete ==
  \A i \in DOMAIN accepted : DOMAIN accepted[i].listed = Inventoried(kind)
=============================================================================

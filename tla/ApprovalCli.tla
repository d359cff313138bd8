----------------------------- MODULE ApprovalCli -----------------------------
(***************************************************************************)
(* The operator's commands, from one intake to a public page               *)
(* (scripts/lib/commands.mjs): prepare-review, approve-review, render,     *)
(* tts, approve-narration and deploy.                                      *)
(*                                                                         *)
(* Nothing but files is kept between two commands, and every command       *)
(* trusts the files of the earlier ones only as far as their digests and   *)
(* signatures go.  A digest is modelled by the value it is taken of, a     *)
(* signature by membership in `signed`, what the key has signed.  A        *)
(* command runs in steps, one for each thing it writes; between two steps  *)
(* it may crash, the checked-out template and catalog may be upgraded, and *)
(* an operator may edit a file by hand.                                    *)
(***************************************************************************)
EXTENDS NameResolution

CONSTANTS
  Submitted,      \* the intake
  Catalogs, Templates, \* what may be checked out
  Selections,     \* --select: suggestion ids, or None
  HandWritten,    \* a draft that an operator wrote
  MaxApprovals, MaxTakes,
  MaxFaults       \* upgrades, edits, crashes and removed roots

ASSUME CliAssumption ==
  /\ {MaxApprovals, MaxTakes, MaxFaults} \subseteq Nat
  /\ Submitted \in Intake
  /\ \A c \in Catalogs : IsCatalog(c)
  /\ Catalogs # {} /\ Templates # {}

Roots == {"base", "final"}  \* output roots: the prepared base, the narrated one

VARIABLES
  template, catalog, \* checked out
  review,    \* the private review root
  approved,  \* the content approval's root
  out,       \* the prepared roots
  voiced,    \* the narration review root
  live,      \* what the host serves
  signed,    \* every record signed with the operator's key
  op,        \* the running command
  bounds     \* how often each bounded thing happened

material == <<template, catalog>>
files == <<review, approved, out, voiced>>
vars == <<template, catalog, review, approved, out, voiced, live, signed, op, bounds>>

Idle == [cmd |-> "idle"]
EmptyReview == [page |-> None, preview |-> None, dossier |-> None]
EmptyApproved == [page |-> None, approval |-> None]
EmptyVoiced == [media |-> 0, times |-> 0, review |-> None]
\* A root without job.json is refused like one whose job was never approved.
NoJob == [approval |-> None, narration |-> None, url |-> FALSE]
EmptyOut == [page |-> None, bundle |-> [draft |-> None, template |-> None, times |-> 0, media |-> 0],
             job |-> NoJob, narration |-> None, heard |-> EmptyVoiced]

Init ==
  /\ template \in Templates /\ catalog \in Catalogs
  /\ review = EmptyReview /\ approved = EmptyApproved
  /\ out = [r \in Roots |-> EmptyOut] /\ voiced = EmptyVoiced
  /\ live = None /\ signed = {} /\ op = Idle
  /\ bounds = [approvals |-> 0, takes |-> 0, faults |-> 0]

Count(what) == bounds' = [bounds EXCEPT ![what] = @ + 1]
Running(cmd, at) == op.cmd = cmd /\ op.at = at
Proceed(at) == op' = [op EXCEPT !.at = at]

\* writeProjectionArtifacts into a fresh root: estimated times, no audio.
Projection(draft) == [draft |-> draft, template |-> template, times |-> 0, media |-> 0]
Material(selection) == [catalog |-> catalog, template |-> template, selection |-> selection]

-----------------------------------------------------------------------------
(* prepare-review                                                           *)

\* assertPrivateOutputCompatible: an empty root, or a complete one of the same
\* material whose preview nobody touched.
Compatible(m) ==
  \/ review = EmptyReview
  \/ /\ review.dossier # None
     /\ review.dossier.material = m /\ review.dossier.preview = review.preview

PrepareReview(selection) ==
  LET m == Material(selection)
      composed == Compose(Submitted, catalog, selection) IN
  /\ op = Idle
  /\ Compatible(m)
  /\ composed.state = "draft_created"
  /\ op' = [cmd |-> "prepare", at |-> "render", material |-> m, draft |-> composed.draft]
  /\ UNCHANGED <<material, files, live, signed, bounds>>

WritePreview ==
  /\ Running("prepare", "render")
  /\ review' = [review EXCEPT !.page = op.draft,
                              !.preview = [draft |-> op.draft, template |-> template]]
  /\ Proceed("dossier")
  /\ UNCHANGED <<material, approved, out, voiced, live, signed, bounds>>

WriteDossier ==
  /\ Running("prepare", "dossier")
  /\ review' = [review EXCEPT !.dossier =
       [draft |-> op.draft, preview |-> review.preview, material |-> op.material]]
  /\ op' = Idle
  /\ UNCHANGED <<material, approved, out, voiced, live, signed, bounds>>

-----------------------------------------------------------------------------
(* approve-review                                                           *)

Reviewable_ByPreview ==
  LET dossier == review.dossier IN
  /\ dossier # None
  /\ dossier.material = Material(dossier.material.selection)
  /\ review.preview = dossier.preview

Reviewable ==
  LET dossier == review.dossier IN
  /\ dossier # None
  /\ dossier.material = Material(dossier.material.selection)
  /\ review.page = dossier.draft
  /\ review.preview.draft = review.page
  /\ review.preview = dossier.preview

ApproveReview ==
  /\ op = Idle /\ approved = EmptyApproved
  /\ Reviewable
  /\ bounds.approvals < MaxApprovals /\ Count("approvals")
  /\ op' = [cmd |-> "approve", at |-> "sign", dossier |-> review.dossier,
            page |-> [draft |-> review.page, stamp |-> bounds.approvals + 1]]
  /\ UNCHANGED <<material, files, live, signed>>

\* The projection is computed from the template of now; the record is signed,
\* and the approved page is the first file written.
SignReview ==
  LET approval == [kind |-> "content", page |-> op.page, dossier |-> op.dossier,
                   bundle |-> Projection(op.page.draft)] IN
  /\ Running("approve", "sign")
  /\ signed' = signed \cup {approval}
  /\ approved' = [approved EXCEPT !.page = op.page]
  /\ op' = [cmd |-> "approve", at |-> "write", approval |-> approval]
  /\ UNCHANGED <<material, review, out, voiced, live, bounds>>

WriteApproval ==
  /\ Running("approve", "write")
  /\ approved' = [approved EXCEPT !.approval = op.approval]
  /\ op' = Idle
  /\ UNCHANGED <<material, review, out, voiced, live, signed, bounds>>

\* verifyApprovalArtifact
ApprovalHolds ==
  /\ approved.approval # None
  /\ approved.approval \in signed
  /\ approved.approval.page = approved.page

-----------------------------------------------------------------------------
(* What deploy, send, tts and approve-narration ask of a prepared root.     *)

\* assertNarrationArtifactInventory: every segment is there, with its time.
Inventory(v) == v.media # 0 /\ v.times # 0

\* assertAuthenticatedNarrationApproval
Narrated(r) ==
  LET n == out[r].narration
      heard == out[r].heard
      expected == [Projection(approved.page.draft) EXCEPT !.times = heard.times,
                                                          !.media = heard.media] IN
  /\ n # None /\ n \in signed
  /\ Inventory(heard)
  /\ n.approval = out[r].job.approval
  /\ n.review = heard.review
  /\ n.review.approval = n.approval
  /\ n.review.media = n.media
  /\ n.media = <<heard.media, heard.times>>
  /\ out[r].job.narration = n
  /\ n.bundle = expected /\ out[r].bundle = expected

\* assertApprovedPreparedRevision
Deployable_AnyBundle(r) ==
  LET job == out[r].job IN
  /\ job.approval # None
  /\ ApprovalHolds
  /\ out[r].page = approved.page
  /\ out[r].bundle.draft = approved.page.draft
  /\ job.approval = approved.approval
  /\ job.approval.bundle = Projection(approved.page.draft)
  /\ job.narration # None => Narrated(r)

Deployable(r) ==
  LET job == out[r].job IN
  /\ job.approval # None
  /\ ApprovalHolds
  /\ out[r].page = approved.page
  /\ out[r].bundle.draft = approved.page.draft
  /\ job.approval = approved.approval
  /\ job.approval.bundle = Projection(approved.page.draft)
  /\ IF job.narration # None THEN Narrated(r) ELSE out[r].bundle = job.approval.bundle

-----------------------------------------------------------------------------
(* render, of an approved page, or of the draft with --allow-draft          *)

Render(r) ==
  /\ op = Idle
  /\ \/ /\ ApprovalHolds
        /\ op' = [cmd |-> "render", at |-> "assets", root |-> r, page |-> approved.page,
                  approval |-> approved.approval]
     \/ /\ review.page # None
        /\ op' = [cmd |-> "render", at |-> "assets", root |-> r,
                  page |-> [draft |-> review.page, stamp |-> 0], approval |-> None]
  /\ UNCHANGED <<material, files, live, signed, bounds>>

Rendering(at) == op.cmd \in {"render", "narrate"} /\ op.at = at

RenderAssets ==
  /\ Rendering("assets")
  /\ out' = [out EXCEPT ![op.root].bundle.template = template]
  /\ Proceed("pages")
  /\ UNCHANGED <<material, review, approved, voiced, live, signed, bounds>>

\* Audio of an earlier narration stays where it is.
RenderPages ==
  /\ Rendering("pages")
  /\ out' = [out EXCEPT ![op.root].page = op.page,
                        ![op.root].bundle.draft = op.page.draft,
                        ![op.root].bundle.times = 0]
  /\ Proceed("job")
  /\ UNCHANGED <<material, review, approved, voiced, live, signed, bounds>>

\* A bundle other than the approved one is an error that leaves it there, and
\* the job as it was.
RenderJob ==
  LET reproduced == op.approval = None \/ out[op.root].bundle = op.approval.bundle IN
  /\ Rendering("job")
  /\ out' = IF reproduced THEN [out EXCEPT ![op.root].job.approval = op.approval] ELSE out
  /\ IF reproduced /\ op.cmd = "narrate" THEN Proceed("copy") ELSE op' = Idle
  /\ UNCHANGED <<material, review, approved, voiced, live, signed, bounds>>

-----------------------------------------------------------------------------
(* tts                                                                      *)

Tts ==
  /\ op = Idle /\ voiced = EmptyVoiced
  /\ Deployable("base")
  /\ bounds.takes < MaxTakes /\ Count("takes")
  /\ op' = [cmd |-> "tts", at |-> "generate", approval |-> out["base"].job.approval]
  /\ UNCHANGED <<material, files, live, signed>>

\* The provider answers every section, or a language fails part of the way: no
\* manifest, so the transcript keeps its estimated times.
Generate_IntoBase ==
  /\ Running("tts", "generate")
  /\ \E ok \in BOOLEAN :
       /\ voiced' = [voiced EXCEPT !.media = bounds.takes, !.times = IF ok THEN bounds.takes ELSE 0]
       /\ out' = [out EXCEPT !["base"].bundle.media = bounds.takes]
       /\ op' = [cmd |-> "tts", at |-> "record", approval |-> op.approval, ok |-> ok]
  /\ UNCHANGED <<material, review, approved, live, signed, bounds>>

Generate ==
  /\ Running("tts", "generate")
  /\ \E ok \in BOOLEAN :
       /\ voiced' = [voiced EXCEPT !.media = bounds.takes, !.times = IF ok THEN bounds.takes ELSE 0]
       /\ op' = [cmd |-> "tts", at |-> "record", approval |-> op.approval, ok |-> ok]
  /\ UNCHANGED <<material, review, approved, out, live, signed, bounds>>

RecordTake ==
  /\ Running("tts", "record")
  /\ voiced' = [voiced EXCEPT !.review =
       [approval |-> op.approval, ok |-> op.ok, media |-> <<voiced.media, voiced.times>>]]
  /\ op' = Idle
  /\ UNCHANGED <<material, review, approved, out, live, signed, bounds>>

-----------------------------------------------------------------------------
(* approve-narration                                                        *)

Hearable ==
  /\ voiced.review # None /\ voiced.review.ok
  /\ voiced.review.media = <<voiced.media, voiced.times>>
  /\ Deployable("base")
  /\ out["base"].job.approval = voiced.review.approval
  /\ Inventory(voiced)

ApproveNarration ==
  /\ op = Idle /\ out["final"] = EmptyOut
  /\ Hearable
  /\ op' = [cmd |-> "narrate", at |-> "assets", root |-> "final", page |-> approved.page,
            approval |-> approved.approval, review |-> voiced.review]
  /\ UNCHANGED <<material, files, live, signed, bounds>>

CopyTake ==
  /\ Running("narrate", "copy")
  /\ out' = [out EXCEPT !["final"].bundle.times = voiced.times,
                        !["final"].bundle.media = voiced.media]
  /\ Proceed("sign")
  /\ UNCHANGED <<material, review, approved, voiced, live, signed, bounds>>

SignNarration ==
  LET n == [kind |-> "narration", approval |-> op.review.approval, review |-> op.review,
            media |-> op.review.media, bundle |-> out["final"].bundle] IN
  /\ Running("narrate", "sign")
  /\ signed' = signed \cup {n}
  /\ out' = [out EXCEPT !["final"].heard = voiced, !["final"].narration = n]
  /\ Proceed("bind")
  /\ UNCHANGED <<material, review, approved, voiced, live, bounds>>

BindNarration ==
  /\ Running("narrate", "bind")
  /\ out' = [out EXCEPT !["final"].job.narration = out["final"].narration]
  /\ op' = Idle
  /\ UNCHANGED <<material, review, approved, voiced, live, signed, bounds>>

-----------------------------------------------------------------------------
(* deploy                                                                   *)

Deploy(r) ==
  /\ op = Idle
  /\ Deployable(r)
  /\ op' = [cmd |-> "deploy", at |-> "upload", root |-> r, job |-> out[r].job]
  /\ UNCHANGED <<material, files, live, signed, bounds>>

Upload ==
  /\ Running("deploy", "upload")
  /\ live' = out[op.root].bundle
  /\ Proceed("job")
  /\ UNCHANGED <<material, files, signed, bounds>>

RecordDeploy ==
  /\ Running("deploy", "job")
  /\ out' = [out EXCEPT ![op.root].job = [op.job EXCEPT !.url = TRUE]]
  /\ op' = Idle
  /\ UNCHANGED <<material, review, approved, voiced, live, signed, bounds>>

-----------------------------------------------------------------------------
(* What goes on around the commands.                                        *)

Crash ==
  /\ op # Idle
  /\ bounds.faults < MaxFaults /\ Count("faults")
  /\ op' = Idle
  /\ UNCHANGED <<material, files, live, signed>>

Upgrade ==
  /\ bounds.faults < MaxFaults /\ Count("faults")
  /\ \/ template' \in Templates \ {template} /\ UNCHANGED catalog
     \/ catalog' \in Catalogs \ {catalog} /\ UNCHANGED template
  /\ UNCHANGED <<files, live, signed, op>>

\* A root that is in the way is removed.
Discard ==
  /\ op = Idle
  /\ bounds.faults < MaxFaults /\ Count("faults")
  /\ \/ review # EmptyReview /\ review' = EmptyReview /\ UNCHANGED <<approved, out, voiced>>
     \/ approved # EmptyApproved /\ approved' = EmptyApproved /\ UNCHANGED <<review, out, voiced>>
     \/ voiced # EmptyVoiced /\ voiced' = EmptyVoiced /\ UNCHANGED <<review, approved, out>>
     \/ \E r \in Roots : /\ out[r] # EmptyOut /\ out' = [out EXCEPT ![r] = EmptyOut]
                         /\ UNCHANGED <<review, approved, voiced>>
  /\ UNCHANGED <<material, live, signed, op>>

\* A file is changed by hand, except while a command stands between a check and
\* the use of what it checked (prepare-review reads its own page back, deploy
\* uploads the directory it verified).
Edit ==
  /\ op.cmd \notin {"prepare", "deploy"}
  /\ bounds.faults < MaxFaults /\ Count("faults")
  /\ \/ review.page # None /\ review' = [review EXCEPT !.page = HandWritten]
        /\ UNCHANGED <<approved, out, voiced>>
     \/ review.preview # None /\ review' = [review EXCEPT !.preview.draft = HandWritten]
        /\ UNCHANGED <<approved, out, voiced>>
     \/ approved.page # None /\ approved' = [approved EXCEPT !.page.draft = HandWritten]
        /\ UNCHANGED <<review, out, voiced>>
     \/ voiced.media # 0 /\ voiced' = [voiced EXCEPT !.media = MaxTakes + 1]
        /\ UNCHANGED <<review, approved, out>>
     \/ \E r \in Roots :
          /\ out[r].page # None
          /\ out' \in {[out EXCEPT ![r].page.draft = HandWritten],
                       [out EXCEPT ![r].bundle.draft = HandWritten],
                       [out EXCEPT ![r].bundle.media = MaxTakes + 1],
                       [out EXCEPT ![r].heard.media = MaxTakes + 1]}
          /\ UNCHANGED <<review, approved, voiced>>
  /\ UNCHANGED <<material, live, signed, op>>

Next ==
  \/ \E s \in Selections : PrepareReview(s)
  \/ WritePreview \/ WriteDossier
  \/ ApproveReview \/ SignReview \/ WriteApproval
  \/ \E r \in Roots : Render(r) \/ Deploy(r)
  \/ RenderAssets \/ RenderPages \/ RenderJob
  \/ Tts \/ Generate \/ RecordTake
  \/ ApproveNarration \/ CopyTake \/ SignNarration \/ BindNarration
  \/ Upload \/ RecordDeploy
  \/ Crash \/ Upgrade \/ Discard \/ Edit

Spec == Init /\ [][Next]_vars

-----------------------------------------------------------------------------
\* What the host serves is, to the byte, a projection that the operator signed
\* for the page of a dossier, and its audio, if any, is a complete take that was
\* recorded for that approval and whose digest was signed; whatever was edited,
\* upgraded, removed or half written in between (commands.mjs:1888-1972,
\* 1802-1886).
LiveIsReviewed ==
  live # None =>
    \E a \in signed :
      /\ a.kind = "content" /\ a.page.draft = a.dossier.preview.draft
      /\ a.bundle = [live EXCEPT !.times = 0, !.media = 0]
      /\ \/ live = a.bundle
         \/ \E n \in signed : /\ n.kind = "narration" /\ n.approval = a
                              /\ n.review.ok /\ n.review.approval = a
                              /\ n.review.media = <<live.media, live.times>>

\* A page with a signature claims a meaning or a verse only if the submitted
\* name stands for one entry of the catalog it was composed from, and that entry
\* has a source for the claim (commands.mjs:1388-1530, name-resolution.mjs:28-90).
SignedClaimsAreSourced ==
  \A a \in signed : a.kind = "content" =>
    LET draft == a.page.draft
        c == a.dossier.material.catalog IN
    draft.meaning \/ draft.scripture =>
      /\ NamedBy(Submitted, draft.key, c)
      /\ \E s \in c.entries[draft.key].suggestions :
           /\ s.id = draft.suggestion
           /\ draft.meaning => s.meaning /\ s.meaningSourced
           /\ draft.scripture => s.verses /\ s.versesSourced

\* Entries that differ in the names they are listed under.
ListedEntry == [latin : LatinNames, arabic : ArabicNames \cup {None},
                latinAliases : SUBSET LatinNames, arabicAliases : SUBSET ArabicNames,
                suggestions : {{}}]
EveryNameResolves ==
  \A K \in {S \in SUBSET Keys : IsFiniteSet(S)} : \A entries \in [K -> ListedEntry] :
    \A latin \in LatinNames, arabic \in ArabicNames \cup {Unreadable, None} :
      ResolvesWhenAllAgree([latin |-> latin, arabic |-> arabic, girl |-> TRUE],
                           [entries |-> entries, fallback |-> {}])

\* When a draft is composed, a name resolves to an entry exactly if every script
\* it is given in stands for that entry and no other, and falls back to the
\* neutral page exactly if none stands for any: whatever the intake and the
\* catalog are (name-resolution.mjs:24-88).
NamesResolve == op.cmd = "prepare" => EveryNameResolves

\* No command takes a root that could be deployed and leaves it undeployable,
\* except one that renders into that very root: neither a crash nor a take, an
\* approval or a deployment does (README "TTS never mutates the content-approved prepared
\* base"; commands.mjs:839-935, 937-1087).
PreparedSurvives ==
  [][\A r \in Roots : Deployable(r) /\ ~Deployable(r)' =>
       Edit \/ Upgrade \/ Discard \/ (op.cmd \in {"render", "narrate"} /\ op.root = r)]_vars
=============================================================================

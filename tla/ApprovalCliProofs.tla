-------------------------- MODULE ApprovalCliProofs ---------------------------
(***************************************************************************)
(* What the operator's commands guarantee, for every catalog, template,    *)
(* intake, hand-written draft and number of faults.                        *)
(*                                                                         *)
(* First the algorithm: ResolveName against its reference definition, and  *)
(* the claims of a composed draft.  Then the commands: each check a        *)
(* command makes of earlier files is enough, given what the invariant says *)
(* of every record that was ever signed (SignedInv), of the files a later  *)
(* command trusts without a signature (FilesInv), and of what the running  *)
(* command holds between two writes (CommandInv).                          *)
(***************************************************************************)
EXTENDS ApprovalCli, FiniteSetTheorems, TLAPS

-----------------------------------------------------------------------------
(* Resolving a name.                                                        *)

\* A finite set that has no two elements is empty or a singleton.
LEMMA FewAreOne ==
  ASSUME NEW S, IsFiniteSet(S)
  PROVE  /\ Cardinality(S) > 1 => \A x \in S : S # {x}
         /\ Cardinality(S) > 1 => S # {}
         /\ ~(Cardinality(S) > 1) => S = {} \/ \E x \in S : S = {x}
<1>1. Cardinality(S) \in Nat
  BY FS_CardinalityType
<1>2. Cardinality(S) = 0 <=> S = {}
  BY FS_EmptySet
<1>3. Cardinality(S) = 1 <=> \E x \in S : S = {x}
  BY FS_Singleton
<1> QED
  BY <1>1, <1>2, <1>3

\* The entries found for a name are finitely many entries of the catalog.
LEMMA FoundInCatalog ==
  ASSUME NEW c, IsCatalog(c), NEW name
  PROVE  /\ ByLatin(name, c) \subseteq DOMAIN c.entries
         /\ ByArabic(name, c) \subseteq DOMAIN c.entries
         /\ IsFiniteSet(ByLatin(name, c)) /\ IsFiniteSet(ByArabic(name, c))
<1>1. /\ ByLatin(name, c) \subseteq DOMAIN c.entries
      /\ ByArabic(name, c) \subseteq DOMAIN c.entries
  BY DEF ByLatin, ByArabic, ExactLatin, AliasLatin, ExactArabic, AliasArabic
<1> QED
  BY <1>1, FS_Subset DEF IsCatalog

\* Nothing is found for an Arabic name that is missing or unreadable.
LEMMA NoneFoundForNoName ==
  ASSUME NEW c, IsCatalog(c)
  PROVE  ByArabic(None, c) = {} /\ ByArabic(Unreadable, c) = {}
  BY NamesAssumption DEF ByArabic, ExactArabic, AliasArabic, IsCatalog, Entry

\* The branches of ResolveName, and what each says of the entries found.
LEMMA Branches ==
  ASSUME NEW c, IsCatalog(c), NEW intake \in Intake
  PROVE  LET latin  == ByLatin(intake.latin, c)
             arabic == ByArabic(intake.arabic, c) IN
         \/ /\ intake.arabic = Unreadable
            /\ ResolveName(intake, c) = ReviewRequired("invalid_orthography")
            /\ \A k : arabic # {k}
         \/ /\ intake.arabic # Unreadable
            /\ ResolveName(intake, c) = ReviewRequired("ambiguous")
            /\ latin \cup arabic # {}
            /\ \A k : latin # {k} \/ (intake.arabic # None /\ arabic # {k})
         \/ /\ intake.arabic # Unreadable
            /\ ResolveName(intake, c) = Unknown(c)
            /\ latin \cup arabic = {}
         \/ /\ intake.arabic # Unreadable
            /\ ResolveName(intake, c) = ReviewRequired("cross_script_conflict")
            /\ latin \cup arabic # {}
            /\ \A k : latin # {k} \/ (intake.arabic # None /\ arabic # {k})
         \/ \E k \in DOMAIN c.entries :
              /\ intake.arabic # Unreadable
              /\ ResolveName(intake, c) = Resolved(intake, k, c)
              /\ latin = {k} /\ (intake.arabic # None => arabic = {k})
<1> DEFINE latin  == ByLatin(intake.latin, c)
           arabic == ByArabic(intake.arabic, c)
           shared == IF intake.arabic # None THEN latin \cap arabic ELSE latin
<1>1. IsFiniteSet(latin) /\ IsFiniteSet(arabic) /\ latin \cup arabic \subseteq DOMAIN c.entries
  BY FoundInCatalog
<1>2. intake.arabic = None => arabic = {}
  BY NoneFoundForNoName
<1>3. ResolveName(intake, c) =
        IF intake.arabic = Unreadable THEN ReviewRequired("invalid_orthography")
        ELSE IF Cardinality(latin) > 1 \/ Cardinality(arabic) > 1 THEN ReviewRequired("ambiguous")
        ELSE IF latin \cup arabic = {} THEN Unknown(c)
        ELSE IF shared = {} THEN ReviewRequired("cross_script_conflict")
        ELSE Resolved(intake, CHOOSE k \in shared : TRUE, c)
  BY DEF ResolveName
<1>4. intake.arabic = Unreadable => arabic = {}
  BY NoneFoundForNoName
<1> HIDE DEF latin, arabic
<1>5. CASE intake.arabic = Unreadable
  BY <1>3, <1>4, <1>5 DEF latin, arabic
<1>6. CASE /\ intake.arabic # Unreadable
           /\ Cardinality(latin) > 1 \/ Cardinality(arabic) > 1
  <2>1. ResolveName(intake, c) = ReviewRequired("ambiguous")
    BY <1>3, <1>6
  <2>2. /\ latin \cup arabic # {}
        /\ \A k : latin # {k} \/ (intake.arabic # None /\ arabic # {k})
    BY <1>1, <1>2, <1>6, FewAreOne
  <2> QED
    BY <2>1, <2>2, <1>6 DEF latin, arabic
<1>7. CASE /\ intake.arabic # Unreadable
           /\ ~(Cardinality(latin) > 1 \/ Cardinality(arabic) > 1)
           /\ latin \cup arabic = {}
  BY <1>3, <1>7 DEF latin, arabic
<1>8. CASE /\ intake.arabic # Unreadable
           /\ ~(Cardinality(latin) > 1 \/ Cardinality(arabic) > 1)
           /\ latin \cup arabic # {}
           /\ shared = {}
  <2>1. ResolveName(intake, c) = ReviewRequired("cross_script_conflict")
    BY <1>3, <1>8
  <2>2. \A k : latin # {k} \/ (intake.arabic # None /\ arabic # {k})
    BY <1>8
  <2> QED
    BY <2>1, <2>2, <1>8 DEF latin, arabic
<1>9. CASE /\ intake.arabic # Unreadable
           /\ ~(Cardinality(latin) > 1 \/ Cardinality(arabic) > 1)
           /\ latin \cup arabic # {}
           /\ shared # {}
  <2>1. PICK k : k \in shared
    BY <1>9
  <2>2. latin = {k} /\ (intake.arabic # None => arabic = {k})
    BY <1>1, <1>9, <2>1, FewAreOne
  <2>3. shared = {k}
    BY <2>2
  <2>4. (CHOOSE j \in shared : TRUE) = k
    BY <2>3
  <2>5. ResolveName(intake, c) = Resolved(intake, k, c)
    BY <1>3, <1>9, <2>4
  <2>6. k \in DOMAIN c.entries
    BY <1>1, <2>2
  <2> QED
    BY <2>2, <2>5, <2>6, <1>9 DEF latin, arabic
<1> QED
  BY <1>5, <1>6, <1>7, <1>8, <1>9

\* A name is resolved exactly to the one entry that each script it is given in
\* stands for, and falls back exactly if none stands for any; the match is exact
\* if the entry itself is spelled so (name-resolution.mjs:24-90): for every
\* finite catalog and every intake.
THEOREM NamesAgree ==
  ASSUME NEW c, IsCatalog(c), NEW intake \in Intake
  PROVE  ResolvesWhenAllAgree(intake, c)
<1> DEFINE verdict == ResolveName(intake, c)
           latin  == ByLatin(intake.latin, c)
           arabic == ByArabic(intake.arabic, c)
<1>1. CASE \E kind \in {"invalid_orthography", "ambiguous", "cross_script_conflict"} :
             /\ verdict = ReviewRequired(kind)
             /\ intake.arabic = Unreadable \/ latin \cup arabic # {}
             /\ \A k : latin # {k} \/ (intake.arabic # None /\ arabic # {k})
  <2>1. verdict.status = "review_required" /\ verdict.kind # "exact"
    BY <1>1 DEF ReviewRequired, Verdict
  <2>2. latin \cup arabic \subseteq DOMAIN c.entries
    BY FoundInCatalog
  <2>3. \A k \in Keys : ~NamedBy(intake, k, c)
    BY <1>1 DEF NamedBy
  <2>4. \/ intake.arabic = Unreadable
        \/ \E k \in DOMAIN c.entries : k \in latin \cup arabic
    BY <1>1, <2>2
  <2> HIDE DEF verdict
  <2>5. ~(verdict.status = "resolved") /\ ~(verdict.status = "fallback")
    BY <2>1
  <2> QED
    BY <2>1, <2>3, <2>4, <2>5 DEF ResolvesWhenAllAgree, verdict
<1>2. CASE /\ intake.arabic # Unreadable
           /\ verdict = Unknown(c)
           /\ latin \cup arabic = {}
  <2>1. verdict.status = "fallback" /\ verdict.kind = "unknown"
    BY <1>2 DEF Unknown, Verdict
  <2>2. \A k \in Keys : ~NamedBy(intake, k, c)
    BY <1>2 DEF NamedBy
  <2> HIDE DEF verdict
  <2>3. ~(verdict.status = "resolved") /\ ~(verdict.kind = "exact")
    BY <2>1
  <2> QED
    BY <1>2, <2>1, <2>2, <2>3 DEF ResolvesWhenAllAgree, verdict
<1>3. CASE \E k \in DOMAIN c.entries :
             /\ intake.arabic # Unreadable
             /\ verdict = Resolved(intake, k, c)
             /\ latin = {k} /\ (intake.arabic # None => arabic = {k})
  <2>1. PICK k \in DOMAIN c.entries :
          /\ intake.arabic # Unreadable
          /\ verdict = Resolved(intake, k, c)
          /\ latin = {k} /\ (intake.arabic # None => arabic = {k})
    BY <1>3
  <2>2. /\ verdict.status = "resolved" /\ verdict.key = k
        /\ verdict.kind = "exact" <=>
             /\ k \in ExactLatin(intake.latin, c)
             /\ intake.arabic = None \/ k \in ExactArabic(intake.arabic, c)
    BY <2>1 DEF Resolved, Verdict
  <2>3. \A j \in Keys : j = k <=> NamedBy(intake, j, c)
    BY <2>1 DEF NamedBy
  <2>4. verdict.kind = "exact" <=>
          /\ c.entries[k].latin = intake.latin
          /\ intake.arabic \in {None, c.entries[k].arabic}
    BY <2>2 DEF ExactLatin, ExactArabic
  <2>5. k \in latin \cup arabic
    BY <2>1
  <2> HIDE DEF verdict
  <2>6. /\ \A j \in Keys : (verdict.status = "resolved" /\ verdict.key = j) <=> NamedBy(intake, j, c)
        /\ ~(verdict.status = "fallback")
    BY <2>2, <2>3
  <2>7. verdict.kind = "exact" <=>
          /\ verdict.status = "resolved"
          /\ c.entries[verdict.key].latin = intake.latin
          /\ intake.arabic \in {None, c.entries[verdict.key].arabic}
    BY <2>2, <2>4
  <2> QED
    BY <2>5, <2>6, <2>7 DEF ResolvesWhenAllAgree, verdict
<1> QED
  <2>1. Unreadable # None
    BY NamesAssumption
  <2> QED
    BY <2>1, <1>1, <1>2, <1>3, Branches

\* Whatever catalog is checked out when a draft is composed, the names in it
\* resolve as they should (name-resolution.mjs:24-88).
THEOREM EveryNameDoesResolve == Spec => []NamesResolve
<1>1. EveryNameResolves
  <2> SUFFICES ASSUME NEW K \in SUBSET Keys, IsFiniteSet(K), NEW entries \in [K -> ListedEntry],
                      NEW latin \in LatinNames, NEW arabic \in ArabicNames \cup {Unreadable, None}
               PROVE  ResolvesWhenAllAgree([latin |-> latin, arabic |-> arabic, girl |-> TRUE],
                                           [entries |-> entries, fallback |-> {}])
    BY DEF EveryNameResolves
  <2>1. \A entry \in ListedEntry : entry \in Entry
    BY DEF ListedEntry, Entry
  <2>2. PICK c : c = [entries |-> entries, fallback |-> {}]
    OBVIOUS
  <2>3. c.entries = entries /\ c.fallback = {}
    BY <2>2
  <2>4. IsCatalog(c)
    BY <2>1, <2>3 DEF IsCatalog
  <2>5. PICK intake : intake = [latin |-> latin, arabic |-> arabic, girl |-> TRUE]
    OBVIOUS
  <2>6. intake \in Intake
    BY <2>5 DEF Intake
  <2>7. ResolvesWhenAllAgree(intake, c)
    BY <2>4, <2>6, NamesAgree
  <2> QED
    BY <2>2, <2>5, <2>7
<1>2. NamesResolve
  BY <1>1 DEF NamesResolve
<1> QED
  BY <1>2, PTL

-----------------------------------------------------------------------------
(* Composing a draft.                                                       *)

\* The claims of a draft have a source in the catalog it was composed from.
Sourced(draft, c) ==
  draft.meaning \/ draft.scripture =>
    /\ NamedBy(Submitted, draft.key, c)
    /\ \E s \in c.entries[draft.key].suggestions :
         /\ s.id = draft.suggestion
         /\ draft.meaning => s.meaning /\ s.meaningSourced
         /\ draft.scripture => s.verses /\ s.versesSourced

\* A suggestion offered for a resolved name is one of the entry's, its verses
\* kept only with a source; one for an unknown name claims nothing.
LEMMA OfferedAreSourced ==
  ASSUME NEW S \in SUBSET Suggestion, NEW s \in Offered(S)
  PROVE  \E o \in S : /\ o.id = s.id
                      /\ HasMeaning(s) => o.meaning /\ o.meaningSourced
                      /\ HasScripture(s) => o.verses /\ o.versesSourced
<1>1. PICK o \in S : s = [o EXCEPT !.verses = HasScripture(o)]
  BY DEF Offered
<1>2. o \in Suggestion
  OBVIOUS
<1>3. /\ s.id = o.id /\ s.meaning = o.meaning /\ s.meaningSourced = o.meaningSourced
      /\ s.verses = HasScripture(o)
  BY <1>1, <1>2 DEF Suggestion
<1> QED
  BY <1>3 DEF HasMeaning, HasScripture

LEMMA GenericClaimNothing ==
  ASSUME NEW S \in SUBSET Suggestion, NEW s \in Generic(S)
  PROVE  ~HasMeaning(s) /\ ~HasScripture(s)
<1>1. PICK o \in S : s = [o EXCEPT !.meaning = FALSE, !.verses = FALSE]
  BY DEF Generic
<1>2. o \in Suggestion
  OBVIOUS
<1>3. s.meaning = FALSE /\ s.verses = FALSE
  BY <1>1, <1>2 DEF Suggestion
<1> QED
  BY <1>3 DEF HasMeaning, HasScripture

\* What commandCompose makes of the intake claims only what has a source
\* (commands.mjs:1388-1530).
LEMMA ComposedAreSourced ==
  ASSUME NEW c, IsCatalog(c), NEW selection,
         Compose(Submitted, c, selection).state = "draft_created"
  PROVE  Sourced(Compose(Submitted, c, selection).draft, c)
<1> DEFINE verdict == ResolveName(Submitted, c)
           offered == verdict.suggestions
           chosen  == IF selection = None THEN offered
                      ELSE {s \in offered : s.id = selection}
           s == CHOOSE s \in chosen : TRUE
<1>1. /\ verdict.status # "review_required"
      /\ offered # {} /\ chosen # {}
      /\ Compose(Submitted, c, selection).draft = Draft(verdict, s)
  BY DEF Compose, Composed
<1>2. s \in offered
  BY <1>1
<1>3. Submitted \in Intake
  BY CliAssumption
<1> HIDE DEF verdict, s
<1>4. PICK draft : draft = Draft(verdict, s)
  OBVIOUS
<1>5. /\ draft.suggestion = s.id /\ draft.key = verdict.key
      /\ draft.meaning = HasMeaning(s) /\ draft.scripture = HasScripture(s)
  BY <1>4 DEF Draft
<1>6. CASE verdict = Unknown(c)
  <2>1. s \in Generic(c.fallback)
    BY <1>2, <1>6 DEF Unknown, Verdict
  <2>2. ~HasMeaning(s) /\ ~HasScripture(s)
    BY <2>1, GenericClaimNothing DEF IsCatalog
  <2> QED
    BY <1>1, <1>4, <1>5, <2>2 DEF Sourced
<1>7. CASE \E k \in DOMAIN c.entries :
             /\ verdict = Resolved(Submitted, k, c)
             /\ NamedBy(Submitted, k, c)
  <2>1. PICK k \in DOMAIN c.entries :
             /\ verdict = Resolved(Submitted, k, c)
             /\ NamedBy(Submitted, k, c)
    BY <1>7
  <2>2. verdict.key = k /\ s \in Offered(c.entries[k].suggestions)
    BY <1>2, <2>1 DEF Resolved, Verdict
  <2>3. c.entries[k].suggestions \in SUBSET Suggestion
    BY DEF IsCatalog, Entry
  <2>4. PICK o \in c.entries[k].suggestions :
          /\ o.id = s.id
          /\ HasMeaning(s) => o.meaning /\ o.meaningSourced
          /\ HasScripture(s) => o.verses /\ o.versesSourced
    BY <2>2, <2>3, OfferedAreSourced
  <2> QED
    BY <1>1, <1>4, <1>5, <2>1, <2>2, <2>4 DEF Sourced
<1>8. \A kind \in {"invalid_orthography", "ambiguous", "cross_script_conflict"} :
        verdict # ReviewRequired(kind)
  BY <1>1 DEF ReviewRequired, Verdict
<1>9. \/ \E kind \in {"invalid_orthography", "ambiguous", "cross_script_conflict"} :
           verdict = ReviewRequired(kind)
      \/ verdict = Unknown(c)
      \/ \E k \in DOMAIN c.entries :
           /\ verdict = Resolved(Submitted, k, c)
           /\ NamedBy(Submitted, k, c)
  BY <1>3, Branches DEF NamedBy, verdict
<1> QED
  BY <1>6, <1>7, <1>8, <1>9

-----------------------------------------------------------------------------
(* The inductive invariant of the commands.                                 *)

\* What LiveIsReviewed asks of a bundle.
Reviewed(bundle) ==
  \E a \in signed :
    /\ a.kind = "content" /\ a.page.draft = a.dossier.preview.draft
    /\ a.bundle = [bundle EXCEPT !.times = 0, !.media = 0]
    /\ \/ bundle = a.bundle
       \/ \E n \in signed : /\ n.kind = "narration" /\ n.approval = a
                            /\ n.review.ok /\ n.review.approval = a
                            /\ n.review.media = <<bundle.media, bundle.times>>

\* A content approval is of a page and a dossier that agree, of claims that have
\* a source, and of a bundle without a sound; a narration approval is of a take
\* that was complete.
ContentRecord(a) ==
  /\ a.page.draft = a.dossier.draft /\ a.page.draft = a.dossier.preview.draft
  /\ Sourced(a.dossier.draft, a.dossier.material.catalog)
  /\ a.bundle = [draft |-> a.bundle.draft, template |-> a.bundle.template,
                 times |-> 0, media |-> 0]

SignedInv ==
  \A a \in signed : /\ a.kind = "content" => ContentRecord(a)
                    /\ a.kind = "narration" => a.review.ok

\* The files that a later command takes for what they are called: nothing but
\* approve-review writes an approval, nothing but approve-narration a narration.
FilesInv ==
  /\ DOMAIN review = {"page", "preview", "dossier"}
  /\ DOMAIN approved = {"page", "approval"}
  /\ DOMAIN out = Roots
  /\ \A r \in Roots : DOMAIN out[r] = {"page", "bundle", "job", "narration", "heard"}
  /\ review.dossier # None =>
       Sourced(review.dossier.draft, review.dossier.material.catalog)
  /\ approved.approval # None => approved.approval.kind = "content"
  /\ \A r \in Roots : out[r].narration # None => out[r].narration.kind = "narration"

\* What the running command holds since its checks.
PrepareInHand ==
  op.cmd = "prepare" =>
    /\ DOMAIN op = {"cmd", "at", "material", "draft"}
    /\ Sourced(op.draft, op.material.catalog)
ApproveInHand ==
  /\ Running("approve", "sign") =>
       /\ op.page.draft = op.dossier.draft /\ op.page.draft = op.dossier.preview.draft
       /\ Sourced(op.dossier.draft, op.dossier.material.catalog)
  /\ Running("approve", "write") => op.approval.kind = "content"
RenderInHand ==
  /\ op.cmd = "render" => DOMAIN op = {"cmd", "at", "root", "page", "approval"}
  /\ op.cmd = "narrate" =>
       /\ DOMAIN op = {"cmd", "at", "root", "page", "approval", "review"}
       /\ op.review.ok
  /\ op.cmd \in {"render", "narrate"} => op.root \in Roots
DeployInHand ==
  op.cmd = "deploy" =>
    /\ DOMAIN op = {"cmd", "at", "root", "job"}
    /\ op.root \in Roots /\ Reviewed(out[op.root].bundle)

CommandInv == PrepareInHand /\ ApproveInHand /\ RenderInHand /\ DeployInHand

CliInv ==
  /\ catalog \in Catalogs
  /\ SignedInv /\ FilesInv /\ CommandInv
  /\ LiveIsReviewed

\* Nothing that was reviewed is so no longer: the key's records only grow.
LEMMA ReviewedStands ==
  ASSUME signed \subseteq signed'
  PROVE  \A bundle : Reviewed(bundle) => Reviewed(bundle)'
  BY DEF Reviewed

LEMMA LiveByReviewed == LiveIsReviewed <=> (live # None => Reviewed(live))
  BY DEF LiveIsReviewed, Reviewed

\* A bundle without its sound.
LEMMA Muted ==
  ASSUME NEW b, b = [draft |-> b.draft, template |-> b.template,
                     times |-> b.times, media |-> b.media]
  PROVE  [b EXCEPT !.times = 0, !.media = 0] =
           [draft |-> b.draft, template |-> b.template, times |-> 0, media |-> 0]
<1>1. PICK c : c = [b EXCEPT !.times = 0]
  OBVIOUS
<1>2. c = [draft |-> b.draft, template |-> b.template, times |-> 0, media |-> b.media]
  BY <1>1
<1>3. [c EXCEPT !.media = 0] =
        [draft |-> b.draft, template |-> b.template, times |-> 0, media |-> 0]
  BY <1>2
<1>4. [b EXCEPT !.times = 0, !.media = 0] = [[b EXCEPT !.times = 0] EXCEPT !.media = 0]
  OBVIOUS
<1> QED
  BY <1>1, <1>3, <1>4

\* A root that passes deploy's checks holds what was reviewed
\* (commands.mjs:1888-1972, 1802-1886).
LEMMA DeployableIsReviewed ==
  ASSUME SignedInv, FilesInv, NEW r \in Roots, Deployable(r)
  PROVE  Reviewed(out[r].bundle)
<1> DEFINE a == approved.approval
           bundle == out[r].bundle
           n == out[r].narration
<1>1. /\ a # None /\ a \in signed /\ a.kind = "content"
      /\ out[r].job.approval = a
      /\ a.bundle = Projection(approved.page.draft)
      /\ IF out[r].job.narration # None THEN Narrated(r) ELSE bundle = a.bundle
  BY DEF Deployable, ApprovalHolds, FilesInv
<1>2. ContentRecord(a)
  BY <1>1 DEF SignedInv
<1>3. PICK plain : plain = Projection(approved.page.draft)
  OBVIOUS
<1>4. /\ a.bundle = plain
      /\ plain = [draft |-> plain.draft, template |-> plain.template, times |-> 0, media |-> 0]
      /\ plain = [plain EXCEPT !.times = 0, !.media = 0]
  <2>1. plain = [draft |-> plain.draft, template |-> plain.template, times |-> 0, media |-> 0]
    BY <1>3 DEF Projection
  <2>2. [plain EXCEPT !.times = 0, !.media = 0] =
          [draft |-> plain.draft, template |-> plain.template, times |-> 0, media |-> 0]
    BY ONLY <2>1, Muted
  <2> QED
    BY <1>1, <1>3, <2>1, <2>2
<1>5. CASE out[r].job.narration = None
  <2>1. bundle = plain
    BY <1>1, <1>4, <1>5
  <2> QED
    BY <1>1, <1>2, <1>4, <2>1 DEF Reviewed, ContentRecord
<1>6. CASE out[r].job.narration # None
  <2>1. Narrated(r)
    BY <1>1, <1>6
  <2>2. /\ n # None /\ n \in signed /\ n.kind = "narration"
        /\ n.approval = a /\ n.review.approval = a
        /\ n.review.media = <<out[r].heard.media, out[r].heard.times>>
        /\ bundle = [plain EXCEPT !.times = out[r].heard.times, !.media = out[r].heard.media]
    BY <1>1, <1>3, <2>1 DEF Narrated, FilesInv
  <2>3. n.review.ok
    BY <2>2 DEF SignedInv
  <2>4. bundle = [draft |-> plain.draft, template |-> plain.template,
                  times |-> out[r].heard.times, media |-> out[r].heard.media]
    BY <1>3, <2>2 DEF Projection
  <2> HIDE DEF bundle
  <2>5. [bundle EXCEPT !.times = 0, !.media = 0] =
          [draft |-> plain.draft, template |-> plain.template, times |-> 0, media |-> 0]
    <3>1. PICK b : b = bundle
      OBVIOUS
    <3>2. /\ b.draft = plain.draft /\ b.template = plain.template
          /\ b = [draft |-> b.draft, template |-> b.template,
                  times |-> b.times, media |-> b.media]
      BY <2>4, <3>1
    <3>3. [b EXCEPT !.times = 0, !.media = 0] =
            [draft |-> b.draft, template |-> b.template, times |-> 0, media |-> 0]
      BY <3>2, Muted
    <3> QED
      BY <3>1, <3>2, <3>3
  <2>6. a.bundle = [bundle EXCEPT !.times = 0, !.media = 0]
    BY <1>4, <2>5
  <2>7. n.review.media = <<bundle.media, bundle.times>>
    BY <2>2, <2>4
  <2> QED
    BY <1>1, <1>2, <2>2, <2>3, <2>6, <2>7 DEF Reviewed, ContentRecord, bundle
<1> QED
  BY <1>5, <1>6

-----------------------------------------------------------------------------
(* Every step preserves the invariant.                                      *)

\* Steps that sign nothing, serve nothing and leave the files a later command
\* trusts as they are for it.
LEMMA Unsigned ==
  ASSUME CliInv, signed' = signed
  PROVE  SignedInv'
  BY DEF CliInv, SignedInv, ContentRecord, Sourced, NamedBy

LEMMA LiveStands ==
  ASSUME CliInv, signed \subseteq signed', live' = live
  PROVE  LiveIsReviewed'
<1>1. live # None => Reviewed(live)
  BY LiveByReviewed DEF CliInv
<1>2. live # None => \E a \in signed' :
        /\ a.kind = "content" /\ a.page.draft = a.dossier.preview.draft
        /\ a.bundle = [live EXCEPT !.times = 0, !.media = 0]
        /\ \/ live = a.bundle
           \/ \E n \in signed' : /\ n.kind = "narration" /\ n.approval = a
                                 /\ n.review.ok /\ n.review.approval = a
                                 /\ n.review.media = <<live.media, live.times>>
  BY <1>1 DEF Reviewed
<1> QED
  BY <1>2 DEF LiveIsReviewed

\* The commands that run, by name.
LEMMA NoCommandInHand ==
  ASSUME op' = Idle
  PROVE  CommandInv'
  BY DEF Idle, CommandInv, PrepareInHand, ApproveInHand, RenderInHand, DeployInHand, Running

LEMMA PrepareKeeps ==
  ASSUME CliInv,
         (\E s \in Selections : PrepareReview(s)) \/ WritePreview \/ WriteDossier
  PROVE  CliInv'
<1>1. signed' = signed /\ live' = live /\ catalog' = catalog
  BY DEF PrepareReview, WritePreview, WriteDossier, material
<1>2. SignedInv' /\ LiveIsReviewed' /\ (catalog \in Catalogs)'
  BY <1>1, Unsigned, LiveStands DEF CliInv
<1>3. ASSUME NEW s \in Selections, PrepareReview(s)
      PROVE  FilesInv' /\ CommandInv'
  <2>1. PICK draft : draft = Compose(Submitted, catalog, s).draft
    OBVIOUS
  <2>2. Sourced(draft, catalog)
    BY <1>3, <2>1, ComposedAreSourced, CliAssumption DEF PrepareReview, CliInv
  <2>3. op' = [cmd |-> "prepare", at |-> "render", material |-> Material(s), draft |-> draft]
    BY <1>3, <2>1 DEF PrepareReview
  <2>4. Sourced(op'.draft, op'.material.catalog)
    BY <2>2, <2>3 DEF Material
  <2>5. op'.cmd = "prepare" /\ DOMAIN op' = {"cmd", "at", "material", "draft"}
    BY <2>3
  <2>6. FilesInv'
    BY <1>3 DEF PrepareReview, FilesInv, files, CliInv, Sourced, NamedBy
  <2> QED
    BY <2>4, <2>5, <2>6
       DEF CommandInv, PrepareInHand, ApproveInHand, RenderInHand, DeployInHand, Running,
           Sourced, NamedBy
<1>4. CASE WritePreview
  <2>1. /\ op.cmd = "prepare" /\ DOMAIN op = {"cmd", "at", "material", "draft"}
        /\ Sourced(op.draft, op.material.catalog)
    BY <1>4 DEF WritePreview, Running, CliInv, CommandInv, PrepareInHand
  <2>2. /\ op'.cmd = "prepare" /\ DOMAIN op' = DOMAIN op
        /\ op'.draft = op.draft /\ op'.material = op.material
    BY <1>4, <2>1 DEF WritePreview, Proceed
  <2>3. FilesInv'
    BY <1>4 DEF WritePreview, FilesInv, CliInv, Sourced, NamedBy
  <2>4. CommandInv'
    BY <2>1, <2>2
       DEF CommandInv, PrepareInHand, ApproveInHand, RenderInHand, DeployInHand, Running,
           Sourced, NamedBy
  <2> QED
    BY <1>2, <2>3, <2>4 DEF CliInv
<1>5. CASE WriteDossier
  <2>1. Sourced(op.draft, op.material.catalog)
    BY <1>5 DEF WriteDossier, Running, CliInv, CommandInv, PrepareInHand
  <2>2. /\ review'.dossier =
             [draft |-> op.draft, preview |-> review.preview, material |-> op.material]
        /\ DOMAIN review' = DOMAIN review
    BY <1>5 DEF WriteDossier, CliInv, FilesInv
  <2>3. FilesInv'
    BY <1>5, <2>1, <2>2 DEF WriteDossier, CliInv, FilesInv, Sourced, NamedBy
  <2> QED
    BY <1>2, <1>5, <2>3, NoCommandInHand DEF WriteDossier, CliInv
<1> QED
  BY <1>2, <1>3, <1>4, <1>5 DEF CliInv

LEMMA ApproveKeeps ==
  ASSUME CliInv, ApproveReview \/ SignReview \/ WriteApproval
  PROVE  CliInv'
<1>1. signed \subseteq signed' /\ live' = live /\ catalog' = catalog
  BY DEF ApproveReview, SignReview, WriteApproval, material
<1>2. LiveIsReviewed' /\ (catalog \in Catalogs)'
  BY <1>1, LiveStands DEF CliInv
<1>3. CASE ApproveReview
  <2>1. PICK dossier, page : /\ dossier = review.dossier
                             /\ page = [draft |-> review.page, stamp |-> bounds.approvals + 1]
    OBVIOUS
  <2>2. /\ dossier # None
        /\ page.draft = dossier.draft /\ page.draft = dossier.preview.draft
        /\ Sourced(dossier.draft, dossier.material.catalog)
    BY <1>3, <2>1 DEF ApproveReview, Reviewable, CliInv, FilesInv
  <2>3. op' = [cmd |-> "approve", at |-> "sign", dossier |-> dossier, page |-> page]
    BY <1>3, <2>1 DEF ApproveReview
  <2>4. /\ op'.cmd = "approve" /\ op'.at = "sign"
        /\ op'.dossier = dossier /\ op'.page = page
    BY <2>3
  <2>5. CommandInv'
    BY <2>2, <2>4
       DEF CommandInv, PrepareInHand, ApproveInHand, RenderInHand, DeployInHand, Running,
           Sourced, NamedBy
  <2>6. SignedInv' /\ FilesInv'
    BY <1>3, Unsigned DEF ApproveReview, files, CliInv, FilesInv, Sourced, NamedBy
  <2> QED
    BY <1>2, <2>5, <2>6 DEF CliInv
<1>4. CASE SignReview
  <2>1. PICK approval :
          approval = [kind |-> "content", page |-> op.page, dossier |-> op.dossier,
                      bundle |-> Projection(op.page.draft)]
    OBVIOUS
  <2>2. /\ op.page.draft = op.dossier.draft /\ op.page.draft = op.dossier.preview.draft
        /\ Sourced(op.dossier.draft, op.dossier.material.catalog)
    BY <1>4 DEF SignReview, CliInv, CommandInv, ApproveInHand
  <2>3. approval.kind = "content" /\ ContentRecord(approval)
    BY <2>1, <2>2 DEF ContentRecord, Projection
  <2>4. signed' = signed \cup {approval}
    BY <1>4, <2>1 DEF SignReview
  <2>5. SignedInv'
    BY <2>3, <2>4 DEF CliInv, SignedInv, ContentRecord, Sourced, NamedBy
  <2>6. op' = [cmd |-> "approve", at |-> "write", approval |-> approval]
    BY <1>4, <2>1 DEF SignReview
  <2>7. op'.cmd = "approve" /\ op'.at = "write" /\ op'.approval = approval
    BY <2>6
  <2>8. CommandInv'
    BY <2>3, <2>7
       DEF CommandInv, PrepareInHand, ApproveInHand, RenderInHand, DeployInHand, Running
  <2>9. FilesInv'
    BY <1>4 DEF SignReview, CliInv, FilesInv, Sourced, NamedBy
  <2> QED
    BY <1>2, <2>5, <2>8, <2>9 DEF CliInv
<1>5. CASE WriteApproval
  <2>1. op.approval.kind = "content"
    BY <1>5 DEF WriteApproval, CliInv, CommandInv, ApproveInHand
  <2>2. FilesInv'
    BY <1>5, <2>1 DEF WriteApproval, CliInv, FilesInv, Sourced, NamedBy
  <2> QED
    BY <1>2, <1>5, <2>2, Unsigned, NoCommandInHand DEF WriteApproval, CliInv
<1> QED
  BY <1>3, <1>4, <1>5

\* Steps that write into the prepared roots, but neither narrations nor, while a
\* deployment runs, anything.
LEMMA RootsKeep ==
  ASSUME CliInv, op.cmd # "deploy", op'.cmd # "deploy",
         DOMAIN out' = Roots,
         \A r \in Roots : /\ DOMAIN out'[r] = DOMAIN out[r]
                          /\ out'[r].narration = out[r].narration,
         PrepareInHand', ApproveInHand', RenderInHand',
         UNCHANGED <<catalog, review, approved, live, signed>>
  PROVE  CliInv'
<1>1. SignedInv' /\ LiveIsReviewed' /\ (catalog \in Catalogs)'
  BY Unsigned, LiveStands DEF CliInv
<1>2. FilesInv'
  BY DEF CliInv, FilesInv, Sourced, NamedBy
<1>3. CommandInv'
  BY DEF CommandInv, DeployInHand
<1> QED
  BY <1>1, <1>2, <1>3 DEF CliInv

LEMMA RenderKeeps ==
  ASSUME CliInv,
         (\E r \in Roots : Render(r)) \/ RenderAssets \/ RenderPages \/ RenderJob
  PROVE  CliInv'
<1>1. CASE \E r \in Roots : Render(r)
  <2>1. PICK r \in Roots : Render(r)
    BY <1>1
  <2>2. \E page, approval :
          op' = [cmd |-> "render", at |-> "assets", root |-> r, page |-> page,
                 approval |-> approval]
    BY <2>1 DEF Render
  <2>3. op'.cmd = "render" /\ op'.root = r
        /\ DOMAIN op' = {"cmd", "at", "root", "page", "approval"}
    BY <2>2
  <2>4. op = Idle /\ UNCHANGED <<catalog, files, live, signed>>
    BY <2>1 DEF Render, material
  <2>5. PrepareInHand' /\ ApproveInHand' /\ RenderInHand'
    BY <2>3 DEF PrepareInHand, ApproveInHand, RenderInHand, Running
  <2> QED
    BY <2>3, <2>4, <2>5, RootsKeep DEF CliInv, FilesInv, files, Idle
<1>2. CASE RenderAssets \/ RenderPages \/ RenderJob
  <2>1. /\ op.cmd \in {"render", "narrate"} /\ op.root \in Roots
        /\ UNCHANGED <<catalog, review, approved, live, signed>>
    BY <1>2 DEF RenderAssets, RenderPages, RenderJob, Rendering, material,
                CliInv, CommandInv, RenderInHand
  <2>2. /\ op.cmd = "render" => DOMAIN op = {"cmd", "at", "root", "page", "approval"}
        /\ op.cmd = "narrate" =>
             /\ DOMAIN op = {"cmd", "at", "root", "page", "approval", "review"}
             /\ op.review.ok
    BY DEF CliInv, CommandInv, RenderInHand
  <2>3. \/ op' = Idle
        \/ /\ op'.cmd = op.cmd /\ op'.root = op.root /\ DOMAIN op' = DOMAIN op
           /\ op.cmd = "narrate" => op'.review = op.review
    BY <1>2, <2>1, <2>2 DEF RenderAssets, RenderPages, RenderJob, Proceed
  <2>4. PrepareInHand' /\ ApproveInHand' /\ RenderInHand' /\ op'.cmd # "deploy"
    BY <2>1, <2>2, <2>3 DEF PrepareInHand, ApproveInHand, RenderInHand, Running, Idle
  <2>5. /\ DOMAIN out' = Roots
        /\ \A r \in Roots : /\ DOMAIN out'[r] = DOMAIN out[r]
                            /\ out'[r].narration = out[r].narration
    <3>1. CASE RenderAssets
      BY <2>1, <3>1 DEF RenderAssets, CliInv, FilesInv
    <3>2. CASE RenderPages
      BY <2>1, <3>2 DEF RenderPages, CliInv, FilesInv
    <3>3. CASE RenderJob
      BY <2>1, <3>3 DEF RenderJob, CliInv, FilesInv
    <3> QED
      BY <1>2, <3>1, <3>2, <3>3
  <2> QED
    BY <2>1, <2>4, <2>5, RootsKeep
<1> QED
  BY <1>1, <1>2

LEMMA TtsKeeps ==
  ASSUME CliInv, Tts \/ Generate \/ RecordTake
  PROVE  CliInv'
<1>1. /\ op.cmd # "deploy" /\ op'.cmd \in {"tts", "idle"}
      /\ UNCHANGED <<catalog, review, approved, out, live, signed>>
  <2>1. CASE Tts
    BY <2>1 DEF Tts, material, files, Idle
  <2>2. CASE Generate
    <3>1. \E ok : op' = [cmd |-> "tts", at |-> "record", approval |-> op.approval, ok |-> ok]
      BY <2>2 DEF Generate
    <3>2. op'.cmd = "tts"
      BY <3>1
    <3> QED
      BY <2>2, <3>2 DEF Generate, Running, material
  <2>3. CASE RecordTake
    BY <2>3 DEF RecordTake, Running, material, Idle
  <2> QED
    BY <2>1, <2>2, <2>3
<1>2. PrepareInHand' /\ ApproveInHand' /\ RenderInHand'
  BY <1>1 DEF PrepareInHand, ApproveInHand, RenderInHand, Running
<1> QED
  BY <1>1, <1>2, RootsKeep DEF CliInv, FilesInv

LEMMA NarrateKeeps ==
  ASSUME CliInv, ApproveNarration \/ CopyTake \/ SignNarration \/ BindNarration
  PROVE  CliInv'
<1>1. /\ op.cmd = "narrate" =>
           /\ DOMAIN op = {"cmd", "at", "root", "page", "approval", "review"}
           /\ op.review.ok /\ op.root \in Roots
      /\ DOMAIN out = Roots
      /\ \A r \in Roots : DOMAIN out[r] = {"page", "bundle", "job", "narration", "heard"}
  BY DEF CliInv, CommandInv, RenderInHand, FilesInv
<1>2. CASE ApproveNarration
  <2>1. op' = [cmd |-> "narrate", at |-> "assets", root |-> "final", page |-> approved.page,
               approval |-> approved.approval, review |-> voiced.review]
    BY <1>2 DEF ApproveNarration
  <2>2. /\ op'.cmd = "narrate" /\ op'.root = "final" /\ op'.review = voiced.review
        /\ DOMAIN op' = {"cmd", "at", "root", "page", "approval", "review"}
    BY <2>1
  <2>3. op = Idle /\ voiced.review.ok /\ UNCHANGED <<catalog, files, live, signed>>
    BY <1>2 DEF ApproveNarration, Hearable, material
  <2>4. PrepareInHand' /\ ApproveInHand' /\ RenderInHand'
    BY <2>2, <2>3 DEF PrepareInHand, ApproveInHand, RenderInHand, Running, Roots
  <2> QED
    BY <1>1, <2>2, <2>3, <2>4, RootsKeep DEF files, Idle
<1>3. CASE CopyTake
  <2>1. /\ op.cmd = "narrate" /\ UNCHANGED <<catalog, review, approved, live, signed>>
        /\ op'.cmd = op.cmd /\ op'.root = op.root /\ op'.review = op.review
        /\ DOMAIN op' = DOMAIN op
    BY <1>1, <1>3 DEF CopyTake, Running, Proceed, material
  <2>2. PrepareInHand' /\ ApproveInHand' /\ RenderInHand'
    BY <1>1, <2>1 DEF PrepareInHand, ApproveInHand, RenderInHand, Running
  <2>3. /\ DOMAIN out' = Roots
        /\ \A r \in Roots : /\ DOMAIN out'[r] = DOMAIN out[r]
                            /\ out'[r].narration = out[r].narration
    BY <1>1, <1>3 DEF CopyTake, Roots
  <2> QED
    BY <2>1, <2>2, <2>3, RootsKeep
<1>4. CASE SignNarration
  <2>1. PICK n :
          n = [kind |-> "narration", approval |-> op.review.approval, review |-> op.review,
               media |-> op.review.media, bundle |-> out["final"].bundle]
    OBVIOUS
  <2>2. /\ op.cmd = "narrate" /\ UNCHANGED <<catalog, review, approved, live>>
        /\ signed' = signed \cup {n}
        /\ out' = [out EXCEPT !["final"].heard = voiced, !["final"].narration = n]
        /\ op' = [op EXCEPT !.at = "bind"]
    BY <1>4, <2>1 DEF SignNarration, Running, Proceed, material
  <2>3. n.kind = "narration" /\ n.review.ok
    BY <1>1, <2>1, <2>2
  <2>4. SignedInv'
    BY <2>2, <2>3 DEF CliInv, SignedInv, ContentRecord, Sourced, NamedBy
  <2>5. /\ DOMAIN out' = Roots
        /\ \A r \in Roots : /\ DOMAIN out'[r] = DOMAIN out[r]
                            /\ out'[r].narration \in {out[r].narration, n}
    BY <1>1, <2>2 DEF Roots
  <2>6. FilesInv'
    BY <2>2, <2>3, <2>5 DEF CliInv, FilesInv, Sourced, NamedBy
  <2>7. /\ op'.cmd = "narrate" /\ op'.root = op.root /\ op'.review = op.review
        /\ DOMAIN op' = DOMAIN op
    BY <1>1, <2>2
  <2>8. CommandInv'
    BY <1>1, <2>2, <2>7
       DEF CommandInv, PrepareInHand, ApproveInHand, RenderInHand, DeployInHand, Running
  <2> QED
    BY <2>2, <2>4, <2>6, <2>8, LiveStands DEF CliInv
<1>5. CASE BindNarration
  <2>1. /\ op.cmd = "narrate" /\ op' = Idle
        /\ UNCHANGED <<catalog, review, approved, live, signed>>
    BY <1>5 DEF BindNarration, Running, material
  <2>2. PrepareInHand' /\ ApproveInHand' /\ RenderInHand' /\ op'.cmd # "deploy"
    BY <2>1 DEF PrepareInHand, ApproveInHand, RenderInHand, Running, Idle
  <2>3. /\ DOMAIN out' = Roots
        /\ \A r \in Roots : /\ DOMAIN out'[r] = DOMAIN out[r]
                            /\ out'[r].narration = out[r].narration
    BY <1>1, <1>5 DEF BindNarration, Roots
  <2> QED
    BY <2>1, <2>2, <2>3, RootsKeep
<1> QED
  BY <1>2, <1>3, <1>4, <1>5

\* Between deploy's checks and its upload nothing changes the root.
LEMMA DeployKeeps ==
  ASSUME CliInv, (\E r \in Roots : Deploy(r)) \/ Upload \/ RecordDeploy
  PROVE  CliInv'
<1>1. signed' = signed /\ catalog' = catalog
  BY DEF Deploy, Upload, RecordDeploy, material
<1>2. SignedInv' /\ (catalog \in Catalogs)'
  BY <1>1, Unsigned DEF CliInv
<1>3. op.cmd = "deploy" =>
        /\ DOMAIN op = {"cmd", "at", "root", "job"}
        /\ op.root \in Roots /\ Reviewed(out[op.root].bundle)
  BY DEF CliInv, CommandInv, DeployInHand
<1>4. CASE \E r \in Roots : Deploy(r)
  <2>1. PICK r \in Roots : Deploy(r)
    BY <1>4
  <2>2. Reviewed(out[r].bundle)
    BY <2>1, DeployableIsReviewed DEF Deploy, CliInv
  <2>3. op' = [cmd |-> "deploy", at |-> "upload", root |-> r, job |-> out[r].job]
    BY <2>1 DEF Deploy
  <2>4. /\ op'.cmd = "deploy" /\ op'.root = r
        /\ DOMAIN op' = {"cmd", "at", "root", "job"}
    BY <2>3
  <2>5. UNCHANGED <<files, live>>
    BY <2>1 DEF Deploy
  <2>6. CommandInv'
    BY <1>1, <2>2, <2>4, <2>5
       DEF CommandInv, PrepareInHand, ApproveInHand, RenderInHand, DeployInHand, Running,
           Reviewed, files
  <2>7. FilesInv'
    BY <2>5 DEF files, CliInv, FilesInv, Sourced, NamedBy
  <2> QED
    BY <1>1, <1>2, <2>5, <2>6, <2>7, LiveStands DEF CliInv
<1>5. CASE Upload
  <2>1. op.cmd = "deploy" /\ live' = out[op.root].bundle /\ UNCHANGED files
    BY <1>5 DEF Upload, Running
  <2>2. Reviewed(live')
    BY <1>3, <2>1
  <2>3. LiveIsReviewed'
    BY <1>1, <2>2 DEF Reviewed, LiveIsReviewed
  <2>4. op'.cmd = op.cmd /\ op'.root = op.root /\ DOMAIN op' = DOMAIN op
    BY <1>3, <1>5, <2>1 DEF Upload, Proceed
  <2>5. CommandInv'
    BY <1>1, <1>3, <2>1, <2>4
       DEF CommandInv, PrepareInHand, ApproveInHand, RenderInHand, DeployInHand, Running,
           Reviewed, files
  <2>6. FilesInv'
    BY <2>1 DEF files, CliInv, FilesInv, Sourced, NamedBy
  <2> QED
    BY <1>2, <2>3, <2>5, <2>6 DEF CliInv
<1>6. CASE RecordDeploy
  <2>1. /\ op' = Idle /\ UNCHANGED <<review, approved, live>>
        /\ op.cmd = "deploy"
    BY <1>6 DEF RecordDeploy, Running
  <2>2. /\ DOMAIN out' = Roots
        /\ \A r \in Roots : /\ DOMAIN out'[r] = DOMAIN out[r]
                            /\ out'[r].narration = out[r].narration
    BY <1>3, <1>6, <2>1 DEF RecordDeploy, CliInv, FilesInv
  <2>3. FilesInv'
    BY <2>1, <2>2 DEF CliInv, FilesInv, Sourced, NamedBy
  <2> QED
    BY <1>1, <1>2, <2>1, <2>3, NoCommandInHand, LiveStands DEF CliInv
<1> QED
  BY <1>4, <1>5, <1>6

\* What goes on around the commands.
LEMMA FaultsKeep ==
  ASSUME CliInv, Crash \/ Upgrade \/ Discard \/ Edit
  PROVE  CliInv'
<1>1. signed' = signed /\ live' = live
  BY DEF Crash, Upgrade, Discard, Edit
<1>2. SignedInv' /\ LiveIsReviewed'
  BY <1>1, Unsigned, LiveStands
<1>3. CASE Crash
  <2>1. op' = Idle /\ UNCHANGED <<catalog, files>>
    BY <1>3 DEF Crash, material
  <2>2. FilesInv'
    BY <1>1, <2>1 DEF files, CliInv, FilesInv, Sourced, NamedBy
  <2> QED
    BY <1>2, <2>1, <2>2, NoCommandInHand DEF CliInv
<1>4. CASE Upgrade
  <2>1. catalog' \in Catalogs /\ UNCHANGED <<files, op>>
    BY <1>4 DEF Upgrade, CliInv
  <2>2. FilesInv'
    BY <1>1, <2>1 DEF files, CliInv, FilesInv, Sourced, NamedBy
  <2>3. CommandInv'
    BY <1>1, <2>1
       DEF files, CliInv, CommandInv, PrepareInHand, ApproveInHand, RenderInHand, DeployInHand,
           Running, Reviewed, Sourced, NamedBy
  <2> QED
    BY <1>2, <2>1, <2>2, <2>3 DEF CliInv
<1>5. CASE Discard
  <2>1. op = Idle /\ UNCHANGED <<catalog, op>>
    BY <1>5 DEF Discard, material
  <2>2. CommandInv'
    BY <2>1, NoCommandInHand
  <2>3. /\ review' \in {review, EmptyReview} /\ approved' \in {approved, EmptyApproved}
        /\ \/ out' = out
           \/ \E r \in Roots : out' = [out EXCEPT ![r] = EmptyOut]
    BY <1>5 DEF Discard
  <2>4. FilesInv'
    <3>1. /\ DOMAIN out' = Roots
          /\ \A r \in Roots : out'[r] = out[r] \/ out'[r] = EmptyOut
      BY <2>3 DEF CliInv, FilesInv
    <3>2. /\ DOMAIN EmptyOut = {"page", "bundle", "job", "narration", "heard"}
          /\ EmptyOut.narration = None
      BY DEF EmptyOut
    <3>3. /\ DOMAIN EmptyReview = {"page", "preview", "dossier"} /\ EmptyReview.dossier = None
          /\ DOMAIN EmptyApproved = {"page", "approval"} /\ EmptyApproved.approval = None
      BY DEF EmptyReview, EmptyApproved
    <3> HIDE DEF EmptyOut, EmptyReview, EmptyApproved
    <3> QED
      BY <1>1, <2>1, <2>3, <3>1, <3>2, <3>3 DEF CliInv, FilesInv, Sourced, NamedBy
  <2> QED
    BY <1>2, <2>1, <2>2, <2>4 DEF CliInv
<1>6. CASE Edit
  <2>1. op.cmd \notin {"prepare", "deploy"} /\ UNCHANGED <<catalog, op>>
    BY <1>6 DEF Edit, material
  <2>2. /\ DOMAIN review' = DOMAIN review /\ review'.dossier = review.dossier
        /\ DOMAIN approved' = DOMAIN approved /\ approved'.approval = approved.approval
    BY <1>6 DEF Edit, CliInv, FilesInv
  <2>3. \/ out' = out
        \/ \E r \in Roots : out' \in {[out EXCEPT ![r].page.draft = HandWritten],
                                      [out EXCEPT ![r].bundle.draft = HandWritten],
                                      [out EXCEPT ![r].bundle.media = MaxTakes + 1],
                                      [out EXCEPT ![r].heard.media = MaxTakes + 1]}
    BY <1>6 DEF Edit
  <2>4. /\ DOMAIN out' = Roots
        /\ \A r \in Roots : /\ DOMAIN out'[r] = DOMAIN out[r]
                            /\ out'[r].narration = out[r].narration
    BY <2>3 DEF CliInv, FilesInv
  <2>5. FilesInv'
    BY <1>1, <2>1, <2>2, <2>4 DEF CliInv, FilesInv, Sourced, NamedBy
  <2>6. CommandInv'
    BY <1>1, <2>1
       DEF CliInv, CommandInv, PrepareInHand, ApproveInHand, RenderInHand, DeployInHand,
           Running, Sourced, NamedBy
  <2> QED
    BY <1>2, <2>1, <2>5, <2>6 DEF CliInv
<1> QED
  BY <1>3, <1>4, <1>5, <1>6

LEMMA StutteringKeeps ==
  ASSUME CliInv, UNCHANGED vars
  PROVE  CliInv'
<1>1. UNCHANGED <<catalog, review, approved, out, live, signed, op>>
  BY DEF vars
<1>2. SignedInv' /\ LiveIsReviewed' /\ (catalog \in Catalogs)'
  BY <1>1, Unsigned, LiveStands DEF CliInv
<1>3. FilesInv'
  BY <1>1 DEF CliInv, FilesInv, Sourced, NamedBy
<1>4. CommandInv'
  BY <1>1 DEF CliInv, CommandInv, PrepareInHand, ApproveInHand, RenderInHand, DeployInHand,
              Running, Reviewed, Sourced, NamedBy
<1> QED
  BY <1>2, <1>3, <1>4 DEF CliInv

-----------------------------------------------------------------------------
(* Theorems.                                                                *)

\* The inductive invariant of the commands.
THEOREM CommandsInvariant == Spec => []CliInv
<1>1. Init => CliInv
  <2> SUFFICES ASSUME Init PROVE CliInv
    OBVIOUS
  <2>1. catalog \in Catalogs /\ SignedInv /\ LiveIsReviewed
    BY DEF Init, SignedInv, LiveIsReviewed
  <2>2. FilesInv
    BY DEF Init, FilesInv, EmptyReview, EmptyApproved, EmptyOut, Roots
  <2>3. CommandInv
    BY DEF Init, Idle, CommandInv, PrepareInHand, ApproveInHand, RenderInHand, DeployInHand,
           Running
  <2> QED
    BY <2>1, <2>2, <2>3 DEF CliInv
<1>2. CliInv /\ [Next]_vars => CliInv'
  <2> SUFFICES ASSUME CliInv, [Next]_vars PROVE CliInv'
    OBVIOUS
  <2>1. CASE (\E s \in Selections : PrepareReview(s)) \/ WritePreview \/ WriteDossier
    BY <2>1, PrepareKeeps
  <2>2. CASE ApproveReview \/ SignReview \/ WriteApproval
    BY <2>2, ApproveKeeps
  <2>3. CASE (\E r \in Roots : Render(r)) \/ RenderAssets \/ RenderPages \/ RenderJob
    BY <2>3, RenderKeeps
  <2>4. CASE Tts \/ Generate \/ RecordTake
    BY <2>4, TtsKeeps
  <2>5. CASE ApproveNarration \/ CopyTake \/ SignNarration \/ BindNarration
    BY <2>5, NarrateKeeps
  <2>6. CASE (\E r \in Roots : Deploy(r)) \/ Upload \/ RecordDeploy
    BY <2>6, DeployKeeps
  <2>7. CASE Crash \/ Upgrade \/ Discard \/ Edit
    BY <2>7, FaultsKeep
  <2>8. CASE UNCHANGED vars
    BY <2>8, StutteringKeeps
  <2> QED
    BY <2>1, <2>2, <2>3, <2>4, <2>5, <2>6, <2>7, <2>8 DEF Next
<1> QED
  BY <1>1, <1>2, PTL DEF Spec

\* What the host serves was reviewed and signed, with its sound if it has one,
\* whatever was edited, upgraded, removed or half written in between
\* (commands.mjs:1888-1972, 1802-1886).
THEOREM ServedIsReviewed == Spec => []LiveIsReviewed
<1>1. CliInv => LiveIsReviewed
  BY DEF CliInv
<1> QED
  BY <1>1, CommandsInvariant, PTL

\* A page with a signature claims of a name only what the catalog it was composed
\* from has a source for (commands.mjs:1388-1530, name-resolution.mjs:28-90).
THEOREM ClaimsAreSourced == Spec => []SignedClaimsAreSourced
<1>1. CliInv => SignedClaimsAreSourced
  <2> SUFFICES ASSUME CliInv, NEW a \in signed, a.kind = "content"
               PROVE  Sourced(a.page.draft, a.dossier.material.catalog)
    BY DEF SignedClaimsAreSourced, Sourced
  <2> QED
    BY DEF CliInv, SignedInv, ContentRecord
<1> QED
  BY <1>1, CommandsInvariant, PTL

-----------------------------------------------------------------------------
(* Prepared roots.                                                          *)

\* What the running command may take for granted of the roots: the job it
\* deploys is the one in the root, an approval is written where none is, and
\* narration is rendered into the root named final.
RootsInv ==
  /\ \A r \in Roots : DOMAIN out[r].job = {"approval", "narration", "url"}
  /\ op.cmd = "deploy" => op.job = out[op.root].job
  /\ op.cmd = "approve" => approved.approval = None
  /\ op.cmd = "narrate" => op.root = "final"

\* A rendering command writes into its own root only.
WritesInto(r) ==
  /\ op.cmd \in {"render", "narrate"} /\ op.root = r
  /\ UNCHANGED <<template, approved>>
  /\ DOMAIN out' = DOMAIN out
  /\ \A q \in Roots : q # r => out'[q] = out[q]
  /\ DOMAIN out'[r].job = DOMAIN out[r].job

LEMMA WritingCommands ==
  ASSUME CliInv, RootsInv,
         RenderAssets \/ RenderPages \/ RenderJob \/ CopyTake \/ SignNarration \/ BindNarration
  PROVE  /\ op.root \in Roots /\ WritesInto(op.root)
         /\ \/ op' = Idle
            \/ op'.cmd = op.cmd /\ op'.root = op.root
<1>1. /\ op.cmd \in {"render", "narrate"} /\ op.root \in Roots
      /\ UNCHANGED <<template, approved>>
  BY DEF RenderAssets, RenderPages, RenderJob, CopyTake, SignNarration, BindNarration,
         Rendering, Running, material, CliInv, CommandInv, RenderInHand
<1>2. /\ DOMAIN out = Roots
      /\ \A r \in Roots : /\ DOMAIN out[r] = {"page", "bundle", "job", "narration", "heard"}
                          /\ DOMAIN out[r].job = {"approval", "narration", "url"}
  BY DEF CliInv, FilesInv, RootsInv
<1>3. /\ op.cmd = "render" => DOMAIN op = {"cmd", "at", "root", "page", "approval"}
      /\ op.cmd = "narrate" =>
           DOMAIN op = {"cmd", "at", "root", "page", "approval", "review"}
  BY DEF CliInv, CommandInv, RenderInHand
<1>4. op' = Idle \/ (op'.cmd = op.cmd /\ op'.root = op.root)
  BY <1>1, <1>3 DEF RenderAssets, RenderPages, RenderJob, CopyTake, SignNarration,
                    BindNarration, Proceed
<1>5. CASE RenderAssets
  BY <1>1, <1>2, <1>4, <1>5 DEF RenderAssets, WritesInto
<1>6. CASE RenderPages
  BY <1>1, <1>2, <1>4, <1>6 DEF RenderPages, WritesInto
<1>7. CASE RenderJob
  BY <1>1, <1>2, <1>4, <1>7 DEF RenderJob, WritesInto
<1>8. CASE CopyTake \/ SignNarration \/ BindNarration
  <2>1. op.root = "final" /\ "final" \in Roots
    BY <1>8 DEF CopyTake, SignNarration, BindNarration, Running, RootsInv, Roots
  <2>2. CASE CopyTake
    BY <1>1, <1>2, <1>4, <2>1, <2>2 DEF CopyTake, WritesInto
  <2>3. CASE SignNarration
    BY <1>1, <1>2, <1>4, <2>1, <2>3 DEF SignNarration, WritesInto
  <2>4. CASE BindNarration
    BY <1>1, <1>2, <1>4, <2>1, <2>4 DEF BindNarration, WritesInto
  <2> QED
    BY <1>8, <2>2, <2>3, <2>4
<1> QED
  BY <1>5, <1>6, <1>7, <1>8

\* A deployment changes nothing of a root but that it has a URL.
LEMMA DeployRecords ==
  ASSUME CliInv, RootsInv, RecordDeploy
  PROVE  /\ UNCHANGED <<template, approved, signed>> /\ op' = Idle
         /\ DOMAIN out' = DOMAIN out
         /\ \A r \in Roots :
              /\ out'[r].page = out[r].page /\ out'[r].bundle = out[r].bundle
              /\ out'[r].narration = out[r].narration /\ out'[r].heard = out[r].heard
              /\ DOMAIN out'[r].job = DOMAIN out[r].job
              /\ out'[r].job.approval = out[r].job.approval
              /\ out'[r].job.narration = out[r].job.narration
<1>1. /\ op.root \in Roots /\ op.job = out[op.root].job
      /\ UNCHANGED <<template, approved, signed>> /\ op' = Idle
  BY DEF RecordDeploy, Running, material, RootsInv, CliInv, CommandInv, DeployInHand
<1>2. PICK job : job = [op.job EXCEPT !.url = TRUE]
  OBVIOUS
<1>3. /\ DOMAIN job = {"approval", "narration", "url"}
      /\ job.approval = op.job.approval /\ job.narration = op.job.narration
  BY <1>1, <1>2 DEF RootsInv
<1>4. out' = [out EXCEPT ![op.root].job = job]
  BY <1>2 DEF RecordDeploy
<1>5. /\ DOMAIN out = Roots
      /\ \A r \in Roots : /\ DOMAIN out[r] = {"page", "bundle", "job", "narration", "heard"}
                          /\ DOMAIN out[r].job = {"approval", "narration", "url"}
  BY DEF CliInv, FilesInv, RootsInv
<1>6. /\ DOMAIN out' = DOMAIN out
      /\ \A r \in Roots : r # op.root => out'[r] = out[r]
      /\ out'[op.root] = [out[op.root] EXCEPT !.job = job]
  BY <1>1, <1>4, <1>5
<1>7. /\ out'[op.root].page = out[op.root].page
      /\ out'[op.root].bundle = out[op.root].bundle
      /\ out'[op.root].narration = out[op.root].narration
      /\ out'[op.root].heard = out[op.root].heard
      /\ out'[op.root].job = job
  BY <1>1, <1>5, <1>6
<1> QED
  BY <1>1, <1>3, <1>5, <1>6, <1>7

LEMMA RootsInvKept ==
  ASSUME CliInv, RootsInv, [Next]_vars
  PROVE  RootsInv'
<1>0. /\ DOMAIN out = Roots
      /\ DOMAIN approved = {"page", "approval"}
      /\ \A r \in Roots : /\ DOMAIN out[r] = {"page", "bundle", "job", "narration", "heard"}
                          /\ DOMAIN out[r].job = {"approval", "narration", "url"}
  BY DEF CliInv, FilesInv, RootsInv
<1>1. CASE \/ \E s \in Selections : PrepareReview(s)
           \/ WritePreview \/ WriteDossier
           \/ Tts \/ Generate \/ RecordTake
  <2>1. UNCHANGED <<out, approved>> /\ op'.cmd \in {"prepare", "tts", "idle"}
    <3>1. CASE \E s \in Selections : PrepareReview(s)
      BY <3>1 DEF PrepareReview, files
    <3>2. CASE WritePreview
      BY <3>2 DEF WritePreview, Running, Proceed, CliInv, CommandInv, PrepareInHand
    <3>3. CASE WriteDossier
      BY <3>3 DEF WriteDossier, Idle
    <3>4. CASE Tts \/ RecordTake
      BY <3>4 DEF Tts, RecordTake, files, Idle
    <3>5. CASE Generate
      BY <3>5 DEF Generate
    <3> QED
      BY <1>1, <3>1, <3>2, <3>3, <3>4, <3>5
  <2> QED
    BY <2>1 DEF RootsInv
<1>2. CASE ApproveReview \/ SignReview \/ WriteApproval
  <2>1. CASE ApproveReview
    BY <2>1 DEF ApproveReview, RootsInv, files, EmptyApproved
  <2>2. CASE SignReview
    <3>1. op.cmd = "approve" /\ op'.cmd = "approve" /\ out' = out
          /\ approved'.approval = approved.approval
      BY <1>0, <2>2 DEF SignReview, Running
    <3> QED
      BY <3>1 DEF RootsInv
  <2>3. CASE WriteApproval
    BY <2>3 DEF WriteApproval, RootsInv, Idle
  <2> QED
    BY <1>2, <2>1, <2>2, <2>3
<1>3. CASE (\E r \in Roots : Render(r)) \/ ApproveNarration
  <2>1. UNCHANGED <<out, approved>>
    BY <1>3 DEF Render, ApproveNarration, files
  <2>2. op'.cmd = "render" \/ (op'.cmd = "narrate" /\ op'.root = "final")
    BY <1>3 DEF Render, ApproveNarration
  <2> QED
    BY <2>1, <2>2 DEF RootsInv
<1>4. CASE RenderAssets \/ RenderPages \/ RenderJob \/ CopyTake \/ SignNarration \/ BindNarration
  <2>1. /\ op.root \in Roots /\ WritesInto(op.root)
        /\ op' = Idle \/ (op'.cmd = op.cmd /\ op'.root = op.root)
    BY <1>4, WritingCommands
  <2>2. op'.cmd = "idle" \/ (op'.cmd = op.cmd /\ op'.root = op.root)
    BY <2>1 DEF Idle
  <2> QED
    BY <2>1, <2>2 DEF WritesInto, RootsInv
<1>5. CASE \E r \in Roots : Deploy(r)
  <2>1. PICK r \in Roots : Deploy(r)
    BY <1>5
  <2>2. UNCHANGED <<out, approved>>
    BY <2>1 DEF Deploy, files
  <2>3. op'.cmd = "deploy" /\ op'.job = out[r].job /\ op'.root = r
    BY <2>1 DEF Deploy
  <2> QED
    BY <2>2, <2>3 DEF RootsInv
<1>6. CASE Upload
  <2>1. UNCHANGED <<out, approved>>
    BY <1>6 DEF Upload, files
  <2>2. op'.cmd = "deploy" /\ op'.job = op.job /\ op'.root = op.root /\ op.cmd = "deploy"
    BY <1>6 DEF Upload, Running, Proceed, CliInv, CommandInv, DeployInHand
  <2> QED
    BY <2>1, <2>2 DEF RootsInv
<1>7. CASE RecordDeploy
  BY <1>7, DeployRecords DEF RootsInv, Idle
<1>8. CASE Crash
  BY <1>8 DEF Crash, RootsInv, files, Idle
<1>9. CASE Upgrade \/ UNCHANGED vars
  BY <1>9 DEF Upgrade, RootsInv, files, vars
<1>10. CASE Discard
  <2>1. op' = op /\ op = Idle
    BY <1>10 DEF Discard
  <2>2. out' = out \/ \E r \in Roots : out' = [out EXCEPT ![r] = EmptyOut]
    BY <1>10 DEF Discard
  <2>3. DOMAIN EmptyOut.job = {"approval", "narration", "url"}
    BY DEF EmptyOut, NoJob
  <2>4. \A r \in Roots : out'[r] = out[r] \/ out'[r] = EmptyOut
    BY <1>0, <2>2
  <2> HIDE DEF EmptyOut
  <2> QED
    BY <1>0, <2>1, <2>3, <2>4 DEF RootsInv, Idle
<1>11. CASE Edit
  <2>1. op' = op /\ op.cmd # "deploy"
    BY <1>11 DEF Edit
  <2>2. approved'.approval = approved.approval
    BY <1>0, <1>11 DEF Edit
  <2>3. \/ out' = out
        \/ \E r \in Roots : out' \in {[out EXCEPT ![r].page.draft = HandWritten],
                                      [out EXCEPT ![r].bundle.draft = HandWritten],
                                      [out EXCEPT ![r].bundle.media = MaxTakes + 1],
                                      [out EXCEPT ![r].heard.media = MaxTakes + 1]}
    BY <1>11 DEF Edit
  <2>4. \A r \in Roots : out'[r].job = out[r].job
    BY <1>0, <2>3
  <2> QED
    BY <2>1, <2>2, <2>4 DEF RootsInv
<1> QED
  BY <1>1, <1>2, <1>3, <1>4, <1>5, <1>6, <1>7, <1>8, <1>9, <1>10, <1>11 DEF Next

\* A root whose files and approval are as they were can be deployed as it could.
LEMMA DeployableStands ==
  ASSUME UNCHANGED <<template, approved>>, signed \subseteq signed', NEW r,
         out'[r].page = out[r].page, out'[r].bundle = out[r].bundle,
         out'[r].narration = out[r].narration, out'[r].heard = out[r].heard,
         out'[r].job.approval = out[r].job.approval,
         out'[r].job.narration = out[r].job.narration,
         Deployable(r)
  PROVE  Deployable(r)'
<1>1. ApprovalHolds'
  BY DEF Deployable, ApprovalHolds
<1>2. Narrated(r) => Narrated(r)'
  BY DEF Narrated, Inventory, Projection
<1> QED
  BY <1>1, <1>2 DEF Deployable, Projection

\* No command spoils a root that could be deployed, except one that renders into
\* it (commands.mjs:839-935, 937-1087).
THEOREM PreparedRootsSurvive == Spec => PreparedSurvives
<1> DEFINE Excused(r) ==
      Edit \/ Upgrade \/ Discard \/ (op.cmd \in {"render", "narrate"} /\ op.root = r)
<1>1. Init => RootsInv
  BY DEF Init, RootsInv, EmptyOut, NoJob, Idle
<1>2. CliInv /\ RootsInv /\ [Next]_vars => RootsInv'
  BY RootsInvKept
<1>3. ASSUME CliInv, RootsInv, Next
      PROVE  \A r \in Roots : Deployable(r) /\ ~Deployable(r)' => Excused(r)
  <2> SUFFICES ASSUME NEW r \in Roots, Deployable(r), ~Excused(r)
               PROVE  Deployable(r)'
    OBVIOUS
  <2>1. CASE \/ \E s \in Selections : PrepareReview(s)
             \/ WritePreview \/ WriteDossier \/ ApproveReview
             \/ \E q \in Roots : Render(q) \/ Deploy(q)
             \/ Tts \/ Generate \/ RecordTake \/ ApproveNarration \/ Upload \/ Crash
    <3>1. UNCHANGED <<template, approved, out, signed>>
      BY <2>1 DEF PrepareReview, WritePreview, WriteDossier, ApproveReview, Render, Deploy,
                  Tts, Generate, RecordTake, ApproveNarration, Upload, Crash, files, material
    <3> QED
      BY <3>1, DeployableStands
  <2>2. CASE SignReview \/ WriteApproval
    <3>1. approved.approval = None
      BY <1>3, <2>2 DEF SignReview, WriteApproval, Running, RootsInv
    <3> QED
      BY <3>1 DEF Deployable, ApprovalHolds
  <2>3. CASE RenderAssets \/ RenderPages \/ RenderJob \/ CopyTake \/ SignNarration \/ BindNarration
    <3>1. op.cmd \in {"render", "narrate"} /\ WritesInto(op.root)
      BY <1>3, <2>3, WritingCommands DEF WritesInto
    <3>2. r # op.root
      BY <3>1
    <3>3. signed \subseteq signed'
      BY <2>3 DEF RenderAssets, RenderPages, RenderJob, CopyTake, SignNarration, BindNarration
    <3> QED
      BY <3>1, <3>2, <3>3, DeployableStands DEF WritesInto
  <2>4. CASE RecordDeploy
    BY <1>3, <2>4, DeployRecords, DeployableStands
  <2> QED
    BY <1>3, <2>1, <2>2, <2>3, <2>4 DEF Next
<1>4. CliInv /\ RootsInv /\ [Next]_vars =>
        [\A r \in Roots : Deployable(r) /\ ~Deployable(r)' => Excused(r)]_vars
  BY <1>3
<1> QED
  BY <1>1, <1>2, <1>4, CommandsInvariant, PTL DEF Spec, PreparedSurvives
================================================================================

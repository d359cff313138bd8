--------------------------- MODULE NameResolution ---------------------------
(***************************************************************************)
(* From an intake's name to a draft page: resolveName                      *)
(* (scripts/lib/name-resolution.mjs) and what commandCompose makes of it   *)
(* (scripts/lib/commands.mjs).                                             *)
(*                                                                         *)
(* A name stands for all the spellings that normalise alike, so            *)
(* normalizeLatinName and normalizeArabicName are the choice of the model  *)
(* value; `Unreadable` is an Arabic name of which nothing is left.         *)
(* A suggestion says which of its texts exist and which carry a source.    *)
(***************************************************************************)
EXTENDS Naturals, FiniteSets

CONSTANTS
  LatinNames, ArabicNames,  \* normalised names
  Unreadable,               \* an Arabic name that normalises to nothing
  Keys,                     \* canonical keys of catalog entries
  None                      \* null

ASSUME NamesAssumption ==
  /\ None \notin LatinNames \cup ArabicNames \cup Keys
  /\ Unreadable \notin ArabicNames \cup {None}

\* What a catalog may hold, and what an intake may ask.
Suggestion == [id : STRING, meaning : BOOLEAN, meaningSourced : BOOLEAN,
               verses : BOOLEAN, versesSourced : BOOLEAN]
Entry == [latin : LatinNames, arabic : ArabicNames \cup {None},
          latinAliases : SUBSET LatinNames, arabicAliases : SUBSET ArabicNames,
          suggestions : SUBSET Suggestion]
IsCatalog(c) ==
  /\ DOMAIN c.entries \subseteq Keys
  /\ IsFiniteSet(DOMAIN c.entries)
  /\ \A k \in DOMAIN c.entries : c.entries[k] \in Entry
  /\ c.fallback \subseteq Suggestion
Intake == [latin : LatinNames, arabic : ArabicNames \cup {Unreadable, None}, girl : BOOLEAN]

-----------------------------------------------------------------------------
(* findCandidates, once for each script.                                    *)

ExactLatin(name, c) == {k \in DOMAIN c.entries : c.entries[k].latin = name}
AliasLatin(name, c) == {k \in DOMAIN c.entries : name \in c.entries[k].latinAliases}
ExactArabic(name, c) ==
  {k \in DOMAIN c.entries : name # None /\ c.entries[k].arabic = name}
AliasArabic(name, c) ==
  {k \in DOMAIN c.entries : name # None /\ name \in c.entries[k].arabicAliases}

ByLatin(name, c)  == ExactLatin(name, c) \cup AliasLatin(name, c)
ByArabic(name, c) == ExactArabic(name, c) \cup AliasArabic(name, c)

HasMeaning(s)    == s.meaning /\ s.meaningSourced
HasScripture(s)  == s.verses /\ s.versesSourced

\* suggestionsForResolvedName keeps of the verses those that have a source.
Offered(suggestions) == {[s EXCEPT !.verses = HasScripture(s)] : s \in suggestions}

\* An unknown name is given no meaning and no verse.
Generic(suggestions) == {[s EXCEPT !.meaning = FALSE, !.verses = FALSE] : s \in suggestions}

Verdict(status, kind, key, reasons, suggestions) ==
  [status |-> status, kind |-> kind, key |-> key, reasons |-> reasons,
   suggestions |-> suggestions]

ReviewRequired(kind) == Verdict("review_required", kind, None, {kind}, {})

\* resolveCandidates: the single entry both scripts left.
Resolved_LatinDecides(intake, k, c) ==
  LET exact == k \in ExactLatin(intake.latin, c) IN
  Verdict("resolved", IF exact THEN "exact" ELSE "alias", k,
          IF exact THEN {} ELSE {"name_alias_match"}, Offered(c.entries[k].suggestions))

Resolved(intake, k, c) ==
  LET exact == /\ k \in ExactLatin(intake.latin, c)
               /\ intake.arabic = None \/ k \in ExactArabic(intake.arabic, c) IN
  Verdict("resolved", IF exact THEN "exact" ELSE "alias", k,
          IF exact THEN {} ELSE {"name_alias_match"}, Offered(c.entries[k].suggestions))

Unknown(c) ==
  Verdict("fallback", "unknown", None, {"name_not_in_catalog"}, Generic(c.fallback))

ResolveName(intake, c) ==
  LET latin  == ByLatin(intake.latin, c)
      arabic == ByArabic(intake.arabic, c)
      given  == intake.arabic # None
      shared == IF given THEN latin \cap arabic ELSE latin IN
  IF intake.arabic = Unreadable THEN ReviewRequired("invalid_orthography")
  ELSE IF Cardinality(latin) > 1 \/ Cardinality(arabic) > 1 THEN ReviewRequired("ambiguous")
  ELSE IF latin \cup arabic = {} THEN Unknown(c)
  ELSE IF shared = {} THEN ReviewRequired("cross_script_conflict")
  ELSE Resolved(intake, CHOOSE k \in shared : TRUE, c)

-----------------------------------------------------------------------------
(* commandCompose for a private review.                                     *)

\* buildDraftPage: the claims a page makes of the name it was composed for.
Draft(verdict, s) ==
  [suggestion |-> s.id, key |-> verdict.key, reasons |-> verdict.reasons,
   meaning |-> HasMeaning(s), scripture |-> HasScripture(s)]

Composed(state, draft) == [state |-> state, draft |-> draft]

Compose(intake, c, selection) ==
  LET verdict == ResolveName(intake, c)
      offered == verdict.suggestions
      chosen  == IF selection = None THEN offered
                 ELSE {s \in offered : s.id = selection} IN
  IF ~intake.girl THEN Composed("needs_editorial_input", None)
  ELSE IF verdict.status = "review_required" THEN Composed("name_review_required", None)
  ELSE IF offered = {} THEN Composed("blocked", None)
  ELSE IF selection = None /\ Cardinality(offered) > 1 THEN Composed("selection_required", None)
  ELSE IF chosen = {} THEN Composed("unknown_selection", None)
  ELSE Composed("draft_created", Draft(verdict, CHOOSE s \in chosen : TRUE))

-----------------------------------------------------------------------------
\* What resolving a name means: the entries each name given may stand for have
\* to be the same single entry, or none for any of them
\* (name-resolution.mjs:28-90).
NamedBy(intake, k, c) ==
  /\ k \in DOMAIN c.entries
  /\ ByLatin(intake.latin, c) = {k}
  /\ intake.arabic # None => ByArabic(intake.arabic, c) = {k}

ResolvesWhenAllAgree(intake, c) ==
  LET verdict == ResolveName(intake, c) IN
  /\ \A k \in Keys : (verdict.status = "resolved" /\ verdict.key = k) <=> NamedBy(intake, k, c)
  /\ verdict.status = "fallback" <=>
       /\ intake.arabic # Unreadable
       /\ \A k \in DOMAIN c.entries :
            k \notin ByLatin(intake.latin, c) \cup ByArabic(intake.arabic, c)
  /\ verdict.kind = "exact" <=>
       /\ verdict.status = "resolved"
       /\ c.entries[verdict.key].latin = intake.latin
       /\ intake.arabic \in {None, c.entries[verdict.key].arabic}
=============================================================================

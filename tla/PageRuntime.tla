---------------------------- MODULE PageRuntime -----------------------------
(***************************************************************************)
(* Narration on a public page: template/runtime/app.js.                    *)
(*                                                                         *)
(* One thread of tasks: a handler runs to its first await, and the rest of *)
(* it runs when the awaited promise settles, with whatever the page has    *)
(* become meanwhile.  `loads` are the calls that wait for the timings,     *)
(* `waits` those that wait for audio.play(), `micro` those whose play has  *)
(* settled, which run before any other task.  A handler is an operator     *)
(* from the page before it to the page after it.                           *)
(*                                                                         *)
(* The media element follows the HTML standard: a new src rejects the      *)
(* pending plays and drops the element's queued events.                    *)
(***************************************************************************)
EXTENDS Naturals, Sequences, FiniteSets, SequencesExt

CONSTANTS
  Languages, Sections,
  First, Closing,   \* the first section of the page, and the one called "closing"
  Narrations,       \* what a site may have: language -> sections with audio, in order
  None,             \* null
  MaxInputs,        \* how often a visitor does something
  MaxFailures       \* how often a track does not load

ASSUME RuntimeAssumption ==
  /\ {First, Closing} \subseteq Sections
  /\ Narrations \subseteq [Languages -> Seq(Sections)]
  /\ None \notin Languages \cup Sections
  /\ None \notin [language : Languages \cup {None}, index : Nat]  \* null is no track
  /\ IsFiniteSet(Languages)
  /\ {MaxInputs, MaxFailures} \subseteq Nat

VARIABLES
  page,   \* `state` and the audio element of app.js, and the calls under way
  inputs, failures

vars == <<page, inputs, failures>>

Track(language, index) == [language |-> language, index |-> index]
Ambient == Track(None, 0)
SectionOf(p, track) == p.site[track.language][track.index]

\* A call of playNarrationTrackByIndex or of setNarration: what it plays, who
\* called it, and what that caller does when it is done.
Call(by, track, then) == [by |-> by, track |-> track, then |-> then]

Init ==
  /\ page \in [site : Narrations, language : Languages, requested : {FALSE}, enabled : {FALSE},
               loaded : {FALSE}, current : {None}, section : {None}, disabled : {FALSE},
               retrying : {FALSE}, booted : {FALSE}, asked : BOOLEAN,
               src : {None}, paused : {TRUE}, ready : {FALSE}, allowed : {FALSE},
               press : {None}, events : {<<>>}, waits : {<<>>}, micro : {<<>>},
               loads : {{}}]
  /\ inputs = 0 /\ failures = 0

-----------------------------------------------------------------------------
(* The media element.                                                       *)

Settled(calls, ok) == [i \in 1..Len(calls) |-> [call |-> calls[i], ok |-> ok]]

\* audio.src = src
Load(p, src) ==
  [p EXCEPT !.src = src, !.paused = TRUE, !.ready = FALSE, !.events = <<>>,
            !.waits = <<>>, !.micro = @ \o Settled(p.waits, FALSE)]

\* audio.pause()
Pause(p) ==
  IF p.paused THEN p
  ELSE [p EXCEPT !.paused = TRUE, !.events = Append(@, "pause"), !.waits = <<>>,
                 !.micro = @ \o Settled(p.waits, FALSE)]

\* ensureAmbientSource: audio.src is resolved and never ends with the relative URL
\* it is compared with, so the file is set again on every call.
EnsureAmbient(p) == Load(p, Ambient)

\* audio.play(), refused until the visitor has touched the page.
Play(p, call) ==
  IF p.allowed
  THEN [p EXCEPT !.paused = FALSE, !.waits = Append(@, call),
                 !.events = IF p.paused THEN Append(@, "play") ELSE @]
  ELSE [p EXCEPT !.micro = Append(@, [call |-> call, ok |-> FALSE])]

-----------------------------------------------------------------------------
(* playNarrationForSection, setActiveSection                                *)

Tracks(p, language) == IF p.loaded THEN p.site[language] ELSE <<>>
IndexOf(p, language, section) ==
  SelectInSeq(Tracks(p, language), LAMBDA s : s = section)

\* playNarrationTrackByIndex, up to its await
PlayTrack(p, track, by, then) ==
  Play(Load(p, track), Call(by, track, then))

Playing(p, track) == p.current = track /\ ~p.paused

\* A call whose result nobody awaits.
PlayFree(p, language, section) ==
  LET index == IndexOf(p, language, section)
      track == Track(language, index) IN
  IF index = 0 \/ Playing(p, track) THEN p ELSE PlayTrack(p, track, "free", None)

SetActiveSection(p, section) ==
  IF p.section = section THEN p
  ELSE LET q == [p EXCEPT !.section = section] IN
       IF q.enabled THEN PlayFree(q, q.language, section) ELSE q

ActiveOrFirst(p) == IF p.section = None THEN First ELSE p.section

\* updateCueFromTime: a cue of another section than the current track's is
\* ignored; without a track the time is that of a file that never starts.
UpdateCue(p) ==
  IF ~p.enabled THEN p
  ELSE SetActiveSection(p, IF p.current = None THEN First ELSE SectionOf(p, p.current))

-----------------------------------------------------------------------------
(* setNarration                                                             *)

\* The caller goes on: attemptNarrationRetry clears its flag, init turns to the
\* first section.
Done(p, then) ==
  CASE then = "retry" -> [p EXCEPT !.retrying = FALSE]
    [] then = "init"  -> SetActiveSection([p EXCEPT !.booted = TRUE], First)
    [] OTHER          -> p

Enable(p, then) == Done(UpdateCue([p EXCEPT !.enabled = TRUE]), then)

TurnOn(p, then) ==
  LET section == ActiveOrFirst(p)
      index == IndexOf(p, p.language, section)
      track == Track(p.language, index) IN
  IF index = 0 THEN Play(EnsureAmbient(p), Call("set", Ambient, then))
  ELSE IF Playing(p, track) THEN Enable(p, then)
  ELSE PlayTrack(p, track, "set", then)

TurnOff(p, then) ==
  Done([EnsureAmbient(Pause(p)) EXCEPT !.enabled = FALSE, !.current = None], then)

SetNarration(p, on, then) ==
  LET q == [p EXCEPT !.requested = on] IN
  IF on /\ ~p.loaded THEN [q EXCEPT !.loads = @ \cup {[id |-> inputs, then |-> then]}]
  ELSE IF on THEN TurnOn(q, then) ELSE TurnOff(q, then)

\* What a call does once audio.play() has settled.
Started_WhenAwaited(p, call) ==
  IF call.by = "free" THEN p
  ELSE LET q == SetActiveSection([p EXCEPT !.current = call.track], SectionOf(p, call.track)) IN
       IF call.by = "set" THEN Enable(q, call.then) ELSE q

Started(p, call) ==
  LET q == SetActiveSection([p EXCEPT !.current = call.track], SectionOf(p, call.track)) IN
  IF call.by = "set" THEN Enable(q, call.then) ELSE q

Refused_NoFinally(p, call) ==
  CASE call.by = "set"  -> [p EXCEPT !.enabled = FALSE, !.current = None]
    [] call.by = "next" -> [p EXCEPT !.enabled = FALSE]
    [] OTHER            -> p

Refused(p, call) ==
  CASE call.by = "set"  -> Done([p EXCEPT !.enabled = FALSE, !.current = None], call.then)
    [] call.by = "next" -> [p EXCEPT !.enabled = FALSE]
    [] OTHER            -> p

-----------------------------------------------------------------------------
Handle(p) == page.micro = <<>> /\ page' = p

Continue ==
  /\ page.micro # <<>>
  /\ LET settled == Head(page.micro)
         p == [page EXCEPT !.micro = Tail(@)] IN
     page' = IF settled.ok THEN Started(p, settled.call) ELSE Refused(p, settled.call)
  /\ UNCHANGED <<inputs, failures>>

\* loadNarrationTimings is done for one of the calls that wait for it.
LoadTimings ==
  /\ \E call \in page.loads :
       Handle(TurnOn([page EXCEPT !.loads = @ \ {call}, !.loaded = TRUE], call.then))
  /\ UNCHANGED <<inputs, failures>>

\* setLanguage
SetLanguage(p, language) ==
  LET q == UpdateCue([p EXCEPT !.language = language]) IN
  IF q.enabled THEN PlayFree(q, language, ActiveOrFirst(q)) ELSE q

\* init, from the transcript on: the language and the narration of the URL.
Boot ==
  /\ ~page.booted /\ page.asked # None
  /\ Handle(SetNarration(SetLanguage([page EXCEPT !.asked = None], page.language),
                         page.asked, "init"))
  /\ UNCHANGED <<inputs, failures>>

-----------------------------------------------------------------------------
(* The visitor.                                                             *)

Input == inputs < MaxInputs /\ inputs' = inputs + 1 /\ UNCHANGED failures

\* pointerdown, on a control that is shown or beside them: attemptNarrationRetry
Press(target) ==
  LET p == [page EXCEPT !.allowed = TRUE, !.press = target] IN
  /\ page.press = None
  /\ target = "toggle" => ~page.disabled
  /\ target = "start" => page.requested /\ ~page.enabled /\ ~page.disabled
  /\ target = "lang" => Cardinality(Languages) > 1
  /\ Input
  /\ Handle(IF p.retrying \/ ~p.requested \/ p.enabled \/ p.disabled THEN p
            ELSE SetNarration([p EXCEPT !.retrying = TRUE], TRUE, "retry"))

Click ==
  /\ page.press # None
  /\ LET p == [page EXCEPT !.press = None] IN
     Handle(CASE page.press = "toggle" -> SetNarration(p, ~p.requested, None)
              [] page.press = "start"  -> SetNarration(p, TRUE, None)
              [] page.press = "lang"   ->
                   SetLanguage(p, CHOOSE l \in Languages : l # p.language)
              [] OTHER -> p)
  /\ UNCHANGED <<inputs, failures>>

\* The section observer, while no narration moves the page.
Scroll(section) ==
  /\ ~page.enabled /\ page.section # section
  /\ Input
  /\ Handle(SetActiveSection(page, section))

\* The audio is paused by a headset or by the system.
Interrupt ==
  /\ page.ready /\ ~page.paused
  /\ Input
  /\ Handle(Pause(page))

-----------------------------------------------------------------------------
(* Events of the media element.                                             *)

MediaEvent_PauseOnly ==
  /\ page.events # <<>>
  /\ LET p == [page EXCEPT !.events = Tail(@)] IN
     Handle(IF Head(page.events) = "pause" THEN [p EXCEPT !.enabled = FALSE] ELSE p)
  /\ UNCHANGED <<inputs, failures>>

MediaEvent ==
  /\ page.events # <<>>
  /\ LET p == [page EXCEPT !.events = Tail(@)] IN
     Handle(IF Head(page.events) = "pause" THEN [p EXCEPT !.enabled = FALSE]
            ELSE IF p.requested THEN [p EXCEPT !.enabled = TRUE] ELSE p)
  /\ UNCHANGED <<inputs, failures>>

\* The track can be played; nothing in a bundle provides the ambient file.
CanPlay ==
  /\ page.events = <<>> /\ page.waits # <<>> /\ page.src # Ambient
  /\ Handle([page EXCEPT !.ready = TRUE, !.waits = <<>>, !.micro = Settled(page.waits, TRUE)])
  /\ UNCHANGED <<inputs, failures>>

Error ==
  /\ page.events = <<>> /\ page.waits # <<>>
  /\ IF page.src = Ambient THEN UNCHANGED failures
     ELSE failures < MaxFailures /\ failures' = failures + 1
  /\ Handle([page EXCEPT !.requested = FALSE, !.enabled = FALSE, !.current = None,
                         !.disabled = TRUE, !.waits = <<>>,
                         !.micro = Settled(page.waits, FALSE)])
  /\ UNCHANGED inputs

\* ended: playNextNarrationTrack
PlayNext_Again(p) ==
  IF ~p.requested \/ p.current = None THEN p ELSE PlayTrack(p, p.current, "next", None)

PlayNext(p) ==
  LET next == Track(p.current.language, p.current.index + 1) IN
  IF ~p.requested \/ p.current = None THEN p
  ELSE IF next.index > Len(Tracks(p, next.language))
  THEN [EnsureAmbient(SetActiveSection(p, Closing))
          EXCEPT !.requested = FALSE, !.enabled = FALSE, !.current = None]
  ELSE PlayTrack(p, next, "next", None)

Ended ==
  /\ page.events = <<>> /\ page.waits = <<>> /\ page.ready /\ ~page.paused
  /\ Handle(PlayNext([page EXCEPT !.paused = TRUE, !.ready = FALSE]))
  /\ UNCHANGED <<inputs, failures>>

\* timeupdate
TimeUpdate ==
  /\ page.ready /\ ~page.paused
  /\ Handle(UpdateCue(page))
  /\ UNCHANGED <<inputs, failures>>

Next ==
  \/ Continue \/ LoadTimings \/ Boot
  \/ \E target \in {"page", "toggle", "start", "lang"} : Press(target)
  \/ Click
  \/ \E s \in Sections : Scroll(s)
  \/ Interrupt
  \/ MediaEvent \/ CanPlay \/ Error \/ Ended \/ TimeUpdate

\* The event loop runs what is queued, a fetch and a track end sooner or later;
\* the visitor owes nothing, but lifts the finger.
Browser ==
  Continue \/ LoadTimings \/ Boot \/ Click \/ MediaEvent \/ CanPlay \/ Error \/ Ended

\* ENABLED <<Browser>>_vars
Busy ==
  \/ page.micro # <<>> \/ page.events # <<>> \/ page.waits # <<>> \/ page.loads # {}
  \/ page.asked # None \/ page.press # None
  \/ page.ready /\ ~page.paused

Spec == Init /\ [][Next]_vars
FairSpec == Spec /\ ([]<>~Busy \/ []<><<Browser>>_vars)

-----------------------------------------------------------------------------
\* Nothing waits for a promise, an event or the rest of a click.
AtRest ==
  /\ page.booted /\ page.press = None
  /\ page.micro = <<>> /\ page.events = <<>> /\ page.waits = <<>> /\ page.loads = {}

Heard == page.ready /\ ~page.paused

\* With the narration off, and "Narration Off" on its button, nothing is heard
\* (app.js:748).
OffIsSilent == AtRest /\ ~page.requested => ~Heard

\* The track that is heard is the one the page takes for the current one, whose
\* section, phrases and successor it follows: also after two calls raced for the
\* one audio element (app.js:275-352, 658-710).
HeardIsCurrent == AtRest /\ Heard => page.current = page.src

\* While narration is asked for, the button and the start overlay tell "on" from
\* "tap" by what is heard, however many plays were begun and aborted
\* (app.js:737-768, 917-926).
ButtonTellsTruth == AtRest /\ page.requested => (page.enabled <=> Heard)

\* Narration that a visitor leaves alone comes to its end (app.js:314-352).
NarrationEnds == <>[]~Heard

\* A retry is over some time, so that the next touch may try again
\* (app.js:936-945).
RetryEnds == page.retrying ~> ~page.retrying
=============================================================================

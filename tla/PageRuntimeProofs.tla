-------------------------- MODULE PageRuntimeProofs ---------------------------
(***************************************************************************)
(* What the visitor hears and what the page says of it, for every number   *)
(* of languages, sections, tracks, inputs and failures.                    *)
(*                                                                         *)
(* The invariant is one of pages, so that every handler can be shown to    *)
(* keep it on the way: Element says how the media element, its queued      *)
(* events and its pending and settled plays hang together; Hears, that a   *)
(* track that can be played is the current one as soon as what settled is  *)
(* handled; Tells, that the narration flag is that of the element or will  *)
(* be, once what is queued is handled.                                     *)
(***************************************************************************)
EXTENDS PageRuntime, FiniteSetTheorems, WellFoundedInduction, TLAPS

TrackSet == [language : Languages \cup {None}, index : Nat]
Thens == {None, "retry", "init"}
CallSet == [by : {"free", "set", "next"}, track : TrackSet, then : Thens]
SettledSet == [call : CallSet, ok : BOOLEAN]

PageFields ==
  {"site", "language", "requested", "enabled", "loaded", "current", "section", "disabled",
   "retrying", "booted", "asked", "src", "paused", "ready", "allowed", "press", "events",
   "waits", "micro", "loads"}

PageType(p) ==
  /\ DOMAIN p = PageFields
  /\ p.language \in Languages
  /\ p.current \in TrackSet \cup {None} /\ p.src \in TrackSet \cup {None}
  /\ p.events \in Seq({"play", "pause"})
  /\ p.waits \in Seq(CallSet) /\ p.micro \in Seq(SettledSet)
  /\ \A call \in p.loads : call.then \in Thens
  /\ p.press = "lang" /\ p.press # None => Cardinality(Languages) > 1

\* A play that succeeded, and one that did not, are still to be handled.
SomeOk(p) == \E i \in 1..Len(p.micro) : p.micro[i].ok
SomeRefused(p) == \E i \in 1..Len(p.micro) : ~p.micro[i].ok

Element(p) ==
  /\ p.waits # <<>> => ~p.paused
  /\ \A i \in 1..Len(p.waits) : p.waits[i].track = p.src
  /\ ~p.paused \/ p.enabled \/ p.events # <<>> => p.allowed
  /\ p.events # <<>> => (p.events[Len(p.events)] = "pause" <=> p.paused)
  /\ SomeOk(p) => ~p.paused
  /\ ~p.paused /\ ~p.ready /\ p.waits = <<>> => p.current = None /\ ~SomeOk(p)
  /\ SomeRefused(p) /\ ~p.paused =>
       \/ p.events # <<>> \/ p.src = Ambient
       \/ ~p.ready /\ p.waits = <<>>

Hears(p) ==
  p.ready =>
    /\ p.waits = <<>> /\ p.src \notin {Ambient, None}
    /\ \A i \in 1..Len(p.micro) : p.micro[i].ok /\ p.micro[i].call.track = p.src
    /\ p.micro = <<>> => p.current = p.src

Tells(p) ==
  p.requested /\ p.loads = {} =>
    /\ ~p.paused => /\ p.ready \/ p.waits # <<>>
                    /\ p.enabled \/ p.events # <<>> \/ p.src = Ambient
    /\ p.paused /\ p.enabled => p.events # <<>>

Base(p) == PageType(p) /\ Element(p) /\ Hears(p)
Good(p) == Base(p) /\ Tells(p)

GoodPage == Good(page)

\* Nothing but the parts named by Base is as before in q.
SameCore(p, q) ==
  /\ DOMAIN q = DOMAIN p
  /\ q.language = p.language /\ q.current = p.current /\ q.src = p.src
  /\ q.paused = p.paused /\ q.ready = p.ready /\ q.enabled = p.enabled
  /\ q.allowed = p.allowed /\ q.press = p.press
  /\ q.events = p.events /\ q.waits = p.waits /\ q.micro = p.micro /\ q.loads = p.loads

\* What a handler that plays a track on the way leaves alone.
Frame(p, q) ==
  /\ q.requested = p.requested /\ q.loads = p.loads /\ q.current = p.current
  /\ SomeOk(q) => SomeOk(p)
  /\ ~p.paused => ~q.paused

-----------------------------------------------------------------------------
(* Sequences and sets.                                                      *)

\* Every nonempty set of naturals has a least member, the one Min chooses.
LEMMA MinInSet == ASSUME NEW S \in SUBSET Nat, S # {} PROVE Min(S) \in S
<1>1. IsWellFoundedOn(OpToRel(<, Nat), Nat)
  BY NatLessThanWellFounded
<1>2. OpToRel(<, Nat) = {ss \in Nat \X Nat : ss[1] < ss[2]}
  BY Zenon DEF OpToRel
<1>3. IsWellFoundedOn({ss \in Nat \X Nat : ss[1] < ss[2]}, Nat)
  BY <1>1, <1>2, Zenon
<1>4. PICK x \in S : \A y \in S : <<y, x>> \notin {ss \in Nat \X Nat : ss[1] < ss[2]}
  BY <1>3, WFMin
<1>5. ASSUME NEW y \in S PROVE ~(y < x)
  <2>1. PICK pair : pair = <<y, x>>
    OBVIOUS
  <2>2. pair \in Nat \X Nat /\ pair[1] = y /\ pair[2] = x
    BY <2>1
  <2>3. pair \notin {ss \in Nat \X Nat : ss[1] < ss[2]}
    BY <1>4, <2>1
  <2> QED
    BY <2>2, <2>3
<1>6. \E z \in S : \A y \in S : z <= y
  BY <1>5
<1> QED
  BY <1>6 DEF Min

\* The place of a section among the tracks of a language is a number, 0 if it
\* has none.
LEMMA IndexIsNat ==
  ASSUME NEW p, NEW language, NEW section
  PROVE  IndexOf(p, language, section) \in Nat
<1> DEFINE s == Tracks(p, language)
           I == {i \in 1..Len(s) : s[i] = section}
<1>1. I \in SUBSET Nat
  OBVIOUS
<1>2. I # {} => Min(I) \in Nat
  BY <1>1, MinInSet
<1> HIDE DEF I
<1>3. SelectInSeq(s, LAMBDA t : t = section) = IF I # {} THEN Min(I) ELSE 0
  BY DEF SelectInSeq, I
<1> QED
  BY <1>2, <1>3 DEF IndexOf

\* An event is queued last, and handled first.
LEMMA QueuedEvent ==
  ASSUME NEW s \in Seq({"play", "pause"}), NEW e \in {"play", "pause"}
  PROVE  /\ Append(s, e) \in Seq({"play", "pause"}) /\ Append(s, e) # <<>>
         /\ Append(s, e)[Len(Append(s, e))] = e
OBVIOUS

LEMMA HandledEvent ==
  ASSUME NEW s \in Seq({"play", "pause"}), s # <<>>
  PROVE  /\ Tail(s) \in Seq({"play", "pause"})
         /\ Tail(s) # <<>> => Tail(s)[Len(Tail(s))] = s[Len(s)]
         /\ Tail(s) = <<>> => Head(s) = s[Len(s)]
OBVIOUS

LEMMA Joined ==
  ASSUME NEW T, NEW s \in Seq(T), NEW u \in Seq(T)
  PROVE  /\ s \o u \in Seq(T) /\ Len(s \o u) = Len(s) + Len(u)
         /\ u = <<>> => s \o u = s
         /\ \A i \in 1..Len(s \o u) :
              (s \o u)[i] = IF i <= Len(s) THEN s[i] ELSE u[i - Len(s)]
OBVIOUS

\* Calls that settle keep their order and their tracks.
LEMMA SettledTyped ==
  ASSUME NEW w \in Seq(CallSet), NEW ok \in BOOLEAN
  PROVE  /\ Settled(w, ok) \in Seq(SettledSet) /\ Len(Settled(w, ok)) = Len(w)
         /\ \A i \in 1..Len(w) : Settled(w, ok)[i].call = w[i]
<1>1. \A i \in 1..Len(w) : [call |-> w[i], ok |-> ok] \in SettledSet
  BY DEF SettledSet
<1>2. Settled(w, ok) \in Seq(SettledSet) /\ Len(Settled(w, ok)) = Len(w)
  BY <1>1 DEF Settled
<1>3. \A i \in 1..Len(w) : Settled(w, ok)[i].call = w[i]
  BY DEF Settled
<1> QED
  BY <1>2, <1>3

LEMMA SettledTrue ==
  ASSUME NEW w \in Seq(CallSet)
  PROVE  /\ Settled(w, TRUE) \in Seq(SettledSet)
         /\ w # <<>> => Settled(w, TRUE) # <<>>
         /\ \A i \in 1..Len(Settled(w, TRUE)) :
              /\ i \in 1..Len(w)
              /\ Settled(w, TRUE)[i].ok /\ Settled(w, TRUE)[i].call = w[i]
<1>1. /\ Settled(w, TRUE) \in Seq(SettledSet) /\ Len(Settled(w, TRUE)) = Len(w)
      /\ \A i \in 1..Len(w) : Settled(w, TRUE)[i].call = w[i]
  BY SettledTyped
<1>2. \A i \in 1..Len(w) : Settled(w, TRUE)[i].ok
  BY DEF Settled
<1>3. w # <<>> => Settled(w, TRUE) # <<>>
  <2>1. w # <<>> => Len(w) # 0
    OBVIOUS
  <2>2. Len(<<>>) = 0
    OBVIOUS
  <2> QED
    BY <1>1, <2>1, <2>2
<1> QED
  BY <1>1, <1>2, <1>3

LEMMA SettledFalse ==
  ASSUME NEW w \in Seq(CallSet)
  PROVE  /\ Settled(w, FALSE) \in Seq(SettledSet)
         /\ w = <<>> => Settled(w, FALSE) = <<>>
         /\ \A i \in 1..Len(Settled(w, FALSE)) : ~Settled(w, FALSE)[i].ok
<1>1. Settled(w, FALSE) \in Seq(SettledSet) /\ Len(Settled(w, FALSE)) = Len(w)
  BY SettledTyped
<1>2. \A i \in 1..Len(w) : ~Settled(w, FALSE)[i].ok
  BY DEF Settled
<1>3. w = <<>> => Settled(w, FALSE) = <<>>
  BY DEF Settled
<1> QED
  BY <1>1, <1>2, <1>3

\* Refusing what waits adds no play that succeeded, and nothing if none waits.
LEMMA RefusedCalls ==
  ASSUME NEW m \in Seq(SettledSet), NEW w \in Seq(CallSet)
  PROVE  LET s == m \o Settled(w, FALSE) IN
         /\ s \in Seq(SettledSet)
         /\ w = <<>> => s = m
         /\ (\E i \in 1..Len(s) : s[i].ok) => \E i \in 1..Len(m) : m[i].ok
<1> DEFINE u == Settled(w, FALSE)
<1>1. u \in Seq(SettledSet)
  BY SettledFalse
<1>2. w = <<>> => u = <<>>
  BY SettledFalse
<1>3. \A i \in 1..Len(u) : ~u[i].ok
  BY SettledFalse
<1> HIDE DEF u
<1>4. /\ m \o u \in Seq(SettledSet) /\ Len(m \o u) = Len(m) + Len(u)
      /\ u = <<>> => m \o u = m
      /\ \A i \in 1..Len(m \o u) :
           (m \o u)[i] = IF i <= Len(m) THEN m[i] ELSE u[i - Len(m)]
  BY <1>1, Joined
<1>5. ASSUME NEW i \in 1..Len(m \o u), (m \o u)[i].ok PROVE \E j \in 1..Len(m) : m[j].ok
  <2>1. CASE i <= Len(m)
    BY <1>4, <1>5, <2>1
  <2>2. CASE ~(i <= Len(m))
    <3>1. i - Len(m) \in 1..Len(u)
      BY <1>1, <1>4, <2>2
    <3> QED
      BY <1>3, <1>4, <1>5, <2>2, <3>1
  <2> QED
    BY <2>1, <2>2
<1> QED
  BY <1>2, <1>4, <1>5 DEF u

LEMMA RefusedCall ==
  ASSUME NEW m \in Seq(SettledSet), NEW call \in CallSet
  PROVE  LET s == Append(m, [call |-> call, ok |-> FALSE]) IN
         /\ s \in Seq(SettledSet)
         /\ (\E i \in 1..Len(s) : s[i].ok) => \E i \in 1..Len(m) : m[i].ok
<1> DEFINE e == [call |-> call, ok |-> FALSE]
<1>1. e \in SettledSet /\ ~e.ok
  BY DEF SettledSet
<1> HIDE DEF e
<1>2. /\ Append(m, e) \in Seq(SettledSet) /\ Len(Append(m, e)) = Len(m) + 1
      /\ \A i \in 1..Len(m) : Append(m, e)[i] = m[i]
      /\ Append(m, e)[Len(m) + 1] = e
  BY <1>1
<1> QED
  BY <1>1, <1>2 DEF e

\* The other language of the language button is one.
LEMMA OtherLanguage ==
  ASSUME NEW language \in Languages, Cardinality(Languages) > 1
  PROVE  (CHOOSE l \in Languages : l # language) \in Languages
<1>1. Languages # {language}
  <2>1. Cardinality({language}) = 1
    BY FS_Singleton
  <2> QED
    BY <2>1
<1>2. \E l \in Languages : l # language
  BY <1>1
<1> QED
  BY <1>2

-----------------------------------------------------------------------------
(* The media element.                                                       *)

\* What the invariant does not speak of may change.
LEMMA SameCoreKeeps ==
  ASSUME NEW p, NEW q, SameCore(p, q), Base(p)
  PROVE  /\ Base(q)
         /\ q.requested = p.requested /\ Tells(p) => Tells(q)
         /\ q.requested = p.requested => Frame(p, q)
<1>1. PageType(q)
  BY DEF Base, PageType, SameCore
<1>2. SomeOk(q) <=> SomeOk(p)
  BY DEF SameCore, SomeOk
<1>3. SomeRefused(q) <=> SomeRefused(p)
  BY DEF SameCore, SomeRefused
<1>4. Element(q)
  BY <1>2, <1>3 DEF Base, Element, SameCore
<1>5. Hears(q)
  BY DEF Base, Hears, SameCore
<1>6. q.requested = p.requested /\ Tells(p) => Tells(q)
  BY DEF Tells, SameCore
<1>7. q.requested = p.requested => Frame(p, q)
  BY <1>2 DEF Frame, SameCore
<1> QED
  BY <1>1, <1>4, <1>5, <1>6, <1>7 DEF Base

\* A new source stops what played, drops its events and refuses its plays.
LEMMA LoadFields ==
  ASSUME NEW p, DOMAIN p = PageFields, NEW src
  PROVE  LET l == Load(p, src) IN
         /\ DOMAIN l = PageFields
         /\ l.src = src /\ l.paused /\ ~l.ready
         /\ l.events = <<>> /\ l.waits = <<>>
         /\ l.micro = p.micro \o Settled(p.waits, FALSE)
         /\ l.language = p.language /\ l.requested = p.requested /\ l.enabled = p.enabled
         /\ l.current = p.current /\ l.allowed = p.allowed /\ l.press = p.press
         /\ l.loads = p.loads
BY DEF Load, PageFields

LEMMA LoadedMicro ==
  ASSUME NEW p, PageType(p), NEW src
  PROVE  /\ Load(p, src).micro \in Seq(SettledSet)
         /\ SomeOk(Load(p, src)) => SomeOk(p)
<1>1. p.micro \in Seq(SettledSet) /\ p.waits \in Seq(CallSet)
  BY DEF PageType
<1>2. Load(p, src).micro = p.micro \o Settled(p.waits, FALSE)
  BY LoadFields DEF PageType
<1> QED
  BY <1>1, <1>2, RefusedCalls DEF SomeOk

\* A play that is allowed waits, and one that is not is refused.
LEMMA AllowedPlay ==
  ASSUME NEW p, DOMAIN p = PageFields, NEW call, p.allowed
  PROVE  LET q == Play(p, call) IN
         /\ DOMAIN q = PageFields
         /\ ~q.paused /\ q.waits = Append(p.waits, call)
         /\ q.events = IF p.paused THEN Append(p.events, "play") ELSE p.events
         /\ q.micro = p.micro /\ q.src = p.src /\ q.ready = p.ready
         /\ q.language = p.language /\ q.requested = p.requested /\ q.enabled = p.enabled
         /\ q.current = p.current /\ q.allowed = p.allowed /\ q.press = p.press
         /\ q.loads = p.loads
BY DEF Play, PageFields

LEMMA RefusedPlay ==
  ASSUME NEW p, DOMAIN p = PageFields, NEW call, ~p.allowed
  PROVE  LET q == Play(p, call) IN
         /\ DOMAIN q = PageFields
         /\ q.micro = Append(p.micro, [call |-> call, ok |-> FALSE])
         /\ q.paused = p.paused /\ q.waits = p.waits /\ q.events = p.events
         /\ q.src = p.src /\ q.ready = p.ready
         /\ q.language = p.language /\ q.requested = p.requested /\ q.enabled = p.enabled
         /\ q.current = p.current /\ q.allowed = p.allowed /\ q.press = p.press
         /\ q.loads = p.loads
BY DEF Play, PageFields

\* Playing a track leaves the page good whatever was under way: nothing plays,
\* or the new track is about to.
LEMMA PlayTrackKeeps ==
  ASSUME NEW p, Base(p), NEW track \in TrackSet, NEW by \in {"free", "set", "next"},
         NEW then \in Thens
  PROVE  LET q == PlayTrack(p, track, by, then) IN Good(q) /\ Frame(p, q)
<1>1. PICK call : call = Call(by, track, then)
  OBVIOUS
<1>2. call \in CallSet /\ call.track = track
  BY <1>1 DEF Call, CallSet
<1>3. PICK l : l = Load(p, track)
  OBVIOUS
<1>4. PICK q : q = Play(l, call)
  OBVIOUS
<1>5. PageType(p) /\ DOMAIN p = PageFields
  BY DEF Base, PageType
<1>6. /\ DOMAIN l = PageFields /\ l.src = track /\ l.paused /\ ~l.ready
      /\ l.events = <<>> /\ l.waits = <<>>
      /\ l.language = p.language /\ l.requested = p.requested /\ l.enabled = p.enabled
      /\ l.current = p.current /\ l.allowed = p.allowed /\ l.press = p.press
      /\ l.loads = p.loads
  BY <1>3, <1>5 DEF Load, PageFields
<1>7. l.micro \in Seq(SettledSet) /\ (SomeOk(l) => SomeOk(p))
  BY <1>3, <1>5, LoadedMicro
<1>8. CASE p.allowed
  <2>1. /\ q.waits = Append(l.waits, call) /\ q.events = Append(l.events, "play")
        /\ DOMAIN q = PageFields /\ ~q.paused
        /\ q.micro = l.micro /\ q.src = track /\ ~q.ready
        /\ q.language = p.language /\ q.requested = p.requested /\ q.enabled = p.enabled
        /\ q.current = p.current /\ q.allowed = p.allowed /\ q.press = p.press
        /\ q.loads = p.loads
    BY <1>4, <1>6, <1>8 DEF Play, PageFields
  <2>2. q.waits = <<call>> /\ q.events = <<"play">>
    BY <1>6, <2>1
  <2>3. PageType(q)
    <3>1. q.waits \in Seq(CallSet) /\ q.events \in Seq({"play", "pause"})
      BY <1>2, <2>2
    <3> QED
      BY <1>5, <1>7, <2>1, <2>2, <3>1 DEF PageType
  <2>4. SomeOk(q) => SomeOk(p)
    BY <1>7, <2>1, <2>2 DEF SomeOk
  <2>5. Element(q)
    <3>1. \A i \in 1..Len(q.waits) : q.waits[i].track = q.src
      BY <1>2, <2>1, <2>2
    <3>2. q.waits # <<>> /\ q.events # <<>> /\ q.events[Len(q.events)] = "play"
      BY <2>1, <2>2
    <3> QED
      BY <1>8, <2>1, <2>2, <3>1, <3>2 DEF Element
  <2>6. Hears(q) /\ Tells(q)
    <3>1. q.waits # <<>> /\ q.events # <<>>
      BY <2>1, <2>2
    <3> QED
      BY <2>1, <2>2, <3>1 DEF Hears, Tells
  <2> QED
    BY <1>1, <1>3, <1>4, <2>1, <2>2, <2>3, <2>4, <2>5, <2>6 DEF Good, Base, Frame, PlayTrack
<1>9. CASE ~p.allowed
  <2>1. /\ DOMAIN q = PageFields /\ q.paused /\ q.waits = <<>> /\ q.events = <<>>
        /\ q.micro = Append(l.micro, [call |-> call, ok |-> FALSE])
        /\ q.src = track /\ ~q.ready
        /\ q.language = p.language /\ q.requested = p.requested /\ q.enabled = p.enabled
        /\ q.current = p.current /\ q.allowed = p.allowed /\ q.press = p.press
        /\ q.loads = p.loads
    BY <1>4, <1>6, <1>9, RefusedPlay
  <2>2. q.micro \in Seq(SettledSet) /\ (SomeOk(q) => SomeOk(p))
    BY <1>2, <1>7, <2>1, RefusedCall DEF SomeOk
  <2>3. PageType(q)
    <3>1. q.waits \in Seq(CallSet) /\ q.events \in Seq({"play", "pause"})
      BY <2>1
    <3> QED
      BY <1>5, <2>1, <2>2, <3>1 DEF PageType
  <2>4. p.paused /\ ~p.enabled /\ ~SomeOk(p)
    BY <1>9 DEF Base, Element
  <2>5. Element(q)
    <3>1. \A i \in 1..Len(q.waits) : q.waits[i].track = q.src
      BY <2>1
    <3> QED
      BY <2>1, <2>2, <2>4, <3>1 DEF Element
  <2>6. Hears(q) /\ Tells(q)
    BY <2>1, <2>4 DEF Hears, Tells
  <2> QED
    BY <1>1, <1>3, <1>4, <2>1, <2>2, <2>3, <2>4, <2>5, <2>6 DEF Good, Base, Frame, PlayTrack
<1> QED
  BY <1>8, <1>9

-----------------------------------------------------------------------------
(* Sections and cues.                                                       *)

\* A handler that may play on the way keeps the page sound, keeps what it
\* tells, and takes back nothing of what its caller found.
Keeps(p, q) ==
  /\ Base(q) /\ Frame(p, q)
  /\ Tells(p) => Tells(q)

LEMMA KeepsTwice ==
  ASSUME NEW p, NEW q, NEW r, Keeps(p, q), Keeps(q, r)
  PROVE  Keeps(p, r)
BY DEF Keeps, Frame

LEMMA SameCoreDoesKeep ==
  ASSUME NEW p, NEW q, SameCore(p, q), Base(p), q.requested = p.requested
  PROVE  Keeps(p, q)
BY SameCoreKeeps DEF Keeps

LEMMA PlayFreeKeeps ==
  ASSUME NEW p, Base(p), NEW language \in Languages, NEW section
  PROVE  Keeps(p, PlayFree(p, language, section))
<1>1. PICK index : index = IndexOf(p, language, section)
  OBVIOUS
<1>2. PICK track : track = Track(language, index)
  OBVIOUS
<1>3. track \in TrackSet
  BY <1>1, <1>2, IndexIsNat DEF Track, TrackSet
<1>4. CASE index = 0 \/ Playing(p, track)
  <2>1. PlayFree(p, language, section) = p
    BY <1>1, <1>2, <1>4 DEF PlayFree
  <2> QED
    BY <2>1 DEF Keeps, Frame
<1>5. CASE ~(index = 0 \/ Playing(p, track))
  <2>1. PlayFree(p, language, section) = PlayTrack(p, track, "free", None)
    BY <1>1, <1>2, <1>5 DEF PlayFree
  <2>2. None \in Thens
    BY DEF Thens
  <2> QED
    BY <1>3, <2>1, <2>2, PlayTrackKeeps DEF Keeps, Good
<1> QED
  BY <1>4, <1>5

LEMMA SetActiveSectionKeeps ==
  ASSUME NEW p, Base(p), NEW section
  PROVE  Keeps(p, SetActiveSection(p, section))
<1>1. PICK q : q = [p EXCEPT !.section = section]
  OBVIOUS
<1>2. SameCore(p, q) /\ q.requested = p.requested /\ q.language \in Languages
  BY <1>1 DEF SameCore, Base, PageType, PageFields
<1>3. Keeps(p, q)
  BY <1>2, SameCoreDoesKeep
<1>4. CASE p.section = section
  <2>1. SetActiveSection(p, section) = p
    BY <1>4 DEF SetActiveSection
  <2> QED
    BY <2>1 DEF Keeps, Frame
<1>5. CASE p.section # section /\ q.enabled
  <2>1. SetActiveSection(p, section) = PlayFree(q, q.language, section)
    BY <1>1, <1>5 DEF SetActiveSection
  <2>2. Keeps(q, PlayFree(q, q.language, section))
    BY <1>2, <1>3, PlayFreeKeeps DEF Keeps
  <2> QED
    BY <1>3, <2>1, <2>2, KeepsTwice
<1>6. CASE p.section # section /\ ~q.enabled
  <2>1. SetActiveSection(p, section) = q
    BY <1>1, <1>6 DEF SetActiveSection
  <2> QED
    BY <1>3, <2>1
<1> QED
  BY <1>4, <1>5, <1>6

LEMMA UpdateCueKeeps ==
  ASSUME NEW p, Base(p)
  PROVE  Keeps(p, UpdateCue(p))
<1>1. CASE p.enabled
  <2>1. PICK section : section = IF p.current = None THEN First ELSE SectionOf(p, p.current)
    OBVIOUS
  <2>2. UpdateCue(p) = SetActiveSection(p, section)
    BY <1>1, <2>1 DEF UpdateCue
  <2> QED
    BY <2>2, SetActiveSectionKeeps
<1>2. CASE ~p.enabled
  <2>1. UpdateCue(p) = p
    BY <1>2 DEF UpdateCue
  <2> QED
    BY <2>1 DEF Keeps, Frame
<1> QED
  BY <1>1, <1>2

LEMMA SetLanguageKeeps ==
  ASSUME NEW p, Base(p), NEW language \in Languages
  PROVE  Keeps(p, SetLanguage(p, language))
<1>1. PICK r : r = [p EXCEPT !.language = language]
  OBVIOUS
<1>2. /\ DOMAIN r = PageFields /\ r.language \in Languages
      /\ r.requested = p.requested /\ r.current = p.current /\ r.src = p.src
      /\ r.paused = p.paused /\ r.ready = p.ready /\ r.enabled = p.enabled
      /\ r.allowed = p.allowed /\ r.press = p.press
      /\ r.events = p.events /\ r.waits = p.waits /\ r.micro = p.micro /\ r.loads = p.loads
  BY <1>1 DEF Base, PageType, PageFields
<1>3. Keeps(p, r)
  <2>1. PageType(r)
    BY <1>2 DEF Base, PageType
  <2>2. (SomeOk(r) <=> SomeOk(p)) /\ (SomeRefused(r) <=> SomeRefused(p))
    BY <1>2 DEF SomeOk, SomeRefused
  <2>3. Element(r) /\ Hears(r)
    BY <1>2, <2>2 DEF Base, Element, Hears
  <2>4. Tells(p) => Tells(r)
    BY <1>2 DEF Tells
  <2> QED
    BY <1>2, <2>1, <2>2, <2>3, <2>4 DEF Keeps, Base, Frame
<1>4. PICK q : q = UpdateCue(r)
  OBVIOUS
<1>5. Keeps(p, q)
  BY <1>3, <1>4, UpdateCueKeeps, KeepsTwice DEF Keeps
<1>6. CASE q.enabled
  <2>1. SetLanguage(p, language) = PlayFree(q, language, ActiveOrFirst(q))
    BY <1>1, <1>4, <1>6 DEF SetLanguage
  <2>2. Keeps(q, PlayFree(q, language, ActiveOrFirst(q)))
    BY <1>5, PlayFreeKeeps DEF Keeps
  <2> QED
    BY <1>5, <2>1, <2>2, KeepsTwice
<1>7. CASE ~q.enabled
  <2>1. SetLanguage(p, language) = q
    BY <1>1, <1>4, <1>7 DEF SetLanguage
  <2> QED
    BY <1>5, <2>1
<1> QED
  BY <1>6, <1>7

-----------------------------------------------------------------------------
(* setNarration.                                                            *)

LEMMA DoneKeeps ==
  ASSUME NEW p, Base(p), NEW then
  PROVE  Keeps(p, Done(p, then))
<1>1. CASE then = "retry"
  <2>1. PICK q : q = [p EXCEPT !.retrying = FALSE]
    OBVIOUS
  <2>2. SameCore(p, q) /\ q.requested = p.requested
    BY <2>1 DEF SameCore, Base, PageType, PageFields
  <2>3. Done(p, then) = q
    BY <1>1, <2>1 DEF Done
  <2> QED
    BY <2>2, <2>3, SameCoreDoesKeep
<1>2. CASE then = "init"
  <2>1. PICK q : q = [p EXCEPT !.booted = TRUE]
    OBVIOUS
  <2>2. SameCore(p, q) /\ q.requested = p.requested
    BY <2>1 DEF SameCore, Base, PageType, PageFields
  <2>3. Keeps(p, q)
    BY <2>2, SameCoreDoesKeep
  <2>4. Done(p, then) = SetActiveSection(q, First)
    BY <1>2, <2>1 DEF Done
  <2>5. Keeps(q, SetActiveSection(q, First))
    BY <2>3, SetActiveSectionKeeps DEF Keeps
  <2> QED
    BY <2>3, <2>4, <2>5, KeepsTwice
<1>3. CASE then # "retry" /\ then # "init"
  <2>1. Done(p, then) = p
    BY <1>3 DEF Done
  <2> QED
    BY <2>1 DEF Keeps, Frame
<1> QED
  BY <1>1, <1>2, <1>3

\* The flag is set while the element plays a track.
LEMMA EnableIsGood ==
  ASSUME NEW p, Base(p), ~p.paused, p.current # None, NEW then
  PROVE  Good(Enable(p, then)) /\ (SomeOk(Enable(p, then)) => SomeOk(p))
<1>1. PICK q : q = [p EXCEPT !.enabled = TRUE]
  OBVIOUS
<1>2. /\ DOMAIN q = PageFields /\ q.enabled /\ q.language = p.language
      /\ q.requested = p.requested /\ q.current = p.current /\ q.src = p.src
      /\ q.paused = p.paused /\ q.ready = p.ready
      /\ q.allowed = p.allowed /\ q.press = p.press
      /\ q.events = p.events /\ q.waits = p.waits /\ q.micro = p.micro /\ q.loads = p.loads
  BY <1>1 DEF Base, PageType, PageFields
<1>3. PageType(q)
  BY <1>2 DEF Base, PageType
<1>4. (SomeOk(q) <=> SomeOk(p)) /\ (SomeRefused(q) <=> SomeRefused(p))
  BY <1>2 DEF SomeOk, SomeRefused
<1>5. Element(q) /\ Hears(q)
  BY <1>2, <1>4 DEF Base, Element, Hears
<1>6. Tells(q)
  BY <1>2 DEF Base, Element, Tells
<1>7. PICK r : r = UpdateCue(q)
  OBVIOUS
<1>8. Keeps(q, r)
  BY <1>3, <1>5, <1>7, UpdateCueKeeps DEF Base
<1>9. Keeps(r, Done(r, then))
  BY <1>8, DoneKeeps DEF Keeps
<1>10. Enable(p, then) = Done(r, then)
  BY <1>1, <1>7 DEF Enable
<1> QED
  BY <1>4, <1>6, <1>8, <1>9, <1>10 DEF Keeps, Frame, Good

LEMMA TurnOnIsGood ==
  ASSUME NEW p, Base(p), NEW then \in Thens
  PROVE  Good(TurnOn(p, then))
<1>1. PICK index : index = IndexOf(p, p.language, ActiveOrFirst(p))
  OBVIOUS
<1>2. PICK track : track = Track(p.language, index)
  OBVIOUS
<1>3. track \in TrackSet /\ track # None
  BY <1>1, <1>2, IndexIsNat, RuntimeAssumption DEF Track, TrackSet, Base, PageType
<1>4. CASE index = 0
  <2>1. TurnOn(p, then) = PlayTrack(p, Ambient, "set", then)
    BY <1>1, <1>4 DEF TurnOn, EnsureAmbient, PlayTrack
  <2>2. Ambient \in TrackSet
    BY DEF Ambient, Track, TrackSet
  <2> QED
    BY <2>1, <2>2, PlayTrackKeeps
<1>5. CASE index # 0 /\ Playing(p, track)
  <2>1. TurnOn(p, then) = Enable(p, then)
    BY <1>1, <1>2, <1>5 DEF TurnOn
  <2> QED
    BY <1>3, <1>5, <2>1, EnableIsGood DEF Playing
<1>6. CASE index # 0 /\ ~Playing(p, track)
  <2>1. TurnOn(p, then) = PlayTrack(p, track, "set", then)
    BY <1>1, <1>2, <1>6 DEF TurnOn
  <2> QED
    BY <1>3, <2>1, PlayTrackKeeps
<1> QED
  BY <1>4, <1>5, <1>6

LEMMA PauseKeeps ==
  ASSUME NEW p, Base(p), ~SomeOk(p)
  PROVE  LET q == Pause(p) IN
         /\ Base(q) /\ ~SomeOk(q) /\ q.requested = p.requested
         /\ Tells(p) => Tells(q)
<1>1. PICK q : q = Pause(p)
  OBVIOUS
<1>2. CASE p.paused
  BY <1>2 DEF Pause
<1>3. CASE ~p.paused
  <2>1. /\ DOMAIN p = PageFields /\ p.events \in Seq({"play", "pause"})
        /\ p.waits \in Seq(CallSet) /\ p.micro \in Seq(SettledSet)
    BY DEF Base, PageType
  <2>2. /\ DOMAIN q = PageFields /\ q.paused /\ q.waits = <<>>
        /\ q.events = Append(p.events, "pause")
        /\ q.micro = p.micro \o Settled(p.waits, FALSE)
        /\ q.src = p.src /\ q.ready = p.ready
        /\ q.language = p.language /\ q.requested = p.requested /\ q.enabled = p.enabled
        /\ q.current = p.current /\ q.allowed = p.allowed /\ q.press = p.press
        /\ q.loads = p.loads
    BY <1>1, <1>3, <2>1 DEF Pause, PageFields
  <2>3. /\ q.events \in Seq({"play", "pause"}) /\ q.events # <<>>
        /\ q.events[Len(q.events)] = "pause"
    BY <2>1, <2>2, QueuedEvent
  <2>4. /\ q.micro \in Seq(SettledSet) /\ ~SomeOk(q)
        /\ p.waits = <<>> => q.micro = p.micro
    <3>1. q.micro \in Seq(SettledSet)
      BY <2>1, <2>2, RefusedCalls
    <3>2. SomeOk(q) => SomeOk(p)
      BY <2>1, <2>2, RefusedCalls DEF SomeOk
    <3>3. p.waits = <<>> => q.micro = p.micro
      BY <2>1, <2>2, RefusedCalls
    <3> QED
      BY <3>1, <3>2, <3>3
  <2>5. PageType(q)
    <3>1. q.waits \in Seq(CallSet)
      BY <2>2
    <3> QED
      BY <2>2, <2>3, <2>4, <3>1 DEF Base, PageType
  <2>6. Element(q)
    <3>1. \A i \in 1..Len(q.waits) : q.waits[i].track = q.src
      BY <2>2
    <3> QED
      BY <1>3, <2>2, <2>3, <2>4, <3>1 DEF Base, Element
  <2>7. Hears(q)
    BY <2>2, <2>4 DEF Base, Hears
  <2>8. Tells(q)
    BY <2>2, <2>3 DEF Tells
  <2> QED
    BY <1>1, <2>2, <2>4, <2>5, <2>6, <2>7, <2>8 DEF Base
<1> QED
  BY <1>2, <1>3

LEMMA EnsureAmbientKeeps ==
  ASSUME NEW p, Base(p), ~SomeOk(p)
  PROVE  LET q == EnsureAmbient(p) IN
         Base(q) /\ ~SomeOk(q) /\ ~q.ready /\ q.requested = p.requested
<1>1. PICK l : l = Load(p, Ambient)
  OBVIOUS
<1>2. PageType(p) /\ DOMAIN p = PageFields
  BY DEF Base, PageType
<1>3. /\ DOMAIN l = PageFields /\ l.src = Ambient /\ l.paused /\ ~l.ready
      /\ l.events = <<>> /\ l.waits = <<>>
      /\ l.language = p.language /\ l.requested = p.requested /\ l.enabled = p.enabled
      /\ l.current = p.current /\ l.allowed = p.allowed /\ l.press = p.press
      /\ l.loads = p.loads
  BY <1>1, <1>2 DEF Load, PageFields
<1>4. l.micro \in Seq(SettledSet) /\ ~SomeOk(l)
  BY <1>1, <1>2, LoadedMicro
<1>5. PageType(l)
  <2>1. Ambient \in TrackSet
    BY DEF Ambient, Track, TrackSet
  <2>2. l.waits \in Seq(CallSet) /\ l.events \in Seq({"play", "pause"})
    BY <1>3
  <2> QED
    BY <1>2, <1>3, <1>4, <2>1, <2>2 DEF PageType
<1>6. Element(l)
  <2>1. \A i \in 1..Len(l.waits) : l.waits[i].track = l.src
    BY <1>3
  <2>2. p.enabled => p.allowed
    BY DEF Base, Element
  <2> QED
    BY <1>3, <1>4, <2>1, <2>2 DEF Element
<1>7. Hears(l)
  BY <1>3 DEF Hears
<1> QED
  BY <1>1, <1>3, <1>4, <1>5, <1>6, <1>7 DEF EnsureAmbient, Base

\* The page without a current track, its flag off.
LEMMA FlagOffKeeps ==
  ASSUME NEW p, Base(p), ~p.ready, NEW q,
         DOMAIN q = PageFields, q.language = p.language, ~q.enabled, q.current = None,
         q.src = p.src, q.paused = p.paused, q.ready = p.ready, q.allowed = p.allowed,
         q.press = p.press, q.events = p.events, q.waits = p.waits, q.micro = p.micro,
         q.loads = p.loads
  PROVE  Base(q) /\ (SomeOk(q) => SomeOk(p))
<1>1. PageType(q)
  BY DEF Base, PageType
<1>2. (SomeOk(q) <=> SomeOk(p)) /\ (SomeRefused(q) <=> SomeRefused(p))
  BY DEF SomeOk, SomeRefused
<1>3. Element(q)
  BY <1>2 DEF Base, Element
<1>4. Hears(q)
  BY DEF Hears
<1> QED
  BY <1>1, <1>2, <1>3, <1>4 DEF Base

LEMMA TurnOffIsGood ==
  ASSUME NEW p, Base(p), ~SomeOk(p), ~p.requested, NEW then
  PROVE  Good(TurnOff(p, then))
<1>1. PICK r : r = EnsureAmbient(Pause(p))
  OBVIOUS
<1>2. Base(Pause(p)) /\ ~SomeOk(Pause(p)) /\ Pause(p).requested = p.requested
  BY PauseKeeps
<1>3. Base(r) /\ ~SomeOk(r) /\ ~r.ready /\ r.requested = p.requested
  BY <1>1, <1>2, EnsureAmbientKeeps
<1>4. PICK q : q = [r EXCEPT !.enabled = FALSE, !.current = None]
  OBVIOUS
<1>5. /\ DOMAIN q = PageFields /\ q.language = r.language /\ ~q.enabled /\ q.current = None
      /\ q.src = r.src /\ q.paused = r.paused /\ q.ready = r.ready /\ q.allowed = r.allowed
      /\ q.press = r.press /\ q.events = r.events /\ q.waits = r.waits /\ q.micro = r.micro
      /\ q.loads = r.loads /\ q.requested = r.requested
  BY <1>3, <1>4 DEF Base, PageType, PageFields
<1>6. Base(q)
  BY <1>3, <1>5, FlagOffKeeps
<1>7. Keeps(q, Done(q, then))
  BY <1>6, DoneKeeps
<1>8. Tells(q)
  BY <1>3, <1>5 DEF Tells
<1>9. TurnOff(p, then) = Done(q, then)
  BY <1>1, <1>4 DEF TurnOff
<1> QED
  BY <1>7, <1>8, <1>9 DEF Keeps, Good

\* setNarration leaves the page good, whatever the page was told before.
LEMMA SetNarrationIsGood ==
  ASSUME NEW p, Base(p), ~SomeOk(p), NEW on, NEW then \in Thens
  PROVE  Good(SetNarration(p, on, then))
<1>1. PICK q : q = [p EXCEPT !.requested = on]
  OBVIOUS
<1>2. SameCore(p, q) /\ q.requested = on /\ q.loaded = p.loaded
  BY <1>1 DEF SameCore, Base, PageType, PageFields
<1>3. Base(q) /\ ~SomeOk(q)
  <2>1. SomeOk(q) <=> SomeOk(p)
    BY <1>2 DEF SameCore, SomeOk
  <2> QED
    BY <1>2, <2>1, SameCoreKeeps
<1>4. CASE on /\ ~p.loaded
  <2>1. PICK load : load = [id |-> inputs, then |-> then]
    OBVIOUS
  <2>2. PICK r : r = [q EXCEPT !.loads = @ \cup {load}]
    OBVIOUS
  <2>3. /\ DOMAIN r = PageFields /\ r.loads = q.loads \cup {load}
        /\ r.language = q.language /\ r.current = q.current /\ r.src = q.src
        /\ r.paused = q.paused /\ r.ready = q.ready /\ r.enabled = q.enabled
        /\ r.allowed = q.allowed /\ r.press = q.press
        /\ r.events = q.events /\ r.waits = q.waits /\ r.micro = q.micro
    BY <1>3, <2>2 DEF Base, PageType, PageFields
  <2>4. PageType(r)
    BY <1>3, <2>1, <2>3 DEF Base, PageType
  <2>5. (SomeOk(r) <=> SomeOk(q)) /\ (SomeRefused(r) <=> SomeRefused(q))
    BY <2>3 DEF SomeOk, SomeRefused
  <2>6. Element(r) /\ Hears(r)
    BY <1>3, <2>3, <2>5 DEF Base, Element, Hears
  <2>7. Tells(r)
    BY <2>3 DEF Tells
  <2>8. SetNarration(p, on, then) = r
    BY <1>1, <1>4, <2>1, <2>2 DEF SetNarration
  <2> QED
    BY <2>4, <2>6, <2>7, <2>8 DEF Good, Base
<1>5. CASE on /\ p.loaded
  <2>1. SetNarration(p, on, then) = TurnOn(q, then)
    BY <1>1, <1>5 DEF SetNarration
  <2> QED
    BY <1>3, <2>1, TurnOnIsGood
<1>6. CASE ~on
  <2>1. SetNarration(p, on, then) = TurnOff(q, then)
    BY <1>1, <1>6 DEF SetNarration
  <2> QED
    BY <1>2, <1>3, <1>6, <2>1, TurnOffIsGood
<1> QED
  BY <1>4, <1>5, <1>6

-----------------------------------------------------------------------------
(* Plays that settled.                                                      *)

\* The handled play is taken from the queue, and what holds of the queue holds
\* of its rest.
LEMMA HandledPlay ==
  ASSUME NEW m \in Seq(SettledSet), m # <<>>
  PROVE  /\ Head(m) \in SettledSet /\ Tail(m) \in Seq(SettledSet)
         /\ Len(Tail(m)) = Len(m) - 1 /\ Len(m) \in Nat \ {0}
         /\ Head(m) = m[1]
         /\ \A i \in 1..Len(Tail(m)) : i + 1 \in 1..Len(m) /\ Tail(m)[i] = m[i + 1]
OBVIOUS

\* The page of a play that succeeded is sound but for its current track.
LEMMA StartedIsGood ==
  ASSUME NEW p, PageType(p), Element(p), Tells(p), NEW call \in CallSet, ~p.paused,
         ~p.ready => p.waits # <<>>,
         p.ready => /\ p.waits = <<>> /\ p.src \notin {Ambient, None}
                    /\ call.track = p.src
                    /\ \A i \in 1..Len(p.micro) : p.micro[i].ok /\ p.micro[i].call.track = p.src
  PROVE  Good(Started(p, call))
<1>1. PICK r : r = [p EXCEPT !.current = call.track]
  OBVIOUS
<1>2. /\ DOMAIN r = PageFields /\ r.current = call.track
      /\ r.language = p.language /\ r.src = p.src
      /\ r.paused = p.paused /\ r.ready = p.ready /\ r.enabled = p.enabled
      /\ r.allowed = p.allowed /\ r.press = p.press /\ r.requested = p.requested
      /\ r.events = p.events /\ r.waits = p.waits /\ r.micro = p.micro /\ r.loads = p.loads
  BY <1>1 DEF PageType, PageFields
<1>3. call.track \in TrackSet /\ call.track # None /\ call.by \in {"free", "set", "next"}
  BY RuntimeAssumption DEF CallSet, TrackSet
<1>4. PageType(r)
  BY <1>2, <1>3 DEF PageType
<1>5. (SomeOk(r) <=> SomeOk(p)) /\ (SomeRefused(r) <=> SomeRefused(p))
  BY <1>2 DEF SomeOk, SomeRefused
<1>6. Element(r) /\ Hears(r) /\ Tells(r)
  BY <1>2, <1>5 DEF Element, Hears, Tells
<1>7. PICK section : section = SectionOf(p, call.track)
  OBVIOUS
<1>8. PICK q : q = SetActiveSection(r, section)
  OBVIOUS
<1>9. Keeps(r, q)
  BY <1>4, <1>6, <1>8, SetActiveSectionKeeps DEF Base
<1>10. Good(q) /\ ~q.paused /\ q.current # None
  BY <1>2, <1>3, <1>6, <1>9 DEF Keeps, Frame, Good
<1>11. Started(p, call) = IF call.by = "set" THEN Enable(q, call.then) ELSE q
  BY <1>1, <1>7, <1>8 DEF Started
<1> QED
  BY <1>10, <1>11, EnableIsGood DEF Good

\* A refused play leaves the flag to the plays that are still under way: the
\* element is silent, or an event that sets the flag is queued.
LEMMA RefusedIsGood ==
  ASSUME NEW p, Good(p), ~p.ready, NEW call \in CallSet,
         ~p.paused => p.events # <<>> \/ p.src = Ambient \/ p.waits = <<>>
  PROVE  Good(Refused(p, call))
<1>1. CASE call.by = "set"
  <2>1. PICK q : q = [p EXCEPT !.enabled = FALSE, !.current = None]
    OBVIOUS
  <2>2. /\ DOMAIN q = PageFields /\ q.language = p.language /\ ~q.enabled /\ q.current = None
        /\ q.src = p.src /\ q.paused = p.paused /\ q.ready = p.ready /\ q.allowed = p.allowed
        /\ q.press = p.press /\ q.events = p.events /\ q.waits = p.waits /\ q.micro = p.micro
        /\ q.loads = p.loads /\ q.requested = p.requested
    BY <2>1 DEF Good, Base, PageType, PageFields
  <2>3. Base(q)
    BY <2>2, FlagOffKeeps DEF Good
  <2>4. Tells(q)
    BY <2>2 DEF Good, Tells
  <2>5. Keeps(q, Done(q, call.then))
    BY <2>3, DoneKeeps
  <2>6. Refused(p, call) = Done(q, call.then)
    BY <1>1, <2>1 DEF Refused
  <2> QED
    BY <2>4, <2>5, <2>6 DEF Keeps, Good
<1>2. CASE call.by = "next"
  <2>1. PICK q : q = [p EXCEPT !.enabled = FALSE]
    OBVIOUS
  <2>2. /\ DOMAIN q = PageFields /\ q.language = p.language /\ ~q.enabled
        /\ q.current = p.current
        /\ q.src = p.src /\ q.paused = p.paused /\ q.ready = p.ready /\ q.allowed = p.allowed
        /\ q.press = p.press /\ q.events = p.events /\ q.waits = p.waits /\ q.micro = p.micro
        /\ q.loads = p.loads /\ q.requested = p.requested
    BY <2>1 DEF Good, Base, PageType, PageFields
  <2>3. PageType(q)
    BY <2>2 DEF Good, Base, PageType
  <2>4. (SomeOk(q) <=> SomeOk(p)) /\ (SomeRefused(q) <=> SomeRefused(p))
    BY <2>2 DEF SomeOk, SomeRefused
  <2>5. Element(q) /\ Hears(q)
    BY <2>2, <2>4 DEF Good, Base, Element, Hears
  <2>6. Tells(q)
    BY <2>2 DEF Good, Tells
  <2>7. Refused(p, call) = q
    BY <1>2, <2>1 DEF Refused
  <2> QED
    BY <2>3, <2>5, <2>6, <2>7 DEF Good, Base
<1>3. CASE call.by # "set" /\ call.by # "next"
  BY <1>3 DEF Refused
<1> QED
  BY <1>1, <1>2, <1>3

-----------------------------------------------------------------------------
(* The steps of the page.                                                   *)

LEMMA ContinueKeepsGood ==
  ASSUME GoodPage, Continue
  PROVE  GoodPage'
<1>1. PICK p : p = [page EXCEPT !.micro = Tail(page.micro)]
  OBVIOUS
<1>2. PICK settled : settled = Head(page.micro)
  OBVIOUS
<1>3. /\ page.micro \in Seq(SettledSet) /\ page.micro # <<>>
      /\ PageType(page) /\ DOMAIN page = PageFields
  BY DEF GoodPage, Good, Base, PageType, Continue
<1>4. /\ DOMAIN p = PageFields /\ p.micro = Tail(page.micro)
      /\ p.language = page.language /\ p.current = page.current /\ p.src = page.src
      /\ p.paused = page.paused /\ p.ready = page.ready /\ p.enabled = page.enabled
      /\ p.allowed = page.allowed /\ p.press = page.press /\ p.requested = page.requested
      /\ p.events = page.events /\ p.waits = page.waits /\ p.loads = page.loads
  BY <1>1, <1>3 DEF PageFields
<1>5. /\ settled \in SettledSet /\ p.micro \in Seq(SettledSet)
      /\ 1 \in 1..Len(page.micro) /\ settled = page.micro[1]
      /\ \A i \in 1..Len(p.micro) : i + 1 \in 1..Len(page.micro) /\ p.micro[i] = page.micro[i + 1]
  BY <1>2, <1>3, <1>4, HandledPlay
<1>6. /\ SomeOk(p) => SomeOk(page)
      /\ SomeRefused(p) => SomeRefused(page)
      /\ settled.ok => SomeOk(page)
      /\ ~settled.ok => SomeRefused(page)
  BY <1>5 DEF SomeOk, SomeRefused
<1>7. PageType(p)
  BY <1>3, <1>4, <1>5 DEF PageType
<1>8. Element(p) /\ Tells(p)
  BY <1>4, <1>6 DEF GoodPage, Good, Base, Element, Tells
<1>9. settled.call \in CallSet
  BY <1>5 DEF SettledSet
<1>10. page.ready =>
         /\ page.waits = <<>> /\ page.src \notin {Ambient, None}
         /\ \A i \in 1..Len(page.micro) : page.micro[i].ok /\ page.micro[i].call.track = page.src
  BY DEF GoodPage, Good, Base, Hears
<1>11. CASE settled.ok
  <2>1. page' = Started(p, settled.call)
    BY <1>1, <1>2, <1>11 DEF Continue
  <2>2. ~p.paused /\ (~p.ready => p.waits # <<>>)
    BY <1>4, <1>6, <1>11 DEF GoodPage, Good, Base, Element
  <2>3. p.ready => /\ p.waits = <<>> /\ p.src \notin {Ambient, None}
                   /\ settled.call.track = p.src
                   /\ \A i \in 1..Len(p.micro) : p.micro[i].ok /\ p.micro[i].call.track = p.src
    BY <1>4, <1>5, <1>10
  <2>4. Good(Started(p, settled.call))
    BY <1>7, <1>8, <1>9, <2>2, <2>3, StartedIsGood
  <2> QED
    BY <2>1, <2>4 DEF GoodPage
<1>12. CASE ~settled.ok
  <2>1. page' = Refused(p, settled.call)
    BY <1>1, <1>2, <1>12 DEF Continue
  <2>2. ~p.ready
    BY <1>4, <1>5, <1>10, <1>12
  <2>3. Good(p)
    BY <1>7, <1>8, <2>2 DEF Good, Base, Hears
  <2>4. ~p.paused => p.events # <<>> \/ p.src = Ambient \/ p.waits = <<>>
    BY <1>4, <1>6, <1>12 DEF GoodPage, Good, Base, Element
  <2>5. Good(Refused(p, settled.call))
    BY <1>9, <2>2, <2>3, <2>4, RefusedIsGood
  <2> QED
    BY <2>1, <2>5 DEF GoodPage
<1> QED
  BY <1>11, <1>12

LEMMA LoadTimingsKeepsGood ==
  ASSUME GoodPage, LoadTimings
  PROVE  GoodPage'
<1>1. PICK call \in page.loads :
        Handle(TurnOn([page EXCEPT !.loads = @ \ {call}, !.loaded = TRUE], call.then))
  BY DEF LoadTimings
<1>2. PICK r : r = [page EXCEPT !.loads = @ \ {call}]
  OBVIOUS
<1>3. PICK p : p = [r EXCEPT !.loaded = TRUE]
  OBVIOUS
<1>4. PageType(page) /\ DOMAIN page = PageFields
  BY DEF GoodPage, Good, Base, PageType
<1>5. /\ DOMAIN p = PageFields /\ p.loads \subseteq page.loads
      /\ p.language = page.language /\ p.current = page.current /\ p.src = page.src
      /\ p.paused = page.paused /\ p.ready = page.ready /\ p.enabled = page.enabled
      /\ p.allowed = page.allowed /\ p.press = page.press
      /\ p.events = page.events /\ p.waits = page.waits /\ p.micro = page.micro
  BY <1>2, <1>3, <1>4 DEF PageFields
<1>6. PageType(p)
  BY <1>4, <1>5 DEF PageType
<1>7. (SomeOk(p) <=> SomeOk(page)) /\ (SomeRefused(p) <=> SomeRefused(page))
  BY <1>5 DEF SomeOk, SomeRefused
<1>8. Element(p) /\ Hears(p)
  BY <1>5, <1>7 DEF GoodPage, Good, Base, Element, Hears
<1>9. call.then \in Thens
  BY <1>4 DEF PageType
<1>10. Good(TurnOn(p, call.then))
  BY <1>6, <1>8, <1>9, TurnOnIsGood DEF Base
<1>11. [page EXCEPT !.loads = @ \ {call}, !.loaded = TRUE] = p
  BY <1>2, <1>3, <1>4 DEF PageFields
<1>12. page' = TurnOn(p, call.then)
  BY <1>1, <1>11 DEF Handle
<1> QED
  BY <1>10, <1>12 DEF GoodPage

LEMMA BootKeepsGood ==
  ASSUME GoodPage, Boot
  PROVE  GoodPage'
<1>1. PICK p : p = [page EXCEPT !.asked = None]
  OBVIOUS
<1>2. PICK q : q = SetLanguage(p, page.language)
  OBVIOUS
<1>3. PICK on : on = page.asked
  OBVIOUS
<1>4. Handle(SetNarration(q, on, "init"))
  BY <1>1, <1>2, <1>3 DEF Boot
<1>5. page.micro = <<>> /\ page' = SetNarration(q, on, "init")
  BY <1>4 DEF Handle
<1>6. Base(page) /\ PageType(page) /\ DOMAIN page = PageFields
  BY DEF GoodPage, Good, Base, PageType
<1>7. SameCore(page, p) /\ p.requested = page.requested
  BY <1>1, <1>6 DEF SameCore, PageFields
<1>8. Base(p) /\ ~SomeOk(p)
  <2>1. p.micro = <<>>
    BY <1>5, <1>7 DEF SameCore
  <2> QED
    BY <1>6, <1>7, <2>1, SameCoreKeeps DEF SomeOk
<1>9. PICK language \in Languages : language = page.language
  BY <1>6 DEF PageType
<1>10. Keeps(p, q)
  BY <1>2, <1>8, <1>9, SetLanguageKeeps
<1>11. Base(q) /\ ~SomeOk(q)
  BY <1>8, <1>10 DEF Keeps, Frame
<1>12. "init" \in Thens
  BY DEF Thens
<1>13. Good(SetNarration(q, on, "init"))
  BY <1>11, <1>12, SetNarrationIsGood
<1> QED
  BY <1>5, <1>13 DEF GoodPage

LEMMA PressKeepsGood ==
  ASSUME GoodPage, NEW target \in {"page", "toggle", "start", "lang"}, Press(target)
  PROVE  GoodPage'
<1>1. PICK r : r = [page EXCEPT !.allowed = TRUE]
  OBVIOUS
<1>2. PICK p : p = [r EXCEPT !.press = target]
  OBVIOUS
<1>3. PICK q : q = [p EXCEPT !.retrying = TRUE]
  OBVIOUS
<1>4. Base(page) /\ PageType(page) /\ DOMAIN page = PageFields
  BY DEF GoodPage, Good, Base, PageType
<1>5. /\ DOMAIN p = PageFields /\ p.allowed /\ p.press = target
      /\ p.language = page.language /\ p.current = page.current /\ p.src = page.src
      /\ p.paused = page.paused /\ p.ready = page.ready /\ p.enabled = page.enabled
      /\ p.requested = page.requested /\ p.events = page.events
      /\ p.waits = page.waits /\ p.micro = page.micro /\ p.loads = page.loads
  BY <1>1, <1>2, <1>4 DEF PageFields
<1>6. [page EXCEPT !.allowed = TRUE, !.press = target] = p
  BY <1>1, <1>2, <1>4 DEF PageFields
<1>7. /\ page.micro = <<>>
      /\ page' = IF p.retrying \/ ~p.requested \/ p.enabled \/ p.disabled THEN p
                 ELSE SetNarration(q, TRUE, "retry")
  BY <1>3, <1>6 DEF Press, Handle
<1>8. Good(p)
  <2>1. target = "lang" => Cardinality(Languages) > 1
    BY DEF Press
  <2>2. PageType(p)
    BY <1>4, <1>5, <2>1 DEF PageType
  <2>3. (SomeOk(p) <=> SomeOk(page)) /\ (SomeRefused(p) <=> SomeRefused(page))
    BY <1>5 DEF SomeOk, SomeRefused
  <2>4. Element(p) /\ Hears(p) /\ Tells(p)
    BY <1>5, <2>3 DEF GoodPage, Good, Base, Element, Hears, Tells
  <2> QED
    BY <2>2, <2>4 DEF Good, Base
<1>9. Good(SetNarration(q, TRUE, "retry"))
  <2>1. SameCore(p, q) /\ q.requested = p.requested
    BY <1>3, <1>5 DEF SameCore, PageFields
  <2>2. q.micro = <<>>
    BY <1>5, <1>7, <2>1 DEF SameCore
  <2>3. Base(q) /\ ~SomeOk(q)
    BY <1>8, <2>1, <2>2, SameCoreKeeps DEF SomeOk, Good
  <2>4. "retry" \in Thens
    BY DEF Thens
  <2>5. PICK on : on = TRUE
    OBVIOUS
  <2>6. Good(SetNarration(q, on, "retry"))
    BY <2>3, <2>4, SetNarrationIsGood
  <2> QED
    BY <2>5, <2>6
<1> QED
  BY <1>7, <1>8, <1>9 DEF GoodPage

LEMMA ClickKeepsGood ==
  ASSUME GoodPage, Click
  PROVE  GoodPage'
<1>1. PICK p : p = [page EXCEPT !.press = None]
  OBVIOUS
<1>2. Base(page) /\ PageType(page) /\ DOMAIN page = PageFields
  BY DEF GoodPage, Good, Base, PageType
<1>3. /\ DOMAIN p = PageFields /\ p.press = None
      /\ p.language = page.language /\ p.current = page.current /\ p.src = page.src
      /\ p.paused = page.paused /\ p.ready = page.ready /\ p.enabled = page.enabled
      /\ p.allowed = page.allowed /\ p.requested = page.requested /\ p.events = page.events
      /\ p.waits = page.waits /\ p.micro = page.micro /\ p.loads = page.loads
  BY <1>1, <1>2 DEF PageFields
<1>4. page.micro = <<>>
  BY DEF Click, Handle
<1>5. Good(p) /\ ~SomeOk(p)
  <2>1. PageType(p)
    BY <1>2, <1>3 DEF PageType
  <2>2. (SomeOk(p) <=> SomeOk(page)) /\ (SomeRefused(p) <=> SomeRefused(page))
    BY <1>3 DEF SomeOk, SomeRefused
  <2>3. Element(p) /\ Hears(p) /\ Tells(p)
    BY <1>3, <2>2 DEF GoodPage, Good, Base, Element, Hears, Tells
  <2>4. ~SomeOk(p)
    BY <1>3, <1>4 DEF SomeOk
  <2> QED
    BY <2>1, <2>3, <2>4 DEF Good, Base
<1>6. None \in Thens
  BY DEF Thens
<1>7. CASE page.press = "toggle"
  <2>1. PICK on : on = ~p.requested
    OBVIOUS
  <2>2. page' = SetNarration(p, on, None)
    BY <1>1, <1>7, <2>1 DEF Click, Handle
  <2>3. Good(SetNarration(p, on, None))
    BY <1>5, <1>6, SetNarrationIsGood DEF Good
  <2> QED
    BY <2>2, <2>3 DEF GoodPage
<1>8. CASE page.press = "start"
  <2>1. PICK on : on = TRUE
    OBVIOUS
  <2>2. page' = SetNarration(p, on, None)
    BY <1>1, <1>8, <2>1 DEF Click, Handle
  <2>3. Good(SetNarration(p, on, None))
    BY <1>5, <1>6, SetNarrationIsGood DEF Good
  <2> QED
    BY <2>2, <2>3 DEF GoodPage
<1>9. CASE page.press = "lang"
  <2>1. PICK language : language = CHOOSE l \in Languages : l # p.language
    OBVIOUS
  <2>2. language \in Languages
    <3>1. Cardinality(Languages) > 1 /\ p.language \in Languages
      BY <1>2, <1>3, <1>9 DEF PageType, Click
    <3> QED
      BY <2>1, <3>1, OtherLanguage
  <2>3. page' = SetLanguage(p, language)
    BY <1>1, <1>9, <2>1 DEF Click, Handle
  <2>4. Keeps(p, SetLanguage(p, language))
    BY <1>5, <2>2, SetLanguageKeeps DEF Good
  <2> QED
    BY <1>5, <2>3, <2>4 DEF GoodPage, Good, Keeps
<1>10. CASE page.press \notin {"toggle", "start", "lang"}
  <2>1. page' = p
    BY <1>1, <1>10 DEF Click, Handle
  <2> QED
    BY <1>5, <2>1 DEF GoodPage
<1> QED
  BY <1>7, <1>8, <1>9, <1>10

LEMMA ScrollKeepsGood ==
  ASSUME GoodPage, NEW s \in Sections, Scroll(s)
  PROVE  GoodPage'
<1>1. PICK p : p = page
  OBVIOUS
<1>2. Good(p) /\ page' = SetActiveSection(p, s)
  BY <1>1 DEF GoodPage, Scroll, Handle
<1>3. Keeps(p, SetActiveSection(p, s))
  BY <1>2, SetActiveSectionKeeps DEF Good
<1> QED
  BY <1>2, <1>3 DEF GoodPage, Good, Keeps

LEMMA InterruptKeepsGood ==
  ASSUME GoodPage, Interrupt
  PROVE  GoodPage'
<1>1. PICK p : p = page
  OBVIOUS
<1>2. Good(p) /\ ~SomeOk(p) /\ page' = Pause(p)
  BY <1>1 DEF GoodPage, Interrupt, Handle, SomeOk
<1>3. LET q == Pause(p) IN Base(q) /\ (Tells(p) => Tells(q))
  BY <1>2, PauseKeeps DEF Good
<1> QED
  BY <1>2, <1>3 DEF GoodPage, Good

LEMMA TimeUpdateKeepsGood ==
  ASSUME GoodPage, TimeUpdate
  PROVE  GoodPage'
<1>1. PICK p : p = page
  OBVIOUS
<1>2. Good(p) /\ page' = UpdateCue(p)
  BY <1>1 DEF GoodPage, TimeUpdate, Handle
<1>3. Keeps(p, UpdateCue(p))
  BY <1>2, UpdateCueKeeps DEF Good
<1> QED
  BY <1>2, <1>3 DEF GoodPage, Good, Keeps

\* The last queued event says what the element does, so the flag is right when
\* it has been handled.
LEMMA MediaEventKeepsGood ==
  ASSUME GoodPage, MediaEvent
  PROVE  GoodPage'
<1>1. PICK r : r = [page EXCEPT !.events = Tail(page.events)]
  OBVIOUS
<1>2. PICK q : q = IF Head(page.events) = "pause" THEN [r EXCEPT !.enabled = FALSE]
                   ELSE IF r.requested THEN [r EXCEPT !.enabled = TRUE] ELSE r
  OBVIOUS
<1>3. page' = q /\ page.micro = <<>> /\ page.events # <<>>
  BY <1>1, <1>2 DEF MediaEvent, Handle
<1>4. /\ PageType(page) /\ DOMAIN page = PageFields
      /\ page.events \in Seq({"play", "pause"})
  BY DEF GoodPage, Good, Base, PageType
<1>5. /\ DOMAIN r = PageFields /\ r.events = Tail(page.events)
      /\ r.language = page.language /\ r.current = page.current /\ r.src = page.src
      /\ r.paused = page.paused /\ r.ready = page.ready /\ r.enabled = page.enabled
      /\ r.allowed = page.allowed /\ r.press = page.press /\ r.requested = page.requested
      /\ r.waits = page.waits /\ r.micro = page.micro /\ r.loads = page.loads
  BY <1>1, <1>4 DEF PageFields
<1>6. /\ DOMAIN q = PageFields /\ q.events = Tail(page.events)
      /\ q.language = page.language /\ q.current = page.current /\ q.src = page.src
      /\ q.paused = page.paused /\ q.ready = page.ready
      /\ q.allowed = page.allowed /\ q.press = page.press /\ q.requested = page.requested
      /\ q.waits = page.waits /\ q.micro = page.micro /\ q.loads = page.loads
  BY <1>2, <1>5 DEF PageFields
<1>7. /\ Head(page.events) = "pause" => ~q.enabled
      /\ Head(page.events) # "pause" /\ page.requested => q.enabled
  BY <1>2, <1>5 DEF PageFields
<1>8. /\ q.events \in Seq({"play", "pause"})
      /\ q.events # <<>> => q.events[Len(q.events)] = page.events[Len(page.events)]
      /\ q.events = <<>> => Head(page.events) = page.events[Len(page.events)]
  BY <1>3, <1>4, <1>6, HandledEvent
<1>9. /\ page.allowed
      /\ page.events[Len(page.events)] = "pause" <=> page.paused
  BY <1>3 DEF GoodPage, Good, Base, Element
<1>10. PageType(q)
  BY <1>4, <1>6, <1>8 DEF PageType
<1>11. ~SomeOk(q) /\ ~SomeRefused(q)
  BY <1>3, <1>6 DEF SomeOk, SomeRefused
<1>12. Element(q)
  BY <1>6, <1>8, <1>9, <1>11 DEF GoodPage, Good, Base, Element
<1>13. Hears(q)
  BY <1>6 DEF GoodPage, Good, Base, Hears
<1>14. Tells(q)
  BY <1>6, <1>7, <1>8, <1>9 DEF GoodPage, Good, Tells
<1> QED
  BY <1>3, <1>10, <1>12, <1>13, <1>14 DEF GoodPage, Good, Base

\* Every play that waits is of the source that can be played now.
LEMMA CanPlayKeepsGood ==
  ASSUME GoodPage, CanPlay
  PROVE  GoodPage'
<1>1. PICK r : r = [page EXCEPT !.ready = TRUE]
  OBVIOUS
<1>2. PICK s : s = [r EXCEPT !.waits = <<>>]
  OBVIOUS
<1>3. PICK q : q = [s EXCEPT !.micro = Settled(page.waits, TRUE)]
  OBVIOUS
<1>4. /\ PageType(page) /\ DOMAIN page = PageFields
      /\ page.waits \in Seq(CallSet)
  BY DEF GoodPage, Good, Base, PageType
<1>5. [page EXCEPT !.ready = TRUE, !.waits = <<>>, !.micro = Settled(page.waits, TRUE)] = q
  BY <1>1, <1>2, <1>3, <1>4 DEF PageFields
<1>6. /\ page' = q /\ page.micro = <<>> /\ page.events = <<>> /\ page.waits # <<>>
      /\ page.src # Ambient
  BY <1>5 DEF CanPlay, Handle
<1>7. /\ DOMAIN q = PageFields /\ q.ready /\ q.waits = <<>>
      /\ q.micro = Settled(page.waits, TRUE)
      /\ q.language = page.language /\ q.current = page.current /\ q.src = page.src
      /\ q.paused = page.paused /\ q.enabled = page.enabled
      /\ q.allowed = page.allowed /\ q.press = page.press /\ q.requested = page.requested
      /\ q.events = page.events /\ q.loads = page.loads
  BY <1>1, <1>2, <1>3, <1>4 DEF PageFields
<1>8. /\ q.micro \in Seq(SettledSet) /\ q.micro # <<>>
      /\ \A i \in 1..Len(q.micro) :
           i \in 1..Len(page.waits) /\ q.micro[i].ok /\ q.micro[i].call = page.waits[i]
  BY <1>4, <1>6, <1>7, SettledTrue
<1>9. /\ ~page.paused /\ page.allowed
      /\ \A i \in 1..Len(page.waits) : page.waits[i].track = page.src
  BY <1>6 DEF GoodPage, Good, Base, Element
<1>10. page.src # None
  <2>1. 1 \in 1..Len(page.waits) /\ page.waits[1] \in CallSet
    BY <1>4, <1>6
  <2>2. page.waits[1].track \in TrackSet
    BY <2>1 DEF CallSet
  <2> QED
    BY <1>9, <2>1, <2>2, RuntimeAssumption DEF TrackSet
<1>11. PageType(q)
  <2>1. q.waits \in Seq(CallSet)
    BY <1>7
  <2> QED
    BY <1>4, <1>7, <1>8, <2>1 DEF PageType
<1>12. ~SomeRefused(q)
  BY <1>8 DEF SomeRefused
<1>13. Element(q)
  <2>1. \A i \in 1..Len(q.waits) : q.waits[i].track = q.src
    BY <1>7
  <2> QED
    BY <1>6, <1>7, <1>9, <1>12, <2>1 DEF Element
<1>14. Hears(q)
  BY <1>6, <1>7, <1>8, <1>9, <1>10 DEF Hears
<1>15. Tells(q)
  BY <1>6, <1>7, <1>9 DEF GoodPage, Good, Tells
<1> QED
  BY <1>6, <1>11, <1>13, <1>14, <1>15 DEF GoodPage, Good, Base

LEMMA ErrorKeepsGood ==
  ASSUME GoodPage, Error
  PROVE  GoodPage'
<1>1. PICK q : q = [page EXCEPT !.requested = FALSE, !.enabled = FALSE, !.current = None,
                                !.disabled = TRUE, !.waits = <<>>,
                                !.micro = Settled(page.waits, FALSE)]
  OBVIOUS
<1>2. /\ PageType(page) /\ DOMAIN page = PageFields
      /\ page.waits \in Seq(CallSet)
  BY DEF GoodPage, Good, Base, PageType
<1>3. page' = q /\ page.micro = <<>> /\ page.events = <<>> /\ page.waits # <<>>
  BY <1>1 DEF Error, Handle
<1>4. /\ DOMAIN q = PageFields /\ q.waits = <<>> /\ ~q.requested /\ ~q.enabled
      /\ q.current = None /\ q.micro = Settled(page.waits, FALSE)
      /\ q.language = page.language /\ q.src = page.src
      /\ q.paused = page.paused /\ q.ready = page.ready
      /\ q.allowed = page.allowed /\ q.press = page.press
      /\ q.events = page.events /\ q.loads = page.loads
  BY <1>1, <1>2 DEF PageFields
<1>5. q.micro \in Seq(SettledSet) /\ \A i \in 1..Len(q.micro) : ~q.micro[i].ok
  BY <1>2, <1>4, SettledFalse
<1>6. PageType(q)
  <2>1. q.waits \in Seq(CallSet)
    BY <1>4
  <2> QED
    BY <1>2, <1>4, <1>5, <2>1 DEF PageType
<1>7. ~SomeOk(q)
  BY <1>5 DEF SomeOk
<1>8. ~page.paused /\ page.allowed /\ ~page.ready
  BY <1>3 DEF GoodPage, Good, Base, Element, Hears
<1>9. Element(q)
  <2>1. \A i \in 1..Len(q.waits) : q.waits[i].track = q.src
    BY <1>4
  <2> QED
    BY <1>3, <1>4, <1>7, <1>8, <2>1 DEF Element
<1>10. Hears(q) /\ Tells(q)
  BY <1>4, <1>8 DEF Hears, Tells
<1> QED
  BY <1>3, <1>6, <1>9, <1>10 DEF GoodPage, Good, Base

LEMMA PlayNextIsGood ==
  ASSUME NEW p, Base(p), ~SomeOk(p), p.current # None, p.requested
  PROVE  Good(PlayNext(p))
<1>1. PICK next : next = Track(p.current.language, p.current.index + 1)
  OBVIOUS
<1>2. next \in TrackSet
  BY <1>1 DEF Track, TrackSet, Base, PageType
<1>3. CASE next.index > Len(Tracks(p, next.language))
  <2>1. PICK r : r = EnsureAmbient(SetActiveSection(p, Closing))
    OBVIOUS
  <2>2. Keeps(p, SetActiveSection(p, Closing))
    BY SetActiveSectionKeeps
  <2>3. Base(r) /\ ~r.ready
    BY <2>1, <2>2, EnsureAmbientKeeps DEF Keeps, Frame
  <2>4. PICK q : q = [r EXCEPT !.requested = FALSE, !.enabled = FALSE, !.current = None]
    OBVIOUS
  <2>5. /\ DOMAIN q = PageFields /\ q.language = r.language /\ ~q.enabled /\ q.current = None
        /\ q.src = r.src /\ q.paused = r.paused /\ q.ready = r.ready /\ q.allowed = r.allowed
        /\ q.press = r.press /\ q.events = r.events /\ q.waits = r.waits /\ q.micro = r.micro
        /\ q.loads = r.loads /\ ~q.requested
    BY <2>3, <2>4 DEF Base, PageType, PageFields
  <2>6. Base(q)
    BY <2>3, <2>5, FlagOffKeeps
  <2>7. Tells(q)
    BY <2>5 DEF Tells
  <2>8. PlayNext(p) = q
    BY <1>1, <1>3, <2>1, <2>4 DEF PlayNext
  <2> QED
    BY <2>6, <2>7, <2>8 DEF Good
<1>4. CASE ~(next.index > Len(Tracks(p, next.language)))
  <2>1. PlayNext(p) = PlayTrack(p, next, "next", None)
    BY <1>1, <1>4 DEF PlayNext
  <2>2. None \in Thens
    BY DEF Thens
  <2> QED
    BY <1>2, <2>1, <2>2, PlayTrackKeeps
<1> QED
  BY <1>3, <1>4

LEMMA EndedKeepsGood ==
  ASSUME GoodPage, Ended
  PROVE  GoodPage'
<1>1. PICK r : r = [page EXCEPT !.paused = TRUE]
  OBVIOUS
<1>2. PICK p : p = [r EXCEPT !.ready = FALSE]
  OBVIOUS
<1>3. PageType(page) /\ DOMAIN page = PageFields
  BY DEF GoodPage, Good, Base, PageType
<1>4. [page EXCEPT !.paused = TRUE, !.ready = FALSE] = p
  BY <1>1, <1>2, <1>3 DEF PageFields
<1>5. /\ page' = PlayNext(p) /\ page.micro = <<>> /\ page.events = <<>> /\ page.waits = <<>>
      /\ page.ready /\ ~page.paused
  BY <1>4 DEF Ended, Handle
<1>6. /\ DOMAIN p = PageFields /\ p.paused /\ ~p.ready
      /\ p.language = page.language /\ p.current = page.current /\ p.src = page.src
      /\ p.enabled = page.enabled /\ p.allowed = page.allowed /\ p.press = page.press
      /\ p.requested = page.requested /\ p.events = page.events
      /\ p.waits = page.waits /\ p.micro = page.micro /\ p.loads = page.loads
  BY <1>1, <1>2, <1>3 DEF PageFields
<1>7. PageType(p)
  BY <1>3, <1>6 DEF PageType
<1>8. ~SomeOk(p)
  BY <1>5, <1>6 DEF SomeOk
<1>9. Element(p) /\ Hears(p)
  BY <1>5, <1>6, <1>8 DEF GoodPage, Good, Base, Element, Hears
<1>10. p.current # None
  BY <1>5, <1>6 DEF GoodPage, Good, Base, Hears
<1>11. CASE p.requested
  BY <1>5, <1>7, <1>8, <1>9, <1>10, <1>11, PlayNextIsGood DEF GoodPage, Base
<1>12. CASE ~p.requested
  <2>1. PlayNext(p) = p
    BY <1>12 DEF PlayNext
  <2>2. Tells(p)
    BY <1>12 DEF Tells
  <2> QED
    BY <1>5, <1>7, <1>9, <2>1, <2>2 DEF GoodPage, Good, Base
<1> QED
  BY <1>11, <1>12

-----------------------------------------------------------------------------
(* The invariant and what follows from it.                                  *)

LEMMA InitIsGood == ASSUME Init PROVE GoodPage
<1>1. /\ DOMAIN page = PageFields /\ page.language \in Languages
      /\ page.requested = FALSE /\ page.enabled = FALSE /\ page.current = None
      /\ page.src = None /\ page.paused = TRUE /\ page.ready = FALSE /\ page.press = None
      /\ page.events = <<>> /\ page.waits = <<>> /\ page.micro = <<>> /\ page.loads = {}
  BY DEF Init, PageFields
<1>2. PageType(page)
  <2>1. /\ page.events \in Seq({"play", "pause"}) /\ page.waits \in Seq(CallSet)
        /\ page.micro \in Seq(SettledSet)
    BY <1>1
  <2> QED
    BY <1>1, <2>1 DEF PageType
<1>3. ~SomeOk(page) /\ ~SomeRefused(page)
  BY <1>1 DEF SomeOk, SomeRefused
<1>4. Element(page)
  <2>1. \A i \in 1..Len(page.waits) : page.waits[i].track = page.src
    BY <1>1
  <2> QED
    BY <1>1, <1>3, <2>1 DEF Element
<1>5. Hears(page) /\ Tells(page)
  BY <1>1 DEF Hears, Tells
<1> QED
  BY <1>2, <1>4, <1>5 DEF GoodPage, Good, Base

\* Whatever the visitor does and however plays, events and loads race, the
\* element, the current track and the flag hang together (app.js:275-352,
\* 658-768, 917-945).
THEOREM PageInvariant == Spec => []GoodPage
<1>1. Init => GoodPage
  BY InitIsGood
<1>2. GoodPage /\ [Next]_vars => GoodPage'
  <2> SUFFICES ASSUME GoodPage, [Next]_vars
               PROVE  GoodPage'
    OBVIOUS
  <2>1. CASE Continue
    BY <2>1, ContinueKeepsGood
  <2>2. CASE LoadTimings
    BY <2>2, LoadTimingsKeepsGood
  <2>3. CASE Boot
    BY <2>3, BootKeepsGood
  <2>4. CASE \E target \in {"page", "toggle", "start", "lang"} : Press(target)
    BY <2>4, PressKeepsGood
  <2>5. CASE Click
    BY <2>5, ClickKeepsGood
  <2>6. CASE \E s \in Sections : Scroll(s)
    BY <2>6, ScrollKeepsGood
  <2>7. CASE Interrupt
    BY <2>7, InterruptKeepsGood
  <2>8. CASE MediaEvent
    BY <2>8, MediaEventKeepsGood
  <2>9. CASE CanPlay
    BY <2>9, CanPlayKeepsGood
  <2>10. CASE Error
    BY <2>10, ErrorKeepsGood
  <2>11. CASE Ended
    BY <2>11, EndedKeepsGood
  <2>12. CASE TimeUpdate
    BY <2>12, TimeUpdateKeepsGood
  <2>13. CASE UNCHANGED vars
    BY <2>13 DEF vars, GoodPage
  <2> QED
    BY <2>1, <2>2, <2>3, <2>4, <2>5, <2>6, <2>7, <2>8, <2>9, <2>10, <2>11, <2>12, <2>13
    DEF Next
<1> QED
  BY <1>1, <1>2, PTL DEF Spec

\* A page at rest takes for the current track the one that is heard, also after
\* calls raced for the one audio element (app.js:275-352, 658-710).
THEOREM HeardTrackIsCurrent == Spec => []HeardIsCurrent
<1>1. GoodPage => HeardIsCurrent
  BY DEF GoodPage, Good, Base, Hears, HeardIsCurrent, AtRest, Heard
<1> QED
  BY <1>1, PageInvariant, PTL

\* A page at rest, with narration asked for, tells "on" from "tap" by what is
\* heard (app.js:737-768, 917-926).
THEOREM ButtonIsTrue == Spec => []ButtonTellsTruth
<1>1. GoodPage => ButtonTellsTruth
  BY DEF GoodPage, Good, Base, Hears, Tells, ButtonTellsTruth, AtRest, Heard
<1> QED
  BY <1>1, PageInvariant, PTL
================================================================================

---------------------------- MODULE Localization ----------------------------
(***************************************************************************)
(* The localizer of the web pages (web/static/localization.js) on one page *)
(* of the dashboard or of the admin area.                                  *)
(*                                                                         *)
(* The page writes English texts into the document whenever it likes, or   *)
(* texts it translated itself with XrayI18n.translate.  The localizer      *)
(* replaces them by the text of the current language and remembers, per    *)
(* text node and per attribute, the source it saw and the output it wrote. *)
(* A MutationObserver tells it of changes, its own changes included; the   *)
(* callback runs as a microtask and reads the document as it is by then.   *)
(* JavaScript runs to completion, so a handler is one step.                *)
(*                                                                         *)
(* A slot is a place of the document that holds one text: a text node, or  *)
(* an attribute of attributeFilter.  The records of the observer are kept  *)
(* as the slots they name: a second record of a slot in the same batch     *)
(* finds the text unchanged and does nothing.  Elements that are not in    *)
(* the document take no part: the pages insert what they create at once,   *)
(* and what they remove is created anew.  Nobody listens to the event      *)
(* xray-language-changed that setLanguage sends at its end.                *)
(***************************************************************************)
EXTENDS Naturals

CONSTANTS
    TextNodes,      \* slots that are text nodes
    Attributes,     \* slots that are attributes
    Skipped,        \* slots inside the elements the localizer leaves alone
    Assigned,       \* attributes the page sets again on the same element
    Pretranslated,  \* slots the page fills through XrayI18n.translate
    Texts,
    TextsOf,        \* slot -> the texts the page has for it
    Blank,          \* texts of white space only
    Translation,    \* text -> translate(text) in Russian
    NodeOutput,     \* text -> its Russian as a text node, white space kept
    Absent,         \* no text
    MaxWrites       \* bound: writes of the page and reloads

supportedLanguages == {"en", "ru"}
Slots == TextNodes \cup Attributes

ASSUME SlotsAssumption ==
    /\ TextNodes \cap Attributes = {}
    /\ Skipped \subseteq Slots /\ Assigned \subseteq Attributes /\ Pretranslated \subseteq Slots
    /\ Assigned \cap Pretranslated = {}

ASSUME TextsAssumption ==
    /\ Translation \in [Texts -> Texts] /\ NodeOutput \in [Texts -> Texts]
    /\ TextsOf \in [Slots -> SUBSET Texts]
    /\ Absent \notin Texts /\ Blank \subseteq Texts
    /\ \A t \in Blank : NodeOutput[t] = t

\* The texts the page sets on one attribute are not translations of each other.
\* The pages set pairs such as "Ascending" and "Descending"; "Muted", whose
\* Russian is the text "Mute", next to "Mute" would be such a pair.
ASSUME UnconfusableAssumption ==
    \A s \in Assigned : \A t, u \in TextsOf[s] : Translation[t] = u => t = u

ASSUME BoundAssumption == MaxWrites \in Nat

VARIABLES
    phase,          \* "loading" until DOMContentLoaded has run init
    language,
    stored,         \* localStorage under storageKey; "other" is anything else
    pressed,        \* document.documentElement.lang and the pressed button
    shown,          \* slot -> the text in the document
    memo,           \* slot -> [source, output]: translatedText, translatedAttributes
    dirty,          \* slots with a record of a change the page made
    echo,           \* slots with a record of a change the localizer made
    writes,
    \* history
    inserted,       \* slot -> the text as the page put it there
    asked           \* slot -> the text the page had translated into Russian for it

history == <<inserted, asked>>
vars == <<phase, language, stored, pressed, shown, memo, dirty, echo, writes, history>>

NoMemo == [source |-> Absent, output |-> Absent]
Present(s) == shown[s] # Absent
Counted == writes < MaxWrites /\ writes' = writes + 1

-----------------------------------------------------------------------------
(* Translating a slot. *)

translate(t, lang) == IF lang = "ru" THEN Translation[t] ELSE t

Output(s, t, lang) ==
    IF lang # "ru" THEN t ELSE IF s \in TextNodes THEN NodeOutput[t] ELSE Translation[t]

Unchanged(s) == shown[s] = memo[s].output
Source(s, force) == IF force /\ Unchanged(s) THEN memo[s].source ELSE shown[s]

\* Mutant: a node is translated again however it got its text.
TouchesAlways(s, force) == Present(s) /\ s \notin Skipped /\ ~(s \in TextNodes /\ shown[s] \in Blank)

\* The early returns of translateTextNode and translateElementAttributes.
Touches(s, force) ==
    /\ Present(s) /\ s \notin Skipped
    /\ force \/ ~Unchanged(s)
    /\ ~(s \in TextNodes /\ Source(s, force) \in Blank)

\* Mutant: what is written is taken as the source of what comes next.
RememberOutput(s, force, lang) ==
    [source |-> Output(s, Source(s, force), lang), output |-> Output(s, Source(s, force), lang)]

Remember(s, force, lang) ==
    [source |-> Source(s, force), output |-> Output(s, Source(s, force), lang)]

\* Mutant: the text is written even when it stays the same.
RewritesAlways(s, force, lang) == s \in Slots /\ Present(s) /\ s \notin Skipped

\* The document is written only when the text differs.
Rewrites(s, force, lang) ==
    Touches(s, force) /\ shown[s] # Output(s, Source(s, force), lang)

\* apply, on the slots S of the document.
apply(S, force, lang) ==
    /\ memo' = [s \in Slots |-> IF s \in S /\ Touches(s, force) THEN Remember(s, force, lang) ELSE memo[s]]
    /\ shown' = [s \in Slots |-> IF s \in S /\ Touches(s, force) THEN Remember(s, force, lang).output ELSE shown[s]]

-----------------------------------------------------------------------------
(* The localizer. *)

readLanguage == IF stored \in supportedLanguages THEN stored ELSE "en"

updateControls(lang) == pressed' = lang

\* On DOMContentLoaded.  The observer starts after the document was translated.
init ==
    /\ phase = "loading"
    /\ phase' = "ready"
    /\ updateControls(language)
    /\ apply(Slots, FALSE, language)
    /\ UNCHANGED <<language, stored, dirty, echo, writes, history>>

\* A click on a language button; localStorage may refuse.
setLanguage(next, saved) ==
    /\ phase = "ready"
    /\ next \in supportedLanguages /\ next # language
    /\ language' = next
    /\ stored' = IF saved THEN next ELSE stored
    /\ updateControls(next)
    /\ apply(Slots, TRUE, next)
    /\ echo' = echo \cup {s \in Slots : Rewrites(s, TRUE, next)}
    /\ UNCHANGED <<phase, dirty, writes, history>>

\* Mutant: only childList records are looked at.
ObservedOfNodes == (dirty \cup echo) \ Attributes

Observed == dirty \cup echo

\* The callback of the observer takes all records there are.
Deliver ==
    /\ dirty \cup echo # {}
    /\ apply(Observed, FALSE, language)
    /\ dirty' = {}
    /\ echo' = {s \in Observed : Rewrites(s, FALSE, language)}
    /\ UNCHANGED <<phase, language, stored, pressed, writes, history>>

-----------------------------------------------------------------------------
(* The page and the browser. *)

\* The records of changes; there are none before the observer starts.
Noticed(s) == dirty' = IF phase = "ready" THEN dirty \cup {s} ELSE dirty

\* The parser, innerHTML, textContent and Alpine make a new node or element.
\* A record of the node it replaces finds that node outside the document.
Render(s, t) ==
    /\ Counted
    /\ t \in TextsOf[s]
    /\ inserted' = [inserted EXCEPT ![s] = IF s \in Pretranslated THEN translate(t, language) ELSE t]
    /\ shown' = [shown EXCEPT ![s] = inserted'[s]]
    /\ asked' = [asked EXCEPT ![s] = IF s \in Pretranslated /\ language = "ru" THEN t ELSE Absent]
    /\ memo' = [memo EXCEPT ![s] = NoMemo]
    /\ Noticed(s)
    /\ echo' = echo \ {s}
    /\ UNCHANGED <<phase, language, stored, pressed>>

\* setAttribute, or a property that reflects it, on an element that stays.
Assign(s, t) ==
    /\ Counted
    /\ s \in Assigned /\ Present(s)
    /\ t \in TextsOf[s]
    /\ inserted' = [inserted EXCEPT ![s] = t]
    /\ shown' = [shown EXCEPT ![s] = t]
    /\ Noticed(s)
    /\ UNCHANGED <<phase, language, stored, pressed, memo, echo, asked>>

\* An element is moved: it is removed and added again as it is.
Move(s) ==
    /\ Present(s) /\ phase = "ready" /\ s \notin dirty
    /\ Noticed(s)
    /\ UNCHANGED <<phase, language, stored, pressed, shown, memo, echo, writes, history>>

Remove(s) ==
    /\ Present(s)
    /\ shown' = [shown EXCEPT ![s] = Absent]
    /\ inserted' = [inserted EXCEPT ![s] = Absent]
    /\ asked' = [asked EXCEPT ![s] = Absent]
    /\ memo' = [memo EXCEPT ![s] = NoMemo]
    /\ dirty' = dirty \ {s}
    /\ echo' = echo \ {s}
    /\ UNCHANGED <<phase, language, stored, pressed, writes>>

\* Another page of the same origin changes the language.
OtherPageSaves(lang) ==
    /\ stored # lang
    /\ stored' = lang
    /\ UNCHANGED <<phase, language, pressed, shown, memo, dirty, echo, writes, history>>

\* The page is loaded anew; localStorage may be closed to it.
Reload(readable) ==
    /\ Counted
    /\ phase = "ready"
    /\ phase' = "loading"
    /\ language' = IF readable THEN readLanguage ELSE "en"
    /\ pressed' = "none"
    /\ shown' = [s \in Slots |-> Absent]
    /\ memo' = [s \in Slots |-> NoMemo]
    /\ dirty' = {} /\ echo' = {}
    /\ inserted' = [s \in Slots |-> Absent]
    /\ asked' = [s \in Slots |-> Absent]
    /\ UNCHANGED stored

Init ==
    /\ phase = "loading"
    /\ stored \in supportedLanguages \cup {"none", "other"}
    /\ language = readLanguage
    /\ pressed = "none"
    /\ shown = [s \in Slots |-> Absent]
    /\ memo = [s \in Slots |-> NoMemo]
    /\ dirty = {} /\ echo = {}
    /\ writes = 0
    /\ inserted = [s \in Slots |-> Absent]
    /\ asked = [s \in Slots |-> Absent]

Next ==
    \/ init \/ Deliver
    \/ \E next \in supportedLanguages, saved \in BOOLEAN : setLanguage(next, saved)
    \/ \E s \in Slots : \E t \in TextsOf[s] : Render(s, t) \/ Assign(s, t)
    \/ \E s \in Slots : Move(s) \/ Remove(s)
    \/ \E lang \in supportedLanguages : OtherPageSaves(lang)
    \/ \E readable \in BOOLEAN : Reload(readable)

\* The browser fires DOMContentLoaded and runs the microtasks of a task before
\* it goes on to the next one.
Spec == Init /\ [][Next]_vars /\ WF_vars(init) /\ WF_vars(Deliver)

-----------------------------------------------------------------------------
(* Properties. *)

Memos == [source : Texts \cup {Absent}, output : Texts \cup {Absent}]

\* Every variable has its type; once the page is ready the pressed button and
\* the lang attribute are those of the language; nothing is observed before.
TypeOK ==
    /\ phase \in {"loading", "ready"} /\ language \in supportedLanguages
    /\ stored \in supportedLanguages \cup {"none", "other"}
    /\ pressed = IF phase = "ready" THEN language ELSE "none"
    /\ shown \in [Slots -> Texts \cup {Absent}] /\ memo \in [Slots -> Memos]
    /\ dirty \subseteq Slots /\ echo \subseteq Slots
    /\ phase = "loading" => dirty = {} /\ echo = {}
    /\ writes \in 0..MaxWrites
    /\ inserted \in [Slots -> Texts \cup {Absent}] /\ asked \in [Slots -> Texts \cup {Absent}]

Quiet == phase = "ready" /\ dirty \cup echo = {}

\* What a slot is to show: the page's text itself where the localizer must keep
\* out, else its translation.
Expected(s) == IF s \in Skipped THEN inserted[s] ELSE Output(s, inserted[s], language)

\* When the observer has nothing left to do, every text of the document is the
\* current language's form of what the page put there last: none is stale, none
\* was translated twice, and none replaced a newer one.
ShownIsTranslated == Quiet => \A s \in Slots : Present(s) => shown[s] = Expected(s)

\* A text the page had translated itself goes through translate once more when
\* the observer meets it, and is still the translation the page asked for.
TranslatedOnceOrTwice ==
    (Quiet /\ language = "ru") =>
        \A s \in Slots \ Skipped : (Present(s) /\ asked[s] # Absent) => shown[s] = Translation[asked[s]]

\* The localizer does not answer its own changes: a record that only it caused
\* leaves the text alone.
NoEcho == [][Deliver => \A s \in echo \ dirty : shown'[s] = shown[s]]_vars

\* A change of language reaches every slot at once, records pending or not: in
\* English the page reads exactly as it was written, white space included.
SwitchIsComplete ==
    [][(phase = "ready" /\ language' # language /\ phase' = "ready")
        => \A s \in Slots : Present(s) => shown'[s] = Expected(s)']_vars

\* Whatever was changed, the observer comes to rest.
Settles == (dirty \cup echo # {}) ~> Quiet
=============================================================================

------------------------- MODULE LocalizationProofs -------------------------
(***************************************************************************)
(* The invariant that makes the localizer right, and its proof for every   *)
(* set of slots and texts and every dictionary that meets the assumptions  *)
(* of Localization.                                                        *)
(*                                                                         *)
(* A slot the localizer may touch is in one of two states.  It is settled: *)
(* the memory says which text of the page it shows and in which form.  Or  *)
(* it is raw: it shows the text as the page wrote it, the memory cannot be *)
(* mistaken for it, and someone still is to come: init, or the observer.   *)
(* White space in a text node stays raw for good.                          *)
(***************************************************************************)
EXTENDS Localization, TLAPS

Settled(s) == memo[s].source = inserted[s] /\ memo[s].output = shown[s]

Raw(s) ==
    /\ shown[s] = inserted[s] /\ memo[s].output # shown[s]
    /\ s \in TextNodes => memo[s] = NoMemo

\* The memory is of the current language and of a text the page had.
MemoInv(s) ==
    memo[s] # NoMemo =>
        /\ memo[s].source \in Texts
        /\ memo[s].output = Output(s, memo[s].source, language)
        /\ s \in TextNodes => memo[s].source \notin Blank
        /\ s \in Assigned => memo[s].source \in TextsOf[s]

Awaited(s) == phase = "loading" \/ s \in dirty \/ (s \in TextNodes /\ inserted[s] \in Blank)

SlotInv(s) ==
    /\ MemoInv(s)
    /\ ~Present(s) => memo[s] = NoMemo /\ inserted[s] = Absent /\ s \notin echo
    /\ Present(s) => inserted[s] \in Texts /\ (s \in Assigned => inserted[s] \in TextsOf[s])
    /\ s \in Skipped => shown[s] = inserted[s] /\ memo[s] = NoMemo /\ s \notin echo
    /\ (Present(s) /\ s \notin Skipped) => Settled(s) \/ (Raw(s) /\ Awaited(s))
    /\ s \in echo /\ (s \in TextNodes \/ s \notin dirty) => Settled(s)

IInv == TypeOK /\ \A s \in Slots : SlotInv(s)

-----------------------------------------------------------------------------
(* What apply does to one slot. *)

\* A translation is a text, and white space in a text node is its own.
LEMMA OutputIsText ==
    ASSUME NEW s \in Slots, NEW t \in Texts, NEW lang
    PROVE  Output(s, t, lang) \in Texts /\ (s \in TextNodes /\ t \in Blank => Output(s, t, lang) = t)
BY TextsAssumption DEF Output

\* A slot apply does not visit, or leaves at an early return, keeps its text.
LEMMA ApplyLeaves ==
    ASSUME NEW s \in Slots, NEW S, NEW force, NEW lang, apply(S, force, lang),
           s \notin S \/ ~Touches(s, force)
    PROVE  shown'[s] = shown[s] /\ memo'[s] = memo[s]
BY DEF apply

\* A slot it visits without an early return is written and remembered.
LEMMA ApplyWrites ==
    ASSUME NEW s \in Slots, NEW S, NEW force, NEW lang, apply(S, force, lang),
           s \in S, Touches(s, force)
    PROVE  /\ memo'[s].source = Source(s, force)
           /\ memo'[s].output = Output(s, Source(s, force), lang)
           /\ shown'[s] = Output(s, Source(s, force), lang)
BY DEF apply, Remember

\* Under the invariant the source is the text of the page, and whatever is not
\* settled in the language of the pass is touched unless it is white space.
LEMMA SourceIsInserted ==
    ASSUME NEW s \in Slots, IInv, NEW force \in BOOLEAN, Present(s), s \notin Skipped
    PROVE  /\ force \/ Raw(s) => Source(s, force) = inserted[s]
           /\ Touches(s, force) => Source(s, force) = inserted[s] /\ ~(s \in TextNodes /\ inserted[s] \in Blank)
           /\ ~Touches(s, force) =>
                \/ ~force /\ Settled(s)
                \/ s \in TextNodes /\ inserted[s] \in Blank /\ Raw(s)
<1>1. Settled(s) \/ Raw(s)
    BY DEF IInv, SlotInv
<1>2. CASE Settled(s)
    <2>1. Unchanged(s) /\ memo[s] # NoMemo
        BY <1>2, TextsAssumption DEF Settled, Unchanged, NoMemo, IInv, SlotInv
    <2>2. s \in TextNodes => inserted[s] \notin Blank
        BY <1>2, <2>1 DEF Settled, IInv, SlotInv, MemoInv
    <2>3. ~Raw(s)
        BY <1>2 DEF Settled, Raw
    <2>. QED BY <1>2, <2>1, <2>2, <2>3 DEF Settled, Touches, Source
<1>3. CASE Raw(s)
    <2>1. ~Unchanged(s) /\ shown[s] = inserted[s]
        BY <1>3 DEF Raw, Unchanged
    <2>. QED BY <1>3, <2>1 DEF Touches, Source
<1>. QED BY <1>1, <1>2, <1>3

\* A pass over a slot settles it, except white space in a text node.
LEMMA ApplySettles ==
    ASSUME NEW s \in Slots, IInv, NEW S, s \in S, NEW force \in BOOLEAN,
           NEW lang \in supportedLanguages, apply(S, force, lang),
           language' = lang, force \/ lang = language, inserted' = inserted,
           Present(s), s \notin Skipped
    PROVE  /\ \/ Settled(s)'
              \/ s \in TextNodes /\ inserted[s] \in Blank /\ Raw(s)'
           /\ MemoInv(s)' /\ shown'[s] = Output(s, inserted[s], lang) /\ shown'[s] \in Texts
           /\ memo'[s] \in Memos
<1>1. inserted[s] \in Texts /\ (s \in Assigned => inserted[s] \in TextsOf[s])
    BY DEF IInv, SlotInv
<1>2. CASE Touches(s, force)
    <2>1. Source(s, force) = inserted[s] /\ ~(s \in TextNodes /\ inserted[s] \in Blank)
        BY <1>2, SourceIsInserted
    <2>2. /\ memo'[s].source = inserted[s]
          /\ memo'[s].output = Output(s, inserted[s], lang)
          /\ shown'[s] = Output(s, inserted[s], lang)
        BY <1>2, <2>1, ApplyWrites
    <2>3. memo'[s] = [source |-> inserted[s], output |-> Output(s, inserted[s], lang)]
        BY <1>2, <2>1 DEF apply, Remember
    <2>4. Output(s, inserted[s], lang) \in Texts
        BY <1>1, OutputIsText
    <2>5. MemoInv(s)'
        BY <1>1, <2>1, <2>2 DEF MemoInv, Output
    <2>. QED BY <1>1, <2>2, <2>3, <2>4, <2>5 DEF Settled, Memos
<1>3. CASE ~Touches(s, force)
    <2>1. shown'[s] = shown[s] /\ memo'[s] = memo[s]
        BY <1>3, ApplyLeaves
    <2>2. memo[s] \in Memos
        BY DEF IInv, TypeOK
    <2>3. CASE ~force /\ Settled(s)
        <3>1. memo[s] # NoMemo
            BY <2>3, <1>1, TextsAssumption DEF Settled, NoMemo
        <3>2. memo[s].output = Output(s, inserted[s], language)
            BY <2>3, <3>1 DEF Settled, IInv, SlotInv, MemoInv
        <3>3. MemoInv(s)'
            <4>1. lang = language
                BY <2>3
            <4>. QED BY <2>1, <4>1 DEF IInv, SlotInv, MemoInv, Output
        <3>. QED BY <1>1, <2>1, <2>2, <2>3, <3>2, <3>3, OutputIsText DEF Settled
    <2>4. CASE s \in TextNodes /\ inserted[s] \in Blank /\ Raw(s)
        <3>1. memo[s] = NoMemo /\ shown[s] = inserted[s]
            BY <2>4 DEF Raw
        <3>2. MemoInv(s)' /\ Raw(s)'
            BY <2>1, <2>4, <3>1 DEF MemoInv, Raw, NoMemo
        <3>. QED BY <1>1, <2>1, <2>2, <2>4, <3>1, <3>2, OutputIsText
    <2>. QED BY <1>3, <2>3, <2>4, SourceIsInserted
<1>. QED BY <1>2, <1>3

\* What apply leaves of the types.
LEMMA ApplyTypes ==
    ASSUME IInv, NEW S, NEW force \in BOOLEAN, NEW lang \in supportedLanguages, apply(S, force, lang),
           language' = lang, force \/ lang = language, inserted' = inserted
    PROVE  shown' \in [Slots -> Texts \cup {Absent}] /\ memo' \in [Slots -> Memos]
<1>1. ASSUME NEW s \in Slots
      PROVE  shown'[s] \in Texts \cup {Absent} /\ memo'[s] \in Memos
    <2>1. CASE s \in S /\ Present(s) /\ s \notin Skipped
        BY <2>1, ApplySettles
    <2>2. CASE ~(s \in S /\ Present(s) /\ s \notin Skipped)
        <3>1. shown'[s] = shown[s] /\ memo'[s] = memo[s]
            BY <2>2, ApplyLeaves DEF Touches
        <3>. QED BY <3>1 DEF IInv, TypeOK
    <2>. QED BY <2>1, <2>2
<1>2. shown' = [s \in Slots |-> shown'[s]] /\ memo' = [s \in Slots |-> memo'[s]]
    BY DEF apply
<1>. QED BY <1>1, <1>2

-----------------------------------------------------------------------------
(* The invariant holds initially and every step keeps it. *)

\* A slot whose text, memory and source a step leaves alone stays as it was,
\* provided that someone is still to come to it.
LEMMA SlotKept ==
    ASSUME NEW s \in Slots, SlotInv(s),
           shown'[s] = shown[s], memo'[s] = memo[s], inserted'[s] = inserted[s],
           language' = language \/ memo[s] = NoMemo,
           Present(s) /\ s \notin Skipped /\ Raw(s) /\ Awaited(s) => Awaited(s)',
           s \in echo' => s \in echo,
           s \in echo' /\ s \notin dirty' => s \notin dirty \/ Settled(s)
    PROVE  SlotInv(s)'
<1>1. MemoInv(s)'
    BY DEF SlotInv, MemoInv, Output
<1>2. (Settled(s) => Settled(s)') /\ (Raw(s) => Raw(s)')
    BY DEF Settled, Raw
<1>. QED BY <1>1, <1>2 DEF SlotInv, Present

\* A pass of apply over S, with the records of what it wrote added.
LEMMA ApplyKeeps ==
    ASSUME IInv, NEW S \in SUBSET Slots, NEW force \in BOOLEAN, NEW lang \in supportedLanguages,
           apply(S, force, lang), language' = lang, force \/ lang = language, inserted' = inserted,
           S = Slots \/ lang = language,
           NEW s \in Slots,
           s \notin S => s \notin dirty /\ s \notin echo /\ (phase = "loading" => phase' = "loading"),
           s \in echo' => s \in echo \/ (s \in S /\ Rewrites(s, force, lang))
    PROVE  SlotInv(s)'
<1>0. SlotInv(s)
    BY DEF IInv
<1>1. CASE s \in S /\ Present(s) /\ s \notin Skipped
    <2>1. /\ \/ Settled(s)'
             \/ s \in TextNodes /\ inserted[s] \in Blank /\ Raw(s)'
          /\ MemoInv(s)' /\ shown'[s] \in Texts
        BY <1>1, ApplySettles
    <2>2. Present(s)'
        BY <2>1, TextsAssumption DEF Present
    <2>3. s \in TextNodes /\ inserted[s] \in Blank => s \notin echo'
        <3>. SUFFICES ASSUME s \in TextNodes, inserted[s] \in Blank, s \in echo'
                      PROVE  FALSE
            OBVIOUS
        <3>1. ~Touches(s, force)
            BY <1>1, SourceIsInserted
        <3>2. s \in echo
            BY <3>1 DEF Rewrites
        <3>3. Settled(s) /\ memo[s] # NoMemo
            BY <1>0, <1>1, <3>2, TextsAssumption DEF SlotInv, Settled, NoMemo
        <3>. QED BY <1>0, <3>3 DEF SlotInv, MemoInv, Settled
    <2>. QED BY <1>0, <1>1, <2>1, <2>2, <2>3 DEF SlotInv, Awaited, Present
<1>2. CASE ~(s \in S /\ Present(s) /\ s \notin Skipped)
    <2>1. shown'[s] = shown[s] /\ memo'[s] = memo[s]
        BY <1>2, ApplyLeaves DEF Touches
    <2>. QED BY <1>0, <1>2, <2>1, SlotKept DEF SlotInv, Awaited, Rewrites, Touches
<1>. QED BY <1>1, <1>2

\* An empty document meets the invariant.
LEMMA InitInv == Init => IInv
<1>. SUFFICES ASSUME Init PROVE IInv
    OBVIOUS
<1>1. TypeOK
    BY BoundAssumption DEF Init, TypeOK, readLanguage, supportedLanguages, Memos, NoMemo
<1>2. ASSUME NEW s \in Slots PROVE SlotInv(s)
    <2>1. shown[s] = Absent /\ memo[s] = NoMemo /\ inserted[s] = Absent /\ s \notin echo
        BY DEF Init
    <2>. QED BY <2>1 DEF SlotInv, MemoInv, Present
<1>. QED BY <1>1, <1>2 DEF IInv

\* init passes over the whole document in the language read at the start.
LEMMA InitStep == IInv /\ init => IInv'
<1>. SUFFICES ASSUME IInv, init PROVE IInv'
    OBVIOUS
<1>1. /\ phase = "loading" /\ phase' = "ready" /\ apply(Slots, FALSE, language) /\ pressed' = language
      /\ language' = language /\ stored' = stored /\ dirty' = dirty /\ echo' = echo /\ writes' = writes
      /\ inserted' = inserted /\ asked' = asked
    BY DEF init, updateControls, history
<1>2. language \in supportedLanguages
    BY DEF IInv, TypeOK
<1>3. shown' \in [Slots -> Texts \cup {Absent}] /\ memo' \in [Slots -> Memos]
    BY <1>1, <1>2, ApplyTypes
<1>4. TypeOK'
    BY <1>1, <1>2, <1>3 DEF IInv, TypeOK
<1>5. ASSUME NEW s \in Slots PROVE SlotInv(s)'
    BY <1>1, <1>2, ApplyKeeps
<1>. QED BY <1>4, <1>5 DEF IInv

\* setLanguage passes over it in the new language, and by force.
LEMMA SetLanguageStep ==
    ASSUME IInv, NEW next \in supportedLanguages, NEW saved \in BOOLEAN, setLanguage(next, saved)
    PROVE  IInv'
<1>1. /\ phase = "ready" /\ phase' = "ready" /\ apply(Slots, TRUE, next) /\ pressed' = next
      /\ language' = next /\ dirty' = dirty /\ writes' = writes
      /\ echo' = echo \cup {s \in Slots : Rewrites(s, TRUE, next)}
      /\ inserted' = inserted /\ asked' = asked
    BY DEF setLanguage, updateControls, history
<1>2. stored' \in supportedLanguages \cup {"none", "other"}
    BY DEF setLanguage, IInv, TypeOK
<1>3. shown' \in [Slots -> Texts \cup {Absent}] /\ memo' \in [Slots -> Memos]
    BY <1>1, ApplyTypes
<1>4. TypeOK'
    BY <1>1, <1>2, <1>3 DEF IInv, TypeOK
<1>5. ASSUME NEW s \in Slots PROVE SlotInv(s)'
    BY <1>1, ApplyKeeps
<1>. QED BY <1>4, <1>5 DEF IInv

\* The observer passes over the slots that have records.
LEMMA DeliverStep == IInv /\ Deliver => IInv'
<1>. SUFFICES ASSUME IInv, Deliver PROVE IInv'
    OBVIOUS
<1>1. /\ apply(Observed, FALSE, language) /\ dirty' = {} /\ echo' = {s \in Observed : Rewrites(s, FALSE, language)}
      /\ phase' = phase /\ language' = language /\ stored' = stored /\ pressed' = pressed /\ writes' = writes
      /\ inserted' = inserted /\ asked' = asked
    BY DEF Deliver, history
<1>2. Observed \in SUBSET Slots /\ language \in supportedLanguages /\ phase = "ready"
    BY DEF IInv, TypeOK, Observed, Deliver
<1>3. shown' \in [Slots -> Texts \cup {Absent}] /\ memo' \in [Slots -> Memos]
    BY <1>1, <1>2, ApplyTypes
<1>4. TypeOK'
    BY <1>1, <1>2, <1>3 DEF IInv, TypeOK
<1>5. ASSUME NEW s \in Slots PROVE SlotInv(s)'
    BY <1>1, <1>2, ApplyKeeps DEF Observed
<1>. QED BY <1>4, <1>5 DEF IInv

\* What the page puts in is raw until the observer comes, unless it sets an
\* attribute to the text whose translation is already there.
LEMMA WriteStep ==
    ASSUME IInv, NEW s \in Slots, NEW t \in TextsOf[s], Render(s, t) \/ Assign(s, t)
    PROVE  IInv'
<1>1. /\ writes' \in 0 .. MaxWrites /\ dirty' = (IF phase = "ready" THEN dirty \cup {s} ELSE dirty)
      /\ phase' = phase /\ language' = language /\ stored' = stored /\ pressed' = pressed
    BY BoundAssumption DEF Render, Assign, Counted, Noticed, IInv, TypeOK
<1>2. t \in Texts /\ translate(t, language) \in Texts
    BY TextsAssumption DEF translate
<1>3. CASE Render(s, t)
    <2>1. PICK u \in Texts : /\ shown' = [shown EXCEPT ![s] = u] /\ inserted' = [inserted EXCEPT ![s] = u]
                             /\ s \in Assigned => u = t
        <3>. DEFINE u == IF s \in Pretranslated THEN translate(t, language) ELSE t
        <3>1. u \in Texts /\ (s \in Assigned => u = t)
            BY <1>2, SlotsAssumption
        <3>2. inserted' = [inserted EXCEPT ![s] = u]
            BY <1>3 DEF Render
        <3>3. inserted'[s] = u
            BY <3>2 DEF IInv, TypeOK
        <3>4. shown' = [shown EXCEPT ![s] = u]
            BY <1>3, <3>3 DEF Render
        <3>. HIDE DEF u
        <3>. QED BY <3>1, <3>2, <3>4
    <2>2. memo' = [memo EXCEPT ![s] = NoMemo] /\ echo' = echo \ {s}
        BY <1>3 DEF Render
    <2>3. asked' \in [Slots -> Texts \cup {Absent}]
        BY <1>2, <1>3 DEF Render, IInv, TypeOK
    <2>4. TypeOK'
        BY <1>1, <2>1, <2>2, <2>3 DEF IInv, TypeOK, Memos, NoMemo
    <2>5. ASSUME NEW r \in Slots PROVE SlotInv(r)'
        <3>1. CASE r = s
            <4>1. /\ shown'[s] = u /\ inserted'[s] = u /\ memo'[s] = NoMemo /\ s \notin echo'
                BY <2>1, <2>2 DEF IInv, TypeOK
            <4>2. Awaited(s)'
                BY <1>1 DEF Awaited, IInv, TypeOK
            <4>3. Raw(s)' /\ MemoInv(s)'
                BY <4>1, TextsAssumption DEF Raw, MemoInv, NoMemo
            <4>. QED BY <2>1, <3>1, <4>1, <4>2, <4>3, TextsAssumption DEF SlotInv, Present
        <3>2. CASE r # s
            <4>1. SlotInv(r) /\ shown'[r] = shown[r] /\ memo'[r] = memo[r] /\ inserted'[r] = inserted[r]
                BY <2>1, <2>2, <3>2 DEF IInv, TypeOK
            <4>. QED BY <1>1, <2>2, <3>2, <4>1, SlotKept DEF Awaited
        <3>. QED BY <3>1, <3>2
    <2>. QED BY <2>4, <2>5 DEF IInv
<1>4. CASE Assign(s, t)
    <2>1. /\ shown' = [shown EXCEPT ![s] = t] /\ inserted' = [inserted EXCEPT ![s] = t]
          /\ memo' = memo /\ echo' = echo /\ asked' = asked /\ s \in Assigned /\ Present(s)
        BY <1>4 DEF Assign
    <2>2. TypeOK'
        BY <1>1, <1>2, <2>1 DEF IInv, TypeOK
    <2>3. ASSUME NEW r \in Slots PROVE SlotInv(r)'
        <3>1. CASE r = s
            <4>1. shown'[s] = t /\ inserted'[s] = t /\ memo'[s] = memo[s] /\ s \notin TextNodes
                BY <2>1, SlotsAssumption DEF IInv, TypeOK
            <4>2. Awaited(s)' /\ (s \in echo' => s \in dirty')
                BY <1>1, <2>1 DEF Awaited, IInv, TypeOK
            <4>3. MemoInv(s)'
                BY <1>1, <4>1 DEF IInv, SlotInv, MemoInv, Output
            <4>4. Settled(s)' \/ Raw(s)'
                <5>1. CASE memo[s].output # t
                    BY <4>1, <5>1 DEF Raw
                <5>2. CASE memo[s].output = t
                    <6>1. memo[s] # NoMemo
                        BY <1>2, <5>2, TextsAssumption DEF NoMemo
                    <6>2. memo[s].source \in TextsOf[s] /\ t = Output(s, memo[s].source, language)
                        BY <2>1, <5>2, <6>1 DEF IInv, SlotInv, MemoInv
                    <6>3. memo[s].source = t
                        BY <2>1, <4>1, <6>2, UnconfusableAssumption DEF Output
                    <6>. QED BY <4>1, <5>2, <6>3 DEF Settled
                <5>. QED BY <5>1, <5>2
            <4>5. s \in Skipped => memo[s] = NoMemo /\ s \notin echo
                BY DEF IInv, SlotInv
            <4>. QED BY <1>2, <2>1, <3>1, <4>1, <4>2, <4>3, <4>4, <4>5, TextsAssumption DEF SlotInv, Present
        <3>2. CASE r # s
            <4>1. SlotInv(r) /\ shown'[r] = shown[r] /\ memo'[r] = memo[r] /\ inserted'[r] = inserted[r]
                BY <2>1, <3>2 DEF IInv, TypeOK
            <4>. QED BY <1>1, <2>1, <3>2, <4>1, SlotKept DEF Awaited
        <3>. QED BY <3>1, <3>2
    <2>. QED BY <2>2, <2>3 DEF IInv
<1>. QED BY <1>3, <1>4

\* A moved element keeps its memory; a removed one takes it with it.
LEMMA MoveRemoveStep ==
    ASSUME IInv, NEW s \in Slots, Move(s) \/ Remove(s)
    PROVE  IInv'
<1>1. /\ phase' = phase /\ language' = language /\ stored' = stored /\ pressed' = pressed /\ writes' = writes
    BY DEF Move, Remove
<1>2. CASE Move(s)
    <2>1. /\ shown' = shown /\ memo' = memo /\ inserted' = inserted /\ asked' = asked /\ echo' = echo
          /\ dirty' = dirty \cup {s} /\ phase = "ready"
        BY <1>2 DEF Move, Noticed, history
    <2>2. TypeOK'
        BY <1>1, <2>1 DEF IInv, TypeOK
    <2>3. ASSUME NEW r \in Slots PROVE SlotInv(r)'
        BY <1>1, <2>1, SlotKept DEF Awaited, IInv
    <2>. QED BY <2>2, <2>3 DEF IInv
<1>3. CASE Remove(s)
    <2>1. /\ shown' = [shown EXCEPT ![s] = Absent] /\ inserted' = [inserted EXCEPT ![s] = Absent]
          /\ asked' = [asked EXCEPT ![s] = Absent] /\ memo' = [memo EXCEPT ![s] = NoMemo]
          /\ dirty' = dirty \ {s} /\ echo' = echo \ {s}
        BY <1>3 DEF Remove
    <2>2. TypeOK'
        BY <1>1, <2>1 DEF IInv, TypeOK, Memos, NoMemo
    <2>3. ASSUME NEW r \in Slots PROVE SlotInv(r)'
        <3>1. CASE r = s
            <4>1. shown'[s] = Absent /\ inserted'[s] = Absent /\ memo'[s] = NoMemo /\ s \notin echo'
                BY <2>1 DEF IInv, TypeOK
            <4>. QED BY <3>1, <4>1 DEF SlotInv, MemoInv, Present
        <3>2. CASE r # s
            <4>1. SlotInv(r) /\ shown'[r] = shown[r] /\ memo'[r] = memo[r] /\ inserted'[r] = inserted[r]
                BY <2>1, <3>2 DEF IInv, TypeOK
            <4>. QED BY <1>1, <2>1, <3>2, <4>1, SlotKept DEF Awaited
        <3>. QED BY <3>1, <3>2
    <2>. QED BY <2>2, <2>3 DEF IInv
<1>. QED BY <1>2, <1>3

\* A new page starts from an empty document.
LEMMA ReloadStep ==
    ASSUME IInv, NEW readable \in BOOLEAN, Reload(readable)
    PROVE  IInv'
<1>1. TypeOK'
    BY BoundAssumption DEF Reload, Counted, IInv, TypeOK, readLanguage, supportedLanguages, Memos, NoMemo
<1>2. ASSUME NEW s \in Slots PROVE SlotInv(s)'
    <2>1. shown'[s] = Absent /\ memo'[s] = NoMemo /\ inserted'[s] = Absent /\ s \notin echo'
        BY DEF Reload
    <2>. QED BY <2>1 DEF SlotInv, MemoInv, Present
<1>. QED BY <1>1, <1>2 DEF IInv

\* Steps that change nothing on this page.
LEMMA ElsewhereStep ==
    ASSUME IInv, (\E lang \in supportedLanguages : OtherPageSaves(lang)) \/ UNCHANGED vars
    PROVE  IInv'
<1>1. /\ phase' = phase /\ language' = language /\ pressed' = pressed /\ writes' = writes
      /\ shown' = shown /\ memo' = memo /\ dirty' = dirty /\ echo' = echo
      /\ inserted' = inserted /\ asked' = asked
    BY DEF OtherPageSaves, vars, history
<1>2. stored' \in supportedLanguages \cup {"none", "other"}
    BY DEF OtherPageSaves, vars, IInv, TypeOK
<1>3. TypeOK'
    BY <1>1, <1>2 DEF IInv, TypeOK
<1>4. ASSUME NEW s \in Slots PROVE SlotInv(s)'
    BY <1>1, SlotKept DEF Awaited, IInv
<1>. QED BY <1>3, <1>4 DEF IInv

\* Every step of the page and of the localizer keeps the invariant.
LEMMA NextInv == IInv /\ [Next]_vars => IInv'
<1>. SUFFICES ASSUME IInv, [Next]_vars PROVE IInv'
    OBVIOUS
<1>1. CASE init
    BY <1>1, InitStep
<1>2. CASE Deliver
    BY <1>2, DeliverStep
<1>3. CASE \E next \in supportedLanguages, saved \in BOOLEAN : setLanguage(next, saved)
    BY <1>3, SetLanguageStep
<1>4. CASE \E s \in Slots : \E t \in TextsOf[s] : Render(s, t) \/ Assign(s, t)
    BY <1>4, WriteStep
<1>5. CASE \E s \in Slots : Move(s) \/ Remove(s)
    BY <1>5, MoveRemoveStep
<1>6. CASE (\E lang \in supportedLanguages : OtherPageSaves(lang)) \/ UNCHANGED vars
    BY <1>6, ElsewhereStep
<1>7. CASE \E readable \in BOOLEAN : Reload(readable)
    BY <1>7, ReloadStep
<1>. QED BY <1>1, <1>2, <1>3, <1>4, <1>5, <1>6, <1>7 DEF Next

\* The invariant of the localizer holds in every reachable state.
THEOREM Invariance == Spec => []IInv
BY InitInv, NextInv, PTL DEF Spec

-----------------------------------------------------------------------------
(* What follows from it. *)

\* Every variable has its type, and the pressed button is that of the language.
THEOREM TypeCorrect == Spec => []TypeOK
<1>1. IInv => TypeOK
    BY DEF IInv
<1>. QED BY <1>1, Invariance, PTL

\* A slot no one has to come to shows what it is to show.
LEMMA SettledIsExpected ==
    ASSUME IInv, NEW s \in Slots, Present(s), s \in Skipped \/ Settled(s) \/ (Raw(s) /\ s \in TextNodes /\ inserted[s] \in Blank)
    PROVE  shown[s] = Expected(s)
<1>1. inserted[s] \in Texts
    BY DEF IInv, SlotInv
<1>2. CASE s \in Skipped
    BY <1>2 DEF IInv, SlotInv, Expected
<1>3. CASE s \notin Skipped /\ Settled(s)
    <2>1. memo[s] # NoMemo
        BY <1>1, <1>3, TextsAssumption DEF Settled, NoMemo
    <2>. QED BY <1>3, <2>1 DEF IInv, SlotInv, MemoInv, Settled, Expected
<1>4. CASE s \notin Skipped /\ Raw(s) /\ s \in TextNodes /\ inserted[s] \in Blank
    BY <1>1, <1>4, OutputIsText DEF Raw, Expected
<1>. QED BY <1>2, <1>3, <1>4

\* Once the observer is done, every text of the document is the current form of
\* what the page wrote last, whatever the page did and in whatever order.
THEOREM ShownIsTranslatedHolds == Spec => []ShownIsTranslated
<1>1. IInv => ShownIsTranslated
    <2>. SUFFICES ASSUME IInv, Quiet, NEW s \in Slots, Present(s)
                  PROVE  shown[s] = Expected(s)
        BY DEF ShownIsTranslated
    <2>1. s \notin dirty /\ phase = "ready"
        BY DEF Quiet
    <2>2. s \in Skipped \/ Settled(s) \/ (Raw(s) /\ s \in TextNodes /\ inserted[s] \in Blank)
        BY <2>1 DEF IInv, SlotInv, Awaited
    <2>. QED BY <2>2, SettledIsExpected
<1>. QED BY <1>1, Invariance, PTL

\* The observer never rewrites a text that only the localizer has changed: the
\* two do not chase each other, whatever the dictionary makes of its own words.
THEOREM NoEchoHolds == Spec => NoEcho
<1>1. IInv /\ [Next]_vars => [Deliver => \A s \in echo \ dirty : shown'[s] = shown[s]]_vars
    <2>. SUFFICES ASSUME IInv, Deliver, NEW s \in echo \ dirty
                  PROVE  shown'[s] = shown[s]
        OBVIOUS
    <2>1. s \in Slots /\ apply(Observed, FALSE, language)
        BY DEF IInv, TypeOK, Deliver
    <2>2. Unchanged(s)
        BY <2>1 DEF IInv, SlotInv, Settled, Unchanged
    <2>3. ~Touches(s, FALSE)
        BY <2>2 DEF Touches
    <2>. QED BY <2>1, <2>3, ApplyLeaves
<1>. QED BY <1>1, Invariance, PTL DEF Spec, NoEcho

\* A change of language reaches every slot in that very step, whatever records
\* are pending, and turns the page back into what was written.
THEOREM SwitchIsCompleteHolds == Spec => SwitchIsComplete
<1>. DEFINE Switched == (phase = "ready" /\ language' # language /\ phase' = "ready")
                            => \A s \in Slots : Present(s) => shown'[s] = Expected(s)'
<1>1. IInv /\ [Next]_vars => [Switched]_vars
    <2>. SUFFICES ASSUME IInv, Next, phase = "ready", language' # language, phase' = "ready",
                         NEW s \in Slots, Present(s)
                  PROVE  shown'[s] = Expected(s)'
        OBVIOUS
    <2>1. PICK next \in supportedLanguages, saved \in BOOLEAN : setLanguage(next, saved)
        BY DEF Next, init, Deliver, Render, Assign, Move, Remove, OtherPageSaves, Reload
    <2>2. apply(Slots, TRUE, next) /\ language' = next /\ inserted' = inserted
        BY <2>1 DEF setLanguage, history
    <2>3. CASE s \in Skipped
        <3>1. shown'[s] = shown[s] /\ shown[s] = inserted[s]
            BY <2>2, <2>3, ApplyLeaves DEF Touches, IInv, SlotInv
        <3>. QED BY <2>2, <2>3, <3>1 DEF Expected
    <2>4. CASE s \notin Skipped
        BY <2>2, <2>4, ApplySettles DEF Expected, Output
    <2>. QED BY <2>3, <2>4
<1>. QED BY <1>1, Invariance, PTL DEF Spec, SwitchIsComplete

\* What the page had translated for a slot is what it put there.
AskedInv ==
    \A s \in Slots : asked[s] # Absent =>
        s \in Pretranslated /\ asked[s] \in TextsOf[s] /\ inserted[s] = Translation[asked[s]]

\* Only Render asks for a translation, and it inserts the answer.
LEMMA AskedStep == TypeOK /\ AskedInv /\ [Next]_vars => AskedInv'
<1>. SUFFICES ASSUME TypeOK, AskedInv, [Next]_vars, NEW s \in Slots, asked'[s] # Absent
              PROVE  s \in Pretranslated /\ asked'[s] \in TextsOf[s] /\ inserted'[s] = Translation[asked'[s]]
    BY DEF AskedInv
<1>1. CASE \E r \in Slots : \E t \in TextsOf[r] : Render(r, t)
    <2>1. PICK r \in Slots : \E t \in TextsOf[r] : Render(r, t)
        BY <1>1
    <2>. PICK t \in TextsOf[r] : Render(r, t)
        BY <2>1
    <2>2. CASE r = s
        <3>1. /\ inserted'[s] = IF s \in Pretranslated THEN translate(t, language) ELSE t
              /\ asked'[s] = IF s \in Pretranslated /\ language = "ru" THEN t ELSE Absent
            BY <2>1, <2>2 DEF Render, TypeOK
        <3>. QED BY <2>1, <2>2, <3>1 DEF translate
    <2>3. CASE r # s
        <3>1. inserted'[s] = inserted[s] /\ asked'[s] = asked[s]
            BY <2>1, <2>3 DEF Render, TypeOK
        <3>. QED BY <3>1 DEF AskedInv
    <2>. QED BY <2>2, <2>3
<1>2. CASE \E r \in Slots : \E t \in TextsOf[r] : Assign(r, t)
    <2>1. PICK r \in Slots : \E t \in TextsOf[r] : Assign(r, t)
        BY <1>2
    <2>. PICK t \in TextsOf[r] : Assign(r, t)
        BY <2>1
    <2>2. asked' = asked /\ r \in Assigned /\ r # s
        BY <2>1, SlotsAssumption DEF Assign, AskedInv
    <2>. QED BY <2>1, <2>2 DEF Assign, AskedInv, TypeOK
<1>3. CASE \E r \in Slots : Remove(r)
    BY <1>3 DEF Remove, AskedInv, TypeOK
<1>4. CASE \E readable \in BOOLEAN : Reload(readable)
    BY <1>4 DEF Reload
<1>5. CASE inserted' = inserted /\ asked' = asked
    BY <1>5 DEF AskedInv
<1>6. \/ inserted' = inserted /\ asked' = asked
      \/ \E r \in Slots : \E t \in TextsOf[r] : Render(r, t) \/ Assign(r, t)
      \/ \E r \in Slots : Remove(r)
      \/ \E readable \in BOOLEAN : Reload(readable)
    BY DEF Next, init, Deliver, setLanguage, Move, OtherPageSaves, vars, history
<1>. QED BY <1>1, <1>2, <1>3, <1>4, <1>5, <1>6

\* Where the Russian of a text the page translates itself is left alone by a
\* second translation, the second translation the observer makes does no harm.
\* The run localization checks the premise on the dictionary's own entries.
THEOREM TranslatedOnceOrTwiceHolds ==
    ASSUME \A s \in Pretranslated : \A t \in TextsOf[s] : Output(s, Translation[t], "ru") = Translation[t]
    PROVE  Spec => []TranslatedOnceOrTwice
<1>1. Init => AskedInv
    BY DEF Init, AskedInv
<1>2. IInv /\ ShownIsTranslated /\ AskedInv => TranslatedOnceOrTwice
    BY DEF ShownIsTranslated, Expected, AskedInv, TranslatedOnceOrTwice
<1>. QED BY <1>1, <1>2, AskedStep, TypeCorrect, Invariance, ShownIsTranslatedHolds, PTL DEF Spec
=============================================================================

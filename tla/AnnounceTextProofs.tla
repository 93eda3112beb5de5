------------------------- MODULE AnnounceTextProofs -------------------------
(***************************************************************************)
(* Proofs about the operator's text in the announce: that it stays first   *)
(* and whole, how many status lines may follow it, and what is adopted.    *)
(***************************************************************************)
EXTENDS AnnounceProofs

\* The lines the checker can write, and all lines.
StatusLine == SUBSET [rule : Rules, labels : SUBSET Locations]
Lines == StatusLine \cup UNION {{t[i] : i \in 1..Len(t)} : t \in OpTexts}

\* The first k lines are typed, the others are status lines.
SplitAt(t, k) ==
    /\ k \in 0..Len(t)
    /\ \A i \in 1..k : ~IsStatus(t[i])
    /\ \A i \in (k + 1)..Len(t) : IsStatus(t[i])

Text(t) == t \in Seq(Lines) /\ SplitAt(t, TypedLen(t))

\* A base carries at most the n status lines the operator adopted, or is one line
\* that the checker did not recognize.
GoodBase(b, n) == Text(b) /\ (Untyped(b) <= n \/ Len(b) = 1)
GoodText(t, n) == Text(t) /\ (Untyped(t) <= n + 1 \/ Len(t) <= 2)

GoodOwner(r, n) == r.message \in StatusLine /\ GoodBase(r.base, n) /\ GoodBase(r.restored, n)

\* The ownership that counts: the one a pass is about to save.
Effective == IF pass.phase = "persist" THEN pass.after ELSE runtime

TextsGood ==
    /\ GoodText(remote.text, given) /\ own = Typed(remote.text) /\ given \in Nat
    /\ Text(topology.squad.text)
    /\ Text(config.base) /\ Untyped(config.base) <= given
    /\ GoodOwner(runtime, given) /\ GoodOwner(file, given)

PassGood ==
    pass.phase # None =>
        /\ Text(pass.seen.text) /\ Text(pass.text)
        /\ GoodOwner(pass.after, given) /\ GoodOwner(pass.before, given)

\* What a pass is about to write keeps what was typed in the text it has seen,
\* unless the operator adopted a shorter text.
WriteKeeps ==
    pass.phase = "write" =>
        /\ ~pass.adopted => Typed(BaseOf(pass.after)) = Typed(pass.seen.text)
        /\ ~lost => Untyped(BaseOf(pass.after)) <= given

\* The status lines of the text in the panel, by who wrote it.
LinesCounted ==
    /\ ~lost => Untyped(remote.text) <= given + 1
    /\ author = "checker" /\ ~lost /\ ~Effective.managed => Untyped(remote.text) <= given
    /\ author = "operator" /\ ~remote.dup =>
          remote.text = own \/ (own # <<>> /\ Len(remote.text) = Len(own) + 1)
    /\ author \in {"operator", "checker"}

\* The inductive invariant, beside AnnounceInv.
TextInv == TextsGood /\ PassGood /\ WriteKeeps /\ LinesCounted

-----------------------------------------------------------------------------
(* Texts. *)

\* A text splits at one place only, which is where TypedLen finds it.
LEMMA TypedIs ==
    ASSUME NEW t \in Seq(Lines), NEW k, SplitAt(t, k)
    PROVE  TypedLen(t) = k /\ Text(t) /\ Typed(t) = SubSeq(t, 1, k) /\ Untyped(t) = Len(t) - k
<1> DEFINE P(n) == /\ \A i \in 1..n : ~IsStatus(t[i])
                   /\ n < Len(t) => IsStatus(t[n + 1])
<1>1. Len(t) \in Nat /\ k \in 0..Len(t)
    BY DEF SplitAt
<1>2. P(k)
    BY <1>1 DEF SplitAt
<1>3. ASSUME NEW n \in 0..Len(t), P(n) PROVE n = k
  <2>1. ~(n < k)
      BY <1>1, <1>3 DEF SplitAt
  <2>2. ~(k < n)
      BY <1>1, <1>3 DEF SplitAt
  <2> QED BY <1>1, <2>1, <2>2
<1>4. TypedLen(t) = CHOOSE n \in 0..Len(t) : P(n)
    BY DEF TypedLen
<1> HIDE DEF P
<1>5. TypedLen(t) = k
    BY <1>1, <1>2, <1>3, <1>4
<1> QED BY <1>5 DEF Text, Typed, Untyped

\* A text by its parts.
LEMMA TextFacts ==
    ASSUME NEW t, Text(t)
    PROVE  /\ t \in Seq(Lines) /\ SplitAt(t, TypedLen(t)) /\ TypedLen(t) \in 0..Len(t) /\ Len(t) \in Nat
           /\ Untyped(t) \in Nat /\ Untyped(t) = Len(t) - TypedLen(t)
           /\ Typed(t) = SubSeq(t, 1, TypedLen(t)) /\ Len(Typed(t)) = TypedLen(t)
           /\ Typed(t) \in Seq(Lines)
           /\ Len(t) = Len(Typed(t)) + Untyped(t)
<1>1. t \in Seq(Lines) /\ SplitAt(t, TypedLen(t)) /\ TypedLen(t) \in 0..Len(t) /\ Len(t) \in Nat
    BY DEF Text, SplitAt
<1>2. Untyped(t) \in Nat /\ Untyped(t) = Len(t) - TypedLen(t)
    BY <1>1 DEF Untyped
<1>3. /\ Typed(t) = SubSeq(t, 1, TypedLen(t)) /\ Len(Typed(t)) = TypedLen(t)
      /\ Typed(t) \in Seq(Lines)
    BY <1>1 DEF Typed
<1> QED BY <1>1, <1>2, <1>3

\* No header.
LEMMA EmptyText == Text(<<>>) /\ Typed(<<>>) = <<>> /\ Untyped(<<>>) = 0
<1>1. <<>> \in Seq(Lines) /\ SplitAt(<<>>, 0)
    BY DEF SplitAt
<1>2. Text(<<>>) /\ Typed(<<>>) = SubSeq(<<>>, 1, 0) /\ Untyped(<<>>) = Len(<<>>) - 0
    BY <1>1, TypedIs
<1> QED BY <1>2

\* What the operator typed has no status line.
LEMMA OperatorText ==
    ASSUME NEW t \in OpTexts \cup {<<>>}
    PROVE  Text(t) /\ Typed(t) = t /\ Untyped(t) = 0
<1>1. CASE t = <<>>
    BY <1>1, EmptyText
<1>2. CASE t \in OpTexts
  <2>1. t \in Seq({t[i] : i \in 1..Len(t)})
      BY <1>2, TextsAssumption
  <2>2. t \in Seq(Lines)
    <3>1. {t[i] : i \in 1..Len(t)} \subseteq Lines
        BY <1>2 DEF Lines
    <3> QED BY <2>1, <3>1
  <2>3. \A i \in 1..Len(t) : ~IsStatus(t[i])
    <3>1. \A i \in 1..Len(t) : t[i] # {} /\ \A p \in t[i] : p.rule \in {"text", "plain"}
        BY <1>2, TextsAssumption
    <3> QED BY <3>1 DEF IsStatus, Rules
  <2>4. SplitAt(t, Len(t))
      BY <2>2, <2>3 DEF SplitAt
  <2>5. Text(t) /\ Typed(t) = SubSeq(t, 1, Len(t)) /\ Untyped(t) = Len(t) - Len(t)
      BY <2>2, <2>4, TypedIs
  <2> QED BY <2>2, <2>5
<1> QED BY <1>1, <1>2

\* Every message is a status line.
LEMMA StatusLines == \A m \in StatusLine : IsStatus(m) /\ m \in Lines
BY DEF StatusLine, IsStatus, Lines

\* A status line after a text leaves what was typed.
LEMMA AppendStatus ==
    ASSUME NEW t, Text(t), NEW m \in Lines, IsStatus(m)
    PROVE  LET u == Append(t, m)
           IN /\ Text(u) /\ Typed(u) = Typed(t) /\ Untyped(u) = Untyped(t) + 1
              /\ Len(u) = Len(t) + 1 /\ u # <<>>
<1> DEFINE u == Append(t, m)
           k == TypedLen(t)
<1>1. t \in Seq(Lines) /\ SplitAt(t, k) /\ k \in 0..Len(t) /\ Len(t) \in Nat
    BY TextFacts
<1> HIDE DEF k
<1>2. /\ u \in Seq(Lines) /\ Len(u) = Len(t) + 1 /\ u[Len(t) + 1] = m
      /\ \A i \in 1..Len(t) : u[i] = t[i]
    BY <1>1
<1> HIDE DEF u
<1>3. SplitAt(u, k)
    BY <1>1, <1>2 DEF SplitAt
<1>4. Text(u) /\ Typed(u) = SubSeq(u, 1, k) /\ Untyped(u) = Len(u) - k
    BY <1>2, <1>3, TypedIs
<1>5. SubSeq(u, 1, k) = SubSeq(t, 1, k)
    BY <1>1, <1>2
<1>6. Typed(t) = SubSeq(t, 1, k) /\ Untyped(t) = Len(t) - k
    BY DEF k, Typed, Untyped
<1>7. /\ Text(u) /\ Typed(u) = Typed(t) /\ Untyped(u) = Untyped(t) + 1
      /\ Len(u) = Len(t) + 1 /\ u # <<>>
    BY <1>1, <1>2, <1>4, <1>5, <1>6
<1> QED BY <1>7 DEF u

\* What precedes the last status line.
LEMMA FrontOfStatus ==
    ASSUME NEW t, Text(t), t # <<>>, IsStatus(Last(t))
    PROVE  /\ Text(Front(t)) /\ Typed(Front(t)) = Typed(t) /\ Untyped(t) = Untyped(Front(t)) + 1
           /\ Len(t) = Len(Front(t)) + 1 /\ Last(t) \in Lines
<1> DEFINE u == Front(t)
           k == TypedLen(t)
<1>1. t \in Seq(Lines) /\ SplitAt(t, k) /\ k \in 0..Len(t) /\ Len(t) \in Nat /\ Len(t) # 0
    BY TextFacts
<1> HIDE DEF k
<1>2. Last(t) = t[Len(t)] /\ u = SubSeq(t, 1, Len(t) - 1)
    BY DEF Last, Front
<1>3. k # Len(t)
    BY <1>1, <1>2 DEF SplitAt
<1>4. /\ u \in Seq(Lines) /\ Len(u) = Len(t) - 1
      /\ \A i \in 1..Len(u) : u[i] = t[i]
  <2> DEFINE n == Len(t) - 1
  <2>1. n \in 0..Len(t) /\ u = SubSeq(t, 1, n)
      BY <1>1, <1>2
  <2>2. n = Len(t) - 1
      OBVIOUS
  <2> HIDE DEF n, u
  <2>3. /\ u \in Seq(Lines) /\ Len(u) = n
        /\ \A i \in 1..n : u[i] = t[i]
      BY <1>1, <2>1
  <2> QED BY <2>2, <2>3
<1> HIDE DEF u
<1>5. SplitAt(u, k)
    BY <1>1, <1>3, <1>4 DEF SplitAt
<1>6. Text(u) /\ Typed(u) = SubSeq(u, 1, k) /\ Untyped(u) = Len(u) - k
    BY <1>4, <1>5, TypedIs
<1>7. SubSeq(u, 1, k) = SubSeq(t, 1, k)
    BY <1>1, <1>3, <1>4
<1>8. Typed(t) = SubSeq(t, 1, k) /\ Untyped(t) = Len(t) - k
    BY DEF k, Typed, Untyped
<1>9. Last(t) \in Lines
    BY <1>1, <1>2
<1> QED BY <1>1, <1>4, <1>6, <1>7, <1>8, <1>9 DEF u

\* A message, if there is one, is written after the base.
LEMMA Composed ==
    ASSUME NEW b, Text(b), NEW m \in StatusLine
    PROVE  LET t == composeManagedAnnounce(b, m)
           IN /\ Text(t) /\ Typed(t) = Typed(b)
              /\ m = {} => t = b
              /\ m # {} => /\ Untyped(t) = Untyped(b) + 1 /\ Len(t) = Len(b) + 1
                           /\ t # <<>> /\ t = Append(b, m)
<1>1. CASE m = {}
    BY <1>1 DEF composeManagedAnnounce
<1>2. CASE m # {}
  <2>1. composeManagedAnnounce(b, m) = Append(b, m)
      BY <1>2 DEF composeManagedAnnounce
  <2>2. IsStatus(m) /\ m \in Lines
      BY StatusLines
  <2>3. LET u == Append(b, m)
        IN /\ Text(u) /\ Typed(u) = Typed(b) /\ Untyped(u) = Untyped(b) + 1
           /\ Len(u) = Len(b) + 1 /\ u # <<>>
      BY <2>2, AppendStatus
  <2> QED BY <1>2, <2>1, <2>3
<1> QED BY <1>1, <1>2

\* What computeDesiredAnnouncements renders are status lines.
LEMMA DesiredStatus == Desired.message \in StatusLine /\ Desired.healthy \in StatusLine
<1> DEFINE state == evaluateLocations(cond)
           d == computeDesired(runtime, state)
<1>1. Desired = d
    BY DesiredIs
<1>2. \A rule \in Rules : \A S \in SUBSET Locations : Part(rule, S) \in StatusLine
    BY DEF Part, StatusLine
<1>3. \A x, y \in StatusLine : x \cup y \in StatusLine
    BY DEF StatusLine
<1>4. {} \in StatusLine
    BY DEF StatusLine
<1>5. DOMAIN state \subseteq Locations
    BY DEF evaluateLocations
<1> HIDE DEF state
<1>6. \A s : Announced(runtime, state, s) \in SUBSET Locations
    BY <1>5 DEF Announced
<1>7. \A one, many \in Rules : \A S \in SUBSET Locations : OneOrMany(one, many, S) \in StatusLine
    BY <1>2, <1>4 DEF OneOrMany
<1>8. healthyMessage \in StatusLine
    BY <1>2 DEF healthyMessage, Rules
<1>9. ASSUME NEW down \in SUBSET Locations, NEW partial \in SUBSET Locations, NEW maint \in SUBSET Locations
      PROVE  Message(runtime, state, down, partial, maint) \in StatusLine
  <2>1. outageMessage(down, DOMAIN state) \in StatusLine
      BY <1>2, <1>7 DEF outageMessage, Rules
  <2>2. maintenanceMessage(maint) \in StatusLine /\ partialAvailabilityMessage(partial) \in StatusLine
      BY <1>7 DEF maintenanceMessage, partialAvailabilityMessage, Rules
  <2> HIDE DEF StatusLine
  <2> QED BY <1>3, <1>4, <1>8, <2>1, <2>2, Zenon DEF Message
<1>10. CASE ~config.on \/ DOMAIN state = {}
  <2>1. d = Nothing
      BY <1>10 DEF computeDesired
  <2> QED BY <1>1, <1>4, <2>1 DEF Nothing
<1>11. CASE ~(~config.on \/ DOMAIN state = {})
  <2>1. /\ d.message = Message(runtime, state, Announced(runtime, state, "down"),
                               Announced(runtime, state, "partial"), Announced(runtime, state, "paused"))
        /\ d.healthy = healthyMessage
      BY <1>11 DEF computeDesired
  <2> QED BY <1>1, <1>6, <1>8, <1>9, <2>1
<1> QED BY <1>10, <1>11

\* The base of a text that ends in a known status line.
LEMMA KnownBaseText ==
    ASSUME NEW t, Text(t), NEW m \in StatusLine, NEW b \in KnownBase(t, m)
    PROVE  Text(b) /\ Typed(b) = Typed(t) /\ Untyped(t) = Untyped(b) + 1 /\ Len(t) = Len(b) + 1
<1>1. t # <<>> /\ Last(t) = m /\ IsStatus(Last(t))
    BY StatusLines DEF KnownBase
<1>2. /\ Text(Front(t)) /\ Typed(Front(t)) = Typed(t) /\ Untyped(t) = Untyped(Front(t)) + 1
      /\ Len(t) = Len(Front(t)) + 1
    BY <1>1, FrontOfStatus
<1>3. CASE Len(t) = 1
  <2>1. b = <<>>
      BY <1>1, <1>3 DEF KnownBase
  <2>2. Front(t) \in Seq(Lines) /\ Len(Front(t)) \in Nat
      BY <1>2, TextFacts
  <2>3. \A n \in Nat : 1 = n + 1 => n = 0
      OBVIOUS
  <2>4. Len(Front(t)) = 0
      BY <1>2, <1>3, <2>2, <2>3, Zenon
  <2> DEFINE u == Front(t)
  <2>5. u \in Seq(Lines) /\ Len(u) = 0
      BY <2>2, <2>4
  <2> HIDE DEF u
  <2>6. u = <<>>
      BY <2>5
  <2> QED BY <1>2, <2>1, <2>6 DEF u
<1>4. CASE Len(t) # 1
  <2>1. b = Front(t)
      BY <1>1, <1>4 DEF KnownBase
  <2> QED BY <1>2, <2>1
<1> QED BY <1>3, <1>4

\* The base a pass finds has what was typed in the text it has read, unless the
\* operator adopted another, and no status lines but those he adopted, unless
\* what was written to the panel was lost.
LEMMA BaseText ==
    ASSUME AnnounceInv, TextInv, Idle, ~remote.dup, ~ChangedOutside(remote),
           NEW b \in Bases(remote, Desired)
    PROVE  /\ GoodBase(b, given)
           /\ ~Adopts(remote) => Typed(b) = Typed(remote.text)
           /\ ~lost => Untyped(b) <= given
<1> DEFINE t == remote.text
<1>1. /\ Text(t) /\ given \in Nat /\ own = Typed(t)
      /\ Untyped(t) <= given + 1 \/ Len(t) <= 2
      /\ ~lost => Untyped(t) <= given + 1
    BY DEF TextInv, TextsGood, GoodText, LinesCounted
<1>2. /\ Untyped(t) \in Nat /\ Len(t) \in Nat /\ t \in Seq(Lines)
      /\ Len(t) = Len(own) + Untyped(t) /\ own \in Seq(Lines)
    BY <1>1, TextFacts
<1>3. GoodBase(<<>>, given) /\ Untyped(<<>>) <= given /\ Typed(<<>>) = <<>>
    BY <1>1, EmptyText DEF GoodBase
<1>4. GoodBase(config.base, given) /\ Untyped(config.base) <= given
    BY DEF TextInv, TextsGood, GoodBase
<1>5. GoodOwner(runtime, given) /\ Valid(runtime)
    BY DEF TextInv, TextsGood, AnnounceInv, OwnersValid
<1>6. runtime.managed \in BOOLEAN
    BY <1>5 DEF Valid, Owner
<1>7. author = "checker" /\ ~lost => t = Shown(runtime)
    BY DEF AnnounceInv, WriterKnows, Known, Idle, None
<1>8. /\ author = "checker" /\ ~lost /\ ~runtime.managed => Untyped(t) <= given
      /\ author = "operator" => t = own \/ (own # <<>> /\ Len(t) = Len(own) + 1)
      /\ author \in {"operator", "checker"}
    BY DEF TextInv, LinesCounted, Effective, Idle, None
<1>9. CASE runtime.managed
  <2>1. b = runtime.base /\ t = composeManagedAnnounce(b, runtime.message) /\ runtime.message # {}
      BY <1>5, <1>9 DEF Bases, ChangedOutside, Value, Valid
  <2>2. GoodBase(b, given) /\ runtime.message \in StatusLine
      BY <1>5, <2>1 DEF GoodOwner
  <2>3. Text(b) /\ Untyped(b) \in Nat
      BY <2>2, TextFacts DEF GoodBase
  <2>4. Typed(t) = Typed(b) /\ Untyped(t) = Untyped(b) + 1
      BY <2>1, <2>2, <2>3, Composed
  <2> QED BY <1>1, <2>2, <2>3, <2>4
<1>10. CASE ~runtime.managed
  <2>1. b \in ForeignBase(remote, Desired)
      BY <1>10 DEF Bases
  <2>2. CASE t = <<>>
      BY <1>3, <2>1, <2>2 DEF ForeignBase
  <2>3. CASE t # <<>> /\ config.base # <<>> /\ IsPrefix(config.base, t)
    <3>1. b = config.base /\ Adopts(remote)
        BY <1>10, <2>1, <2>3 DEF ForeignBase, Adopts
    <3> QED BY <1>4, <3>1
  <2>4. CASE /\ t # <<>> /\ ~(config.base # <<>> /\ IsPrefix(config.base, t)) /\ Remembered(remote) # <<>>
    <3>1. b = t
        BY <2>1, <2>4 DEF ForeignBase
    <3>2. t = runtime.restored
        BY <2>4 DEF Remembered
    <3>3. GoodBase(t, given)
        BY <1>5, <3>2 DEF GoodOwner
    <3>4. ~lost => Untyped(t) <= given
      <4>1. CASE author = "checker"
          BY <1>8, <1>10, <4>1
      <4>2. CASE author = "operator"
        <5>1. t = own \/ (own # <<>> /\ Len(t) = Len(own) + 1)
            BY <1>8, <4>2
        <5>2. CASE t = own
            BY <1>1, <1>2, <5>2
        <5>3. CASE own # <<>>
          <6>1. Len(own) \in Nat /\ Len(own) # 0
              BY <1>2, <5>3
          <6> QED BY <1>1, <1>2, <3>3, <5>1, <5>2, <6>1 DEF GoodBase
        <5> QED BY <5>1, <5>2, <5>3
      <4> QED BY <1>8, <4>1, <4>2
    <3> QED BY <3>1, <3>3, <3>4
  <2>5. CASE /\ t # <<>> /\ ~(config.base # <<>> /\ IsPrefix(config.base, t)) /\ Remembered(remote) = <<>>
             /\ splitKnownManagedAnnounce(t, Desired.message, Desired.healthy) # {}
    <3>1. b \in splitKnownManagedAnnounce(t, Desired.message, Desired.healthy)
        BY <2>1, <2>5 DEF ForeignBase
    <3>2. PICK m \in StatusLine : b \in KnownBase(t, m)
        BY <3>1, DesiredStatus DEF splitKnownManagedAnnounce
    <3>3. Text(b) /\ Typed(b) = Typed(t) /\ Untyped(t) = Untyped(b) + 1 /\ Len(t) = Len(b) + 1
        BY <1>1, <3>2, KnownBaseText
    <3>4. Untyped(b) \in Nat /\ Len(b) \in Nat /\ Untyped(b) <= Len(b)
        BY <3>3, TextFacts
    <3> DEFINE x == Untyped(b)  y == Untyped(t)  v == Len(b)  w == Len(t)
    <3>5. y = x + 1 /\ w = v + 1 /\ x \in Nat /\ v \in Nat /\ x <= v /\ given \in Nat
        BY <1>1, <3>3, <3>4
    <3>6. (y <= given + 1 \/ w <= 2) /\ (~lost => y <= given + 1)
        BY <1>1
    <3> HIDE DEF x, y, v, w
    <3>7. (x <= given \/ v = 1) /\ (~lost => x <= given)
        BY <3>5, <3>6
    <3> QED BY <3>3, <3>7 DEF GoodBase, x, v
  <2>6. CASE /\ t # <<>> /\ ~(config.base # <<>> /\ IsPrefix(config.base, t)) /\ Remembered(remote) = <<>>
             /\ splitKnownManagedAnnounce(t, Desired.message, Desired.healthy) = {}
    <3>1. b = t /\ Len(t) = 1
        BY <2>1, <2>6 DEF ForeignBase, isAppendableBaseAnnounce
    <3>2. GoodBase(t, given)
        BY <1>1, <3>1 DEF GoodBase
    <3>3. ~lost => Untyped(t) <= given
      <4>1. CASE author = "checker"
          BY <1>8, <1>10, <4>1
      <4>2. CASE author = "operator"
        <5>1. own # <<>> \/ t = own
            BY <1>8, <4>2
        <5>2. Len(own) \in Nat /\ Len(own) # 0
            BY <1>2, <2>6, <5>1
        <5> QED BY <1>1, <1>2, <3>1, <5>2
      <4> QED BY <1>8, <4>1, <4>2
    <3> QED BY <3>1, <3>2, <3>3
  <2> QED BY <2>2, <2>3, <2>4, <2>5, <2>6
<1> QED BY <1>6, <1>9, <1>10

-----------------------------------------------------------------------------
(* What a pass decides. *)

\* The ownerships a pass can leave.
LEMMA OwnersGood ==
    ASSUME GoodOwner(runtime, given), Valid(runtime), given \in Nat, NEW b, GoodBase(b, given)
    PROVE  /\ GoodOwner(Withdrawn(b), given) /\ BaseOf(Withdrawn(b)) = b /\ ~Withdrawn(b).managed
           /\ GoodOwner(Owning(b, Desired), given) /\ BaseOf(Owning(b, Desired)) = b
           /\ Owning(b, Desired).managed
           /\ GoodOwner([Unmanaged EXCEPT !.restored = Remembered(remote)], given)
           /\ GoodOwner([runtime EXCEPT !.restored = Remembered(remote)], given)
<1>1. GoodBase(<<>>, given)
    BY EmptyText DEF GoodBase
<1>2. {} \in StatusLine
    BY DEF StatusLine
<1>3. /\ Owner(Unmanaged) /\ ~Unmanaged.managed /\ Unmanaged.message = {} /\ Unmanaged.base = <<>>
    BY DEF Owner, Unmanaged
<1>4. ASSUME NEW x, GoodBase(x, given)
      PROVE  /\ GoodOwner([Unmanaged EXCEPT !.restored = x], given)
             /\ GoodOwner([runtime EXCEPT !.restored = x], given)
             /\ ~[Unmanaged EXCEPT !.restored = x].managed /\ [Unmanaged EXCEPT !.restored = x].restored = x
  <2>1. /\ [Unmanaged EXCEPT !.restored = x].message = Unmanaged.message
        /\ [Unmanaged EXCEPT !.restored = x].base = Unmanaged.base
        /\ [Unmanaged EXCEPT !.restored = x].restored = x
        /\ [Unmanaged EXCEPT !.restored = x].managed = Unmanaged.managed
      BY <1>3, RestoredFacts
  <2>2. /\ [runtime EXCEPT !.restored = x].message = runtime.message
        /\ [runtime EXCEPT !.restored = x].base = runtime.base
        /\ [runtime EXCEPT !.restored = x].restored = x
      BY RestoredFacts DEF Valid
  <2> QED BY <1>1, <1>2, <1>3, <1>4, <2>1, <2>2 DEF GoodOwner
<1>5. GoodOwner(Withdrawn(b), given) /\ BaseOf(Withdrawn(b)) = b /\ ~Withdrawn(b).managed
    BY <1>4 DEF Withdrawn, BaseOf
<1>6. /\ GoodOwner(Owning(b, Desired), given) /\ BaseOf(Owning(b, Desired)) = b
      /\ Owning(b, Desired).managed
  <2>1. /\ Owning(b, Desired).managed /\ Owning(b, Desired).base = b
        /\ Owning(b, Desired).message = Desired.message /\ Owning(b, Desired).restored = <<>>
      BY DEF Owning
  <2> QED BY <1>1, <2>1, DesiredStatus DEF GoodOwner, BaseOf
<1>7. GoodBase(Remembered(remote), given)
    BY <1>1 DEF Remembered, GoodOwner
<1>8. /\ GoodOwner([Unmanaged EXCEPT !.restored = Remembered(remote)], given)
      /\ GoodOwner([runtime EXCEPT !.restored = Remembered(remote)], given)
    BY <1>4, <1>7
<1> QED BY <1>5, <1>6, <1>8

\* Replace keeps the line that is there, or writes.
Replaced(q, seen, d, base) ==
    \/ q = Leave(Owning(base, d), d, FALSE)
    \/ /\ q.write /\ q.after = IF d.message = {} THEN Withdrawn(base) ELSE Owning(base, d)
       /\ q.before = [runtime EXCEPT !.restored = Remembered(seen)]
       /\ q.text = composeManagedAnnounce(base, d.message)

\* The two branches of the write.
LEMMA ReplaceIs ==
    ASSUME NEW seen, NEW d, NEW base
    PROVE  Replaced(Replace(seen, d, base), seen, d, base)
<1>1. CASE runtime.managed /\ d.message # {} /\ seen.text = composeManagedAnnounce(base, d.message)
    BY <1>1 DEF Replace, Replaced
<1>2. CASE ~(runtime.managed /\ d.message # {} /\ seen.text = composeManagedAnnounce(base, d.message))
  <2> DEFINE q == Replace(seen, d, base)
  <2>1. /\ q.write /\ q.after = (IF d.message = {} THEN Withdrawn(base) ELSE Owning(base, d))
        /\ q.before = [runtime EXCEPT !.restored = Remembered(seen)]
        /\ q.text = composeManagedAnnounce(base, d.message)
      BY <1>2 DEF Replace
  <2> SUFFICES Replaced(q, seen, d, base)
      OBVIOUS
  <2> HIDE DEF q
  <2> QED BY <2>1 DEF Replaced
<1> QED BY <1>1, <1>2

\* What a decision p does to the text.
TextDecided(p) ==
    /\ Text(p.text) /\ GoodOwner(p.after, given) /\ GoodOwner(p.before, given)
    /\ p.write => /\ ~Adopts(remote) => Typed(BaseOf(p.after)) = Typed(remote.text)
                  /\ ~lost => Untyped(BaseOf(p.after)) <= given
    /\ ~p.write /\ Known(runtime) /\ ~p.after.managed => p.after = runtime

\* reconcileLocked, for the texts.
LEMMA PlanText ==
    ASSUME AnnounceInv, TextInv, Idle
    PROVE  TextDecided(Plan(remote, Desired))
<1> DEFINE p == Plan(remote, Desired)
           d == Desired
           kept == [runtime EXCEPT !.restored = Remembered(remote)]
<1> SUFFICES TextDecided(p)
    OBVIOUS
<1>1. GoodOwner(runtime, given) /\ Valid(runtime) /\ given \in Nat /\ ValidBase(config.base)
    BY DEF TextInv, TextsGood, AnnounceInv, OwnersValid, GroundTyped
<1>2. GoodBase(<<>>, given) /\ Text(<<>>)
    BY <1>1, EmptyText DEF GoodBase
<1>3. /\ GoodOwner([Unmanaged EXCEPT !.restored = Remembered(remote)], given)
      /\ GoodOwner(kept, given)
    BY <1>1, <1>2, OwnersGood
<1>4. Known(runtime) => kept = runtime
    BY <1>1, RememberedFacts DEF Known
<1>5. ASSUME NEW r, NEW blocked, GoodOwner(r, given), p = Leave(r, d, blocked),
             Known(runtime) /\ ~r.managed => r = runtime
      PROVE  TextDecided(p)
  <2> HIDE DEF p
  <2>1. ~p.write /\ p.before = r /\ p.after = r /\ p.text = <<>>
      BY <1>5 DEF Leave
  <2> QED BY <1>2, <1>5, <2>1 DEF TextDecided
<1>6. CASE ~Configured
  <2>1. p = Leave(runtime, d, FALSE)
      BY <1>6 DEF Plan
  <2> HIDE DEF p
  <2> QED BY <1>1, <1>5, <2>1
<1>7. CASE Configured /\ (remote.dup \/ ChangedOutside(remote))
  <2> DEFINE r == [Unmanaged EXCEPT !.restored = Remembered(remote)]
  <2>1. p = Leave(r, d, remote.dup)
      BY <1>7 DEF Plan
  <2>2. ~Known(runtime)
      BY <1>7 DEF ChangedOutside, Known, Shown
  <2> HIDE DEF p
  <2>3. GoodOwner(r, given)
      BY <1>3
  <2> HIDE DEF r
  <2> QED BY <1>5, <2>1, <2>2, <2>3
<1>8. CASE /\ Configured /\ ~(remote.dup \/ ChangedOutside(remote))
           /\ (~runtime.managed /\ d.message = {}) \/ Bases(remote, d) = {}
  <2>1. p = Leave(kept, d, d.message # {})
      BY <1>8 DEF Plan
  <2> HIDE DEF p, kept
  <2> QED BY <1>3, <1>4, <1>5, <2>1
<1>9. CASE /\ Configured /\ ~(remote.dup \/ ChangedOutside(remote))
           /\ ~((~runtime.managed /\ d.message = {}) \/ Bases(remote, d) = {})
  <2> DEFINE b == CHOOSE x \in Bases(remote, d) : TRUE
  <2>1. p = Replace(remote, d, b)
      BY <1>9 DEF Plan
  <2>2. b \in Bases(remote, d)
      BY <1>9
  <2> HIDE DEF b
  <2>3. /\ GoodBase(b, given)
        /\ ~Adopts(remote) => Typed(b) = Typed(remote.text)
        /\ ~lost => Untyped(b) <= given
      BY <1>9, <2>2, BaseText
  <2>4. /\ GoodOwner(Withdrawn(b), given) /\ BaseOf(Withdrawn(b)) = b
        /\ GoodOwner(Owning(b, d), given) /\ BaseOf(Owning(b, d)) = b /\ Owning(b, d).managed
      BY <1>1, <2>3, OwnersGood
  <2> DEFINE after == IF d.message = {} THEN Withdrawn(b) ELSE Owning(b, d)
  <2>5. \/ p = Leave(Owning(b, d), d, FALSE)
        \/ /\ p.write /\ p.after = after /\ p.before = kept
           /\ p.text = composeManagedAnnounce(b, d.message)
    <3> HIDE DEF p, d
    <3>1. Replaced(p, remote, d, b)
        BY <2>1, ReplaceIs
    <3> QED BY <3>1 DEF Replaced
  <2>6. GoodOwner(after, given) /\ BaseOf(after) = b
      BY <2>4
  <2>7. Text(composeManagedAnnounce(b, d.message))
      BY <2>3, DesiredStatus, Composed DEF GoodBase
  <2> HIDE DEF p, after, kept, d
  <2>8. CASE p = Leave(Owning(b, d), d, FALSE)
      BY <1>5, <2>4, <2>8
  <2>9. CASE /\ p.write /\ p.after = after /\ p.before = kept
             /\ p.text = composeManagedAnnounce(b, d.message)
      BY <1>3, <2>3, <2>6, <2>7, <2>9 DEF TextDecided
  <2> QED BY <2>5, <2>8, <2>9
<1> QED BY <1>6, <1>7, <1>8, <1>9

-----------------------------------------------------------------------------
(* The steps. *)

\* Adopting more status lines only allows more.
LEMMA MoreGiven ==
    ASSUME NEW n \in Nat, NEW m \in Nat, n <= m
    PROVE  /\ \A b : GoodBase(b, n) => GoodBase(b, m)
           /\ \A b : GoodText(b, n) => GoodText(b, m)
           /\ \A r : GoodOwner(r, n) => GoodOwner(r, m)
<1>1. \A b : Text(b) => Untyped(b) \in Nat
    BY TextFacts
<1>2. \A b : GoodBase(b, n) => GoodBase(b, m)
    BY <1>1 DEF GoodBase
<1>3. \A b : GoodText(b, n) => GoodText(b, m)
    BY <1>1 DEF GoodText
<1>4. \A r : GoodOwner(r, n) => GoodOwner(r, m)
    BY <1>2 DEF GoodOwner
<1> QED BY <1>2, <1>3, <1>4

\* The first state.
LEMMA TextInit == Init => TextInv
<1> SUFFICES ASSUME Init PROVE TextInv
    OBVIOUS
<1>1. remote.text \in OpTexts \cup {<<>>} /\ own = remote.text /\ given = 0
    BY DEF Init
<1>2. Text(remote.text) /\ Typed(remote.text) = remote.text /\ Untyped(remote.text) = 0
    BY <1>1, OperatorText
<1>3. Text(<<>>) /\ Untyped(<<>>) = 0 /\ GoodBase(<<>>, 0)
    BY EmptyText DEF GoodBase
<1>4. GoodOwner(Unmanaged, 0)
    BY <1>3 DEF Unmanaged, GoodOwner, StatusLine
<1>5. ASSUME NEW t \in OpTexts PROVE GoodOwner(Withdrawn(t), 0)
  <2>1. GoodBase(t, 0)
      BY OperatorText DEF GoodBase
  <2>2. /\ Withdrawn(t).message = Unmanaged.message /\ Withdrawn(t).base = Unmanaged.base
        /\ Withdrawn(t).restored = t
      BY DEF Withdrawn, Unmanaged
  <2> QED BY <1>4, <2>1, <2>2 DEF GoodOwner
<1>6. GoodOwner(file, 0) /\ runtime = file
    BY <1>4, <1>5 DEF Init
<1>7. TextsGood
    BY <1>1, <1>2, <1>3, <1>6 DEF Init, TextsGood, GoodText
<1>8. pass.phase = None
    BY DEF Init, NoPass
<1>9. PassGood /\ WriteKeeps
    BY <1>8 DEF PassGood, WriteKeeps, None
<1>10. LinesCounted
    BY <1>1, <1>2 DEF Init, LinesCounted
<1> QED BY <1>7, <1>9, <1>10 DEF TextInv

\* Steps that leave the panel, ownership and pass alone.
LEMMA TextUndisturbed ==
    ASSUME TextInv, UNCHANGED <<remote, own, author, lost, runtime, file, pass>>,
           given' \in Nat, given <= given', Text(topology'.squad.text),
           Text(config'.base), Untyped(config'.base) <= given'
    PROVE  TextInv'
<1>1. /\ GoodText(remote.text, given) /\ own = Typed(remote.text) /\ given \in Nat
      /\ GoodOwner(runtime, given) /\ GoodOwner(file, given)
    BY DEF TextInv, TextsGood
<1>2. Untyped(remote.text) \in Nat
    BY <1>1, TextFacts DEF GoodText
<1>3. TextsGood'
    BY <1>1, MoreGiven DEF TextsGood
<1>4. PassGood'
    BY <1>1, MoreGiven DEF TextInv, PassGood
<1>5. WriteKeeps'
  <2>1. SUFFICES ASSUME pass.phase = "write"
                 PROVE  /\ ~pass.adopted => Typed(BaseOf(pass.after)) = Typed(pass.seen.text)
                        /\ ~lost => Untyped(BaseOf(pass.after)) <= given'
      BY DEF WriteKeeps
  <2>2. /\ ~pass.adopted => Typed(BaseOf(pass.after)) = Typed(pass.seen.text)
        /\ ~lost => Untyped(BaseOf(pass.after)) <= given
      BY <2>1 DEF TextInv, WriteKeeps
  <2>3. GoodOwner(pass.after, given)
      BY <2>1 DEF TextInv, PassGood, None
  <2>4. Untyped(BaseOf(pass.after)) \in Nat
      BY <2>3, TextFacts DEF GoodOwner, GoodBase, BaseOf
  <2> QED BY <1>1, <2>2, <2>4
<1>6. LinesCounted'
  <2>1. Effective' = Effective
      BY DEF Effective
  <2> QED BY <1>1, <1>2, <2>1 DEF TextInv, LinesCounted
<1> QED BY <1>3, <1>4, <1>5, <1>6 DEF TextInv

\* Steps around a pass that leave the text alone.
LEMMA AroundText ==
    ASSUME TextInv,
           \/ Ask \/ FetchFails \/ DelayPasses \/ AdoptAnnounceBase \/ ForgetAnnounceBase
           \/ \E view \in Views : Observe(view)
           \/ \E l \in Locations : RecoveryPasses(l)
           \/ \E on \in BOOLEAN, rules \in RuleSets : UpdateSettings(on, rules)
           \/ \E on \in BOOLEAN : SetProjectMaintenance(on)
           \/ UNCHANGED vars,
           config = [x \in DOMAIN config |-> config[x]], DOMAIN config = {"on", "rules", "base"}
    PROVE  TextInv'
<1>1. /\ Text(remote.text) /\ given \in Nat /\ Text(topology.squad.text)
      /\ Text(config.base) /\ Untyped(config.base) <= given /\ Text(runtime.base)
    BY DEF TextInv, TextsGood, GoodText, GoodOwner, GoodBase
<1>2. CASE AdoptAnnounceBase
  <2>1. /\ UNCHANGED <<remote, own, author, lost, runtime, file, pass, topology>>
        /\ config' = [config EXCEPT !.base = Adoptable]
        /\ given' = IF Untyped(Adoptable) > given THEN Untyped(Adoptable) ELSE given
      BY <1>2 DEF AdoptAnnounceBase
  <2>2. Text(Adoptable)
      BY <1>1 DEF Adoptable
  <2>3. Untyped(Adoptable) \in Nat
      BY <2>2, TextFacts
  <2>4. config'.base = Adoptable
      BY <2>1
  <2>5. given' \in Nat /\ given <= given' /\ Untyped(Adoptable) <= given'
      BY <1>1, <2>1, <2>3
  <2> QED BY <1>1, <2>1, <2>2, <2>4, <2>5, TextUndisturbed
<1>3. CASE ~AdoptAnnounceBase
  <2>1. UNCHANGED <<remote, own, author, lost, runtime, file, pass, given>>
      BY <1>3 DEF Ask, FetchFails, DelayPasses, ForgetAnnounceBase, Observe, RecoveryPasses, UpdateSettings,
                  SetProjectMaintenance, vars, history
  <2>2. topology'.squad \in {topology.squad, remote}
    <3>1. CASE FetchFails
        BY <3>1 DEF FetchFails
    <3>2. CASE ~FetchFails
      <4>1. topology' = topology
          BY <1>3, <3>2 DEF Ask, DelayPasses, ForgetAnnounceBase, Observe, RecoveryPasses, UpdateSettings,
                            SetProjectMaintenance, vars
      <4> QED BY <4>1
    <3> QED BY <3>1, <3>2
  <2>3. config'.base \in {config.base, <<>>}
    <3>1. CASE ForgetAnnounceBase
        BY <3>1 DEF ForgetAnnounceBase
    <3>2. CASE \E on \in BOOLEAN, rules \in RuleSets : UpdateSettings(on, rules)
        BY <3>2 DEF UpdateSettings
    <3>3. CASE config' = config
        BY <3>3
    <3> QED BY <1>3, <3>1, <3>2, <3>3 DEF Ask, FetchFails, DelayPasses, Observe, RecoveryPasses,
               SetProjectMaintenance, vars
  <2>4. Text(topology'.squad.text)
      BY <1>1, <2>2
  <2>5. Text(config'.base) /\ Untyped(config'.base) <= given
      BY <1>1, <2>3, EmptyText
  <2>6. given' \in Nat /\ given <= given' /\ given' = given
      BY <1>1, <2>1
  <2> QED BY <2>1, <2>4, <2>5, <2>6, TextUndisturbed
<1> QED BY <1>2, <1>3

\* The operator edits the text, or a second header appears.
LEMMA EditStep ==
    ASSUME TextInv,
           \/ AddHeader
           \/ \E text \in OpTexts \cup {<<>>}, keep \in BOOLEAN : EditText(text, keep)
    PROVE  TextInv'
<1>1. /\ UNCHANGED <<config, runtime, file, topology, pass, given>> /\ author' = "operator"
      /\ pass.phase # None /\ ~lost' => ~lost
  <2>1. CASE AddHeader
      BY <2>1 DEF AddHeader
  <2>2. ASSUME NEW text \in OpTexts \cup {<<>>}, NEW keep \in BOOLEAN, EditText(text, keep)
        PROVE  /\ UNCHANGED <<config, runtime, file, topology, pass, given>> /\ author' = "operator"
               /\ pass.phase # None /\ ~lost' => ~lost
      BY <2>2 DEF EditText, Idle
  <2> QED BY <2>1, <2>2
<1>2. GoodText(remote.text, given) /\ Text(remote.text) /\ given \in Nat /\ own = Typed(remote.text)
    BY DEF TextInv, TextsGood, GoodText
<1>3. /\ Text(remote'.text) /\ own' = Typed(remote'.text)
      /\ GoodText(remote'.text, given)
      /\ ~lost' => Untyped(remote'.text) <= given + 1
      /\ ~remote'.dup => remote'.text = own' \/ (own' # <<>> /\ Len(remote'.text) = Len(own') + 1)
  <2>1. CASE AddHeader
    <3>1. remote' = [remote EXCEPT !.dup = TRUE] /\ own' = own /\ lost' = lost
        BY <2>1 DEF AddHeader
    <3> QED BY <1>2, <2>1 DEF AddHeader, TextInv, LinesCounted
  <2>2. ASSUME NEW text \in OpTexts \cup {<<>>}, NEW keep \in BOOLEAN, EditText(text, keep)
        PROVE  /\ Text(remote'.text) /\ own' = Typed(remote'.text)
               /\ Untyped(remote'.text) <= 1
               /\ ~remote'.dup => remote'.text = own' \/ (own' # <<>> /\ Len(remote'.text) = Len(own') + 1)
    <3>1. /\ remote'.text = IF keep THEN Append(text, Last(remote.text)) ELSE text
          /\ keep => remote.text # <<>> /\ IsStatus(Last(remote.text)) /\ text # <<>>
          /\ own' = text
        BY <2>2 DEF EditText
    <3>2. Text(text) /\ Typed(text) = text /\ Untyped(text) = 0
        BY OperatorText
    <3>3. CASE keep
      <4>1. Last(remote.text) \in Lines /\ IsStatus(Last(remote.text)) /\ text # <<>>
          BY <1>2, <3>1, <3>3, FrontOfStatus
      <4>2. LET u == Append(text, Last(remote.text))
            IN /\ Text(u) /\ Typed(u) = Typed(text) /\ Untyped(u) = Untyped(text) + 1
               /\ Len(u) = Len(text) + 1
          BY <3>2, <4>1, AppendStatus
      <4> QED BY <3>1, <3>2, <3>3, <4>1, <4>2
    <3>4. CASE ~keep
        BY <3>1, <3>2, <3>4
    <3> QED BY <3>3, <3>4
  <2>3. CASE \E text \in OpTexts \cup {<<>>}, keep \in BOOLEAN : EditText(text, keep)
    <3>1. /\ Text(remote'.text) /\ own' = Typed(remote'.text)
          /\ Untyped(remote'.text) <= 1
          /\ ~remote'.dup => remote'.text = own' \/ (own' # <<>> /\ Len(remote'.text) = Len(own') + 1)
        BY <2>2, <2>3
    <3>2. Untyped(remote'.text) \in Nat
        BY <3>1, TextFacts
    <3> QED BY <1>2, <3>1, <3>2 DEF GoodText
  <2> QED BY <2>1, <2>3
<1>4. TextsGood' /\ PassGood'
    BY <1>1, <1>3 DEF TextInv, TextsGood, PassGood
<1>5. WriteKeeps'
    BY <1>1 DEF TextInv, WriteKeeps, None
<1>6. LinesCounted'
    BY <1>1, <1>3 DEF LinesCounted
<1> QED BY <1>4, <1>5, <1>6 DEF TextInv

\* The panel takes what the pass has composed.
LEMMA PatchedText ==
    ASSUME AnnounceInv, TextInv, pass.phase = "write", Patched
    PROVE  /\ GoodText(remote'.text, given) /\ own' = Typed(remote'.text) /\ author' = "checker"
           /\ ~lost => /\ Untyped(remote'.text) <= given + 1
                       /\ ~pass.after.managed => Untyped(remote'.text) <= given
<1> DEFINE r == pass.after
           b == BaseOf(r)
<1>1. /\ Valid(r) /\ pass.text = Shown(r)
    BY DEF AnnounceInv, OwnersValid, PassShape, Ends, None
<1>2. GoodOwner(r, given) /\ given \in Nat
    BY DEF TextInv, TextsGood, PassGood, None
<1>3. remote'.text = pass.text /\ own' = OwnAfter(pass) /\ author' = "checker"
    BY DEF Patched
<1>4. /\ ~pass.adopted => Typed(b) = Typed(pass.seen.text)
      /\ ~lost => Untyped(b) <= given
    BY DEF TextInv, WriteKeeps
<1>5. own' = Typed(b)
  <2>1. CASE remote # pass.seen \/ pass.adopted
      BY <1>3, <2>1 DEF OwnAfter
  <2>2. CASE ~(remote # pass.seen \/ pass.adopted)
    <3>1. own' = own /\ own = Typed(remote.text) /\ remote = pass.seen
        BY <1>3, <2>2 DEF OwnAfter, TextInv, TextsGood
    <3> QED BY <1>4, <2>2, <3>1
  <2> QED BY <2>1, <2>2
<1>6. GoodBase(b, given)
    BY <1>2 DEF GoodOwner, BaseOf
<1>7. Text(b) /\ Untyped(b) \in Nat /\ Len(b) \in Nat
    BY <1>6, TextFacts DEF GoodBase
<1>8. /\ Text(Shown(r)) /\ Typed(Shown(r)) = Typed(b)
      /\ r.managed => Untyped(Shown(r)) = Untyped(b) + 1 /\ Len(Shown(r)) = Len(b) + 1
      /\ ~r.managed => Shown(r) = b
  <2>1. CASE r.managed
    <3>1. b = r.base /\ Shown(r) = composeManagedAnnounce(b, r.message) /\ r.message # {}
        BY <1>1, <2>1 DEF BaseOf, Shown, Value, Valid
    <3>2. r.message \in StatusLine
        BY <1>2 DEF GoodOwner
    <3> DEFINE m == r.message
               t == composeManagedAnnounce(b, m)
    <3>3. m \in StatusLine /\ m # {} /\ Shown(r) = t
        BY <3>1, <3>2
    <3>4. Text(b)
        BY <1>7
    <3> HIDE DEF b, m, r
    <3>5. /\ Text(t) /\ Typed(t) = Typed(b)
          /\ m # {} => /\ Untyped(t) = Untyped(b) + 1 /\ Len(t) = Len(b) + 1
                       /\ t # <<>> /\ t = Append(b, m)
        BY <3>3, <3>4, Composed
    <3> QED BY <2>1, <3>3, <3>5
  <2>2. CASE ~r.managed
      BY <1>7, <2>2 DEF BaseOf, Shown
  <2> QED BY <2>1, <2>2
<1> HIDE DEF r, b
<1>9. r.managed \in BOOLEAN
    BY <1>1 DEF Valid, Owner
<1>10. remote'.text = Shown(r)
    BY <1>1, <1>3
<1>11. GoodText(Shown(r), given)
  <2>1. Untyped(b) <= given \/ Len(b) = 1
      BY <1>6 DEF GoodBase
  <2> DEFINE x == Untyped(b)  v == Len(b)  y == Untyped(Shown(r))  w == Len(Shown(r))
  <2>2. /\ x \in Nat /\ v \in Nat /\ given \in Nat /\ (x <= given \/ v = 1)
        /\ (y = x + 1 /\ w = v + 1) \/ (y = x /\ w = v)
      BY <1>2, <1>7, <1>8, <1>9, <2>1
  <2> HIDE DEF x, v, y, w
  <2>3. y <= given + 1 \/ w <= 2
      BY <2>2
  <2> QED BY <1>8, <2>3 DEF GoodText, y, w
<1>12. ~lost => /\ Untyped(Shown(r)) <= given + 1
                /\ ~r.managed => Untyped(Shown(r)) <= given
    BY <1>2, <1>4, <1>7, <1>8, <1>9
<1> QED BY <1>3, <1>5, <1>8, <1>10, <1>11, <1>12 DEF r

\* A pass starts, or changes nothing.
LEMMA FetchText ==
    ASSUME AnnounceInv, TextInv, NEW sync \in BOOLEAN, Fetch(sync)
    PROVE  TextInv'
<1> DEFINE p == Plan(remote, Desired)
<1>1. /\ Idle /\ UNCHANGED <<remote, config, own, author, lost, given>> /\ Begin(p, topology'.loaded)
      /\ topology'.squad = remote
    BY DEF Fetch, history
<1>2. TextDecided(p)
    BY <1>1, PlanText
<1>3. /\ GoodText(remote.text, given) /\ Text(remote.text) /\ own = Typed(remote.text) /\ given \in Nat
      /\ Text(config.base) /\ Untyped(config.base) <= given
      /\ GoodOwner(runtime, given) /\ GoodOwner(file, given)
    BY DEF TextInv, TextsGood, GoodText
<1> HIDE DEF p
<1>4. CASE UNCHANGED <<runtime, file, pass>>
  <2>1. given' \in Nat /\ given <= given' /\ Untyped(config'.base) <= given'
      BY <1>1, <1>3
  <2>2. Text(topology'.squad.text) /\ Text(config'.base)
      BY <1>1, <1>3
  <2> QED BY <1>1, <1>4, <2>1, <2>2, TextUndisturbed
<1>5. CASE /\ p.write \/ p.after # runtime
           /\ pass' = [phase |-> IF p.write THEN "write" ELSE "persist", seen |-> remote,
                       text |-> p.text, adopted |-> Adopts(remote), before |-> p.before,
                       after |-> p.after, blocked |-> p.blocked,
                       configured |-> p.configured, timer |-> p.timer]
           /\ UNCHANGED <<runtime, file, timer, conflict>>
  <2>1. /\ pass'.seen = remote /\ pass'.text = p.text /\ pass'.adopted = Adopts(remote)
        /\ pass'.before = p.before /\ pass'.after = p.after
        /\ p.write => pass'.phase = "write"
        /\ ~p.write => pass'.phase = "persist"
      BY <1>5
  <2>2. TextsGood'
      BY <1>1, <1>3, <1>5 DEF TextsGood
  <2>3. PassGood'
      BY <1>1, <1>2, <1>3, <2>1 DEF PassGood, TextDecided
  <2>4. WriteKeeps'
    <3>1. CASE p.write
        BY <1>1, <1>2, <2>1, <3>1 DEF WriteKeeps, TextDecided
    <3>2. CASE ~p.write
        BY <2>1, <3>2 DEF WriteKeeps
    <3> QED BY <3>1, <3>2
  <2>5. LinesCounted'
    <3>1. Effective = runtime
        BY <1>1 DEF Effective, Idle, None
    <3>2. CASE p.write
      <4>1. Effective' = runtime
          BY <1>5, <2>1, <3>2 DEF Effective
      <4> QED BY <1>1, <3>1, <4>1 DEF TextInv, LinesCounted
    <3>3. CASE ~p.write
      <4>1. Effective' = p.after /\ p.after # runtime
          BY <1>5, <2>1, <3>3 DEF Effective
      <4>2. author = "checker" /\ ~lost => Known(runtime)
          BY <1>1 DEF AnnounceInv, WriterKnows, Idle, None
      <4>3. ~(author = "checker" /\ ~lost /\ ~p.after.managed)
          BY <1>2, <3>3, <4>1, <4>2 DEF TextDecided
      <4> QED BY <1>1, <4>1, <4>3 DEF TextInv, LinesCounted
    <3> QED BY <3>2, <3>3
  <2> QED BY <2>2, <2>3, <2>4, <2>5 DEF TextInv
<1> QED BY <1>1, <1>4, <1>5 DEF Begin

\* The panel takes the text.
LEMMA WriteText == ASSUME AnnounceInv, TextInv, Write PROVE TextInv'
<1>1. /\ pass.phase = "write" /\ Patched /\ pass' = [pass EXCEPT !.phase = "persist"]
      /\ UNCHANGED <<config, runtime, file, topology, lost, given>>
    BY DEF Write
<1>2. /\ pass'.phase = "persist" /\ pass'.after = pass.after /\ pass'.before = pass.before
      /\ pass'.seen = pass.seen /\ pass'.text = pass.text
    BY <1>1, PassFacts DEF AnnounceInv, PassShape
<1>3. /\ GoodText(remote'.text, given) /\ own' = Typed(remote'.text) /\ author' = "checker"
      /\ ~lost => /\ Untyped(remote'.text) <= given + 1
                  /\ ~pass.after.managed => Untyped(remote'.text) <= given
    BY <1>1, PatchedText
<1>4. TextsGood'
    BY <1>1, <1>3 DEF TextInv, TextsGood
<1>5. PassGood' /\ WriteKeeps'
    BY <1>1, <1>2 DEF TextInv, PassGood, WriteKeeps, None
<1>6. LinesCounted'
  <2>1. Effective' = pass.after
      BY <1>2 DEF Effective
  <2> QED BY <1>1, <1>3, <2>1 DEF LinesCounted
<1> QED BY <1>4, <1>5, <1>6 DEF TextInv

\* The write fails, or its answer is lost.
LEMMA WriteFailsText == ASSUME AnnounceInv, TextInv, WriteFails PROVE TextInv'
<1>1. /\ pass.phase = "write" /\ UNCHANGED <<config, given>>
      /\ \/ UNCHANGED <<remote, own, author, lost>>
         \/ Patched /\ lost'
    BY DEF WriteFails, history
<1>2. /\ TextsGood /\ PassGood /\ LinesCounted
      /\ Text(pass.seen.text) /\ GoodOwner(pass.before, given)
    BY <1>1 DEF TextInv, PassGood, None
<1>3. /\ GoodText(remote'.text, given) /\ own' = Typed(remote'.text)
    BY <1>1, <1>2, PatchedText DEF TextsGood
<1>4. author' = "checker" /\ ~lost' => Known(runtime) /\ pass.before = runtime
  <2>1. SUFFICES ASSUME author' = "checker", ~lost' PROVE Known(runtime) /\ pass.before = runtime
      OBVIOUS
  <2>2. author = "checker" /\ ~lost
      BY <1>1, <2>1
  <2> QED BY <1>1, <2>2, BeforeWriting
<1>5. /\ runtime' = runtime /\ file' = file
      /\ topology' = topology \/ topology' = [topology EXCEPT !.squad = pass.seen]
      /\ \/ pass' = NoPass
         \/ /\ pass.before # runtime
            /\ pass' = [pass EXCEPT !.phase = "persist", !.after = pass.before, !.text = pass.seen.text]
    BY DEF WriteFails, Finish
<1>6. PassGood' /\ WriteKeeps'
  <2>1. CASE pass' = NoPass
    <3>1. pass'.phase = None
        BY <2>1 DEF NoPass
    <3> QED BY <3>1 DEF PassGood, WriteKeeps, None
  <2>2. CASE pass' = [pass EXCEPT !.phase = "persist", !.after = pass.before, !.text = pass.seen.text]
    <3>1. PassRecord(pass)
        BY DEF AnnounceInv, PassShape
    <3>2. /\ pass'.phase = "persist" /\ pass'.after = pass.before /\ pass'.before = pass.before
          /\ pass'.seen = pass.seen /\ pass'.text = pass.seen.text
      <4> DEFINE a == pass.before
                 t == pass.seen.text
      <4>1. pass' = [pass EXCEPT !.phase = "persist", !.after = a, !.text = t]
          BY <2>2
      <4> HIDE DEF a, t
      <4>2. /\ pass'.phase = "persist" /\ pass'.after = a /\ pass'.before = pass.before
            /\ pass'.seen = pass.seen /\ pass'.text = t
          BY <3>1, <4>1 DEF PassRecord
      <4> QED BY <4>2 DEF a, t
    <3> QED BY <1>1, <1>2, <3>2 DEF PassGood, WriteKeeps
  <2> QED BY <1>5, <2>1, <2>2
<1>7. TextsGood'
  <2>1. Text(topology'.squad.text)
    <3>1. CASE topology' = topology
        BY <1>2, <3>1 DEF TextsGood
    <3>2. CASE topology' # topology
      <4>1. topology' = [topology EXCEPT !.squad = pass.seen]
          BY <1>5, <3>2
      <4>2. topology'.squad \in {topology.squad, pass.seen}
          BY <4>1
      <4> QED BY <1>2, <4>2 DEF TextsGood
    <3> QED BY <3>1, <3>2
  <2> QED BY <1>1, <1>2, <1>3, <1>5, <2>1 DEF TextsGood
<1>8. LinesCounted'
  <2>1. CASE lost' /\ author' = "checker"
      BY <2>1 DEF LinesCounted
  <2>2. CASE UNCHANGED <<remote, own, author, lost>>
    <3>1. author = "checker" /\ ~lost => Effective' = runtime /\ Effective = runtime
      <4>1. CASE pass' = NoPass
          BY <1>1, <1>5, <4>1 DEF Effective, NoPass, None
      <4>2. CASE pass' # NoPass
          BY <1>4, <1>5, <2>2, <4>2
      <4> QED BY <4>1, <4>2
    <3> QED BY <1>1, <1>2, <2>2, <3>1 DEF LinesCounted
  <2> QED BY <1>1, <2>1, <2>2 DEF Patched
<1> QED BY <1>6, <1>7, <1>8 DEF TextInv

\* The pass is over, whether the file was written or not.
LEMMA PersistText == ASSUME AnnounceInv, TextInv, Persist \/ PersistFails PROVE TextInv'
<1>1. /\ pass.phase = "persist" /\ runtime' = pass.after /\ file' \in {pass.after, file} /\ pass' = NoPass
      /\ UNCHANGED <<remote, config, own, author, lost, given>>
      /\ \E squad \in {pass.seen, [text |-> pass.text, dup |-> FALSE]} :
            topology' = [topology EXCEPT !.squad = squad]
    BY DEF Persist, PersistFails, Finish, SquadAfter, history
<1>2. /\ Text(pass.seen.text) /\ Text(pass.text) /\ GoodOwner(pass.after, given)
    BY <1>1 DEF TextInv, PassGood, None
<1>3. Text(topology'.squad.text)
  <2>1. PICK squad \in {pass.seen, [text |-> pass.text, dup |-> FALSE]} :
            topology' = [topology EXCEPT !.squad = squad]
      BY <1>1
  <2>2. topology'.squad \in {topology.squad, squad}
      BY <2>1
  <2>3. Text(squad.text)
      BY <1>2
  <2> QED BY <2>2, <2>3 DEF TextInv, TextsGood
<1>4. TextsGood'
    BY <1>1, <1>2, <1>3 DEF TextInv, TextsGood
<1>5. pass'.phase = None
    BY <1>1 DEF NoPass
<1>6. PassGood' /\ WriteKeeps'
    BY <1>5 DEF PassGood, WriteKeeps, None
<1>7. LinesCounted'
  <2>1. Effective' = Effective
      BY <1>1, <1>5 DEF Effective, None
  <2> QED BY <1>1, <2>1 DEF TextInv, LinesCounted
<1> QED BY <1>4, <1>6, <1>7 DEF TextInv

\* A restart finds the ownership that counts, or it is lost.
LEMMA RestartText == ASSUME AnnounceInv, TextInv, Restart PROVE TextInv'
<1>1. /\ runtime' = file /\ file' = file /\ pass' = NoPass /\ UNCHANGED <<remote, config, own, author, given>>
      /\ topology'.squad.text = <<>>
      /\ lost' = (lost \/ Effective # file)
    BY DEF Restart, Effective
<1>2. TextsGood'
    BY <1>1, EmptyText DEF TextInv, TextsGood
<1>3. pass'.phase = None
    BY <1>1 DEF NoPass
<1>4. PassGood' /\ WriteKeeps'
    BY <1>3 DEF PassGood, WriteKeeps, None
<1>5. LinesCounted'
  <2>1. Effective' = file
      BY <1>1, <1>3 DEF Effective, None
  <2>2. ~lost' => ~lost /\ Effective = file
      BY <1>1
  <2> QED BY <1>1, <2>1, <2>2 DEF TextInv, LinesCounted
<1> QED BY <1>2, <1>4, <1>5 DEF TextInv

\* Every step.
LEMMA TextStep == AnnounceInv /\ TextInv /\ [Next]_vars => TextInv'
<1> SUFFICES ASSUME AnnounceInv, TextInv, [Next]_vars PROVE TextInv'
    OBVIOUS
<1>1. CASE \E sync \in BOOLEAN : Fetch(sync)
    BY <1>1, FetchText
<1>2. CASE Write
    BY <1>2, WriteText
<1>3. CASE WriteFails
    BY <1>3, WriteFailsText
<1>4. CASE Persist \/ PersistFails
    BY <1>4, PersistText
<1>5. CASE Restart
    BY <1>5, RestartText
<1>6. CASE \/ AddHeader
           \/ \E text \in OpTexts \cup {<<>>}, keep \in BOOLEAN : EditText(text, keep)
    BY <1>6, EditStep
<1>7. CASE \/ Ask \/ FetchFails \/ DelayPasses \/ AdoptAnnounceBase \/ ForgetAnnounceBase
           \/ \E view \in Views : Observe(view)
           \/ \E l \in Locations : RecoveryPasses(l)
           \/ \E on \in BOOLEAN, rules \in RuleSets : UpdateSettings(on, rules)
           \/ \E on \in BOOLEAN : SetProjectMaintenance(on)
           \/ UNCHANGED vars
  <2>1. config = [x \in DOMAIN config |-> config[x]] /\ DOMAIN config = {"on", "rules", "base"}
      BY DEF AnnounceInv, GroundTyped
  <2> QED BY <1>7, <2>1, AroundText
<1> QED BY <1>1, <1>2, <1>3, <1>4, <1>5, <1>6, <1>7 DEF Next

\* The texts in the panel, in the topology, in the configuration and in the ownerships are
\* what the operator typed followed by status lines, and the base of every ownership carries
\* no more of them than he adopted: the strengthening behind the two properties below.
THEOREM TextInvariant == Spec => []TextInv
BY SpecIsSafe, AnnounceInvariant, TextInit, TextStep, PTL

\* OperatorTextKept: through passes, failed and unanswered writes, failed saves and restarts
\* the panel shows what the operator typed first and whole, and one status line beside those
\* he adopted himself, or after a loss and without any text of his one forgotten line more.
THEOREM OperatorTextIsKept == Spec => []OperatorTextKept
<1>1. ASSUME TextInv PROVE OperatorTextKept
  <2> DEFINE t == remote.text
             k == TypedLen(t)
             u == Untyped(t)
  <2>1. /\ Text(t) /\ own = Typed(t) /\ given \in Nat
        /\ u <= given + 1 \/ Len(t) <= 2
        /\ ~lost => u <= given + 1
      BY <1>1 DEF TextInv, TextsGood, GoodText, LinesCounted
  <2>2. /\ t \in Seq(Lines) /\ SplitAt(t, k) /\ k \in 0..Len(t) /\ Len(t) \in Nat
        /\ own = SubSeq(t, 1, k) /\ Len(own) = k /\ own \in Seq(Lines)
        /\ u \in Nat /\ Len(t) = k + u
      BY <2>1, TextFacts
  <2> HIDE DEF t, k, u
  <2>3. IsPrefix(own, t)
    <3>1. SubSeq(own, 1, Len(own)) = own
        BY <2>2
    <3> QED BY <2>2, <3>1 DEF IsPrefix
  <2>4. \A i \in (Len(own) + 1)..Len(t) : IsStatus(t[i])
      BY <2>2 DEF SplitAt
  <2>5. \/ Len(t) <= Len(own) + given + 1
        \/ lost /\ own = <<>> /\ Len(t) = 2
    <3>1. CASE u <= given + 1
        BY <2>1, <2>2, <3>1
    <3>2. CASE ~(u <= given + 1)
      <4>1. lost /\ Len(t) <= 2
          BY <2>1, <3>2
      <4>2. k = 0 /\ Len(t) = 2
          BY <2>1, <2>2, <3>2, <4>1
      <4>3. own \in Seq(Lines) /\ Len(own) = 0
          BY <2>2, <4>2, Zenon
      <4>4. own = <<>>
          BY <4>3
      <4> QED BY <4>1, <4>2, <4>4
    <3> QED BY <3>1, <3>2
  <2> QED BY <2>3, <2>4, <2>5 DEF OperatorTextKept, t
<1> QED BY <1>1, TextInvariant, PTL

\* AdoptsOperatorText: a base adopted from an up-to-date topology that the checker wrote is
\* what the operator typed, with no more status lines than he adopted before.
THEOREM OperatorTextIsAdopted == Spec => AdoptsOperatorText
<1> DEFINE Adopted == (/\ config'.base # config.base /\ config'.base # <<>>
                       /\ topology.squad = remote /\ author = "checker" /\ ~lost)
                      => Typed(config'.base) = own /\ Len(config'.base) <= Len(own) + given
<1>1. ASSUME AnnounceInv, TextInv, [Next]_vars PROVE Adopted
  <2>1. SUFFICES ASSUME config'.base # config.base, config'.base # <<>>,
                        topology.squad = remote, author = "checker", ~lost
                 PROVE  Typed(config'.base) = own /\ Len(config'.base) <= Len(own) + given
      OBVIOUS
  <2>2. config = [x \in DOMAIN config |-> config[x]] /\ DOMAIN config = {"on", "rules", "base"}
      BY <1>1 DEF AnnounceInv, GroundTyped
  <2>3. AdoptAnnounceBase
    <3>1. CASE ForgetAnnounceBase
        BY <2>1, <2>2, <3>1 DEF ForgetAnnounceBase
    <3>2. CASE \E on \in BOOLEAN, rules \in RuleSets : UpdateSettings(on, rules)
        BY <2>1, <2>2, <3>2 DEF UpdateSettings
    <3>3. CASE config' = config
        BY <2>1, <3>3
    <3> QED BY <1>1, <3>1, <3>2, <3>3
               DEF Next, vars, Ask, FetchFails, Fetch, DelayPasses, AddHeader, Observe, RecoveryPasses, EditText,
                   SetProjectMaintenance, Write, WriteFails, Persist, PersistFails, Restart
  <2>4. Idle /\ config'.base = Adoptable
      BY <2>2, <2>3 DEF AdoptAnnounceBase
  <2>5. Known(runtime) /\ Valid(runtime)
      BY <1>1, <2>1, <2>4 DEF AnnounceInv, WriterKnows, OwnersValid, Idle, None
  <2>6. /\ Text(remote.text) /\ own = Typed(remote.text) /\ given \in Nat
        /\ GoodOwner(runtime, given)
        /\ Untyped(remote.text) <= given + 1
        /\ ~runtime.managed => Untyped(remote.text) <= given
      BY <1>1, <2>1, <2>4 DEF TextInv, TextsGood, GoodText, LinesCounted, Effective, Idle, None
  <2> DEFINE b == config'.base
  <2>7. Text(b) /\ Typed(b) = own /\ Untyped(b) <= given
    <3>1. CASE runtime.managed
      <4>1. /\ remote.text = composeManagedAnnounce(runtime.base, runtime.message)
            /\ runtime.message # {} /\ runtime.message \in StatusLine
          BY <2>5, <2>6, <3>1 DEF Known, Shown, Value, Valid, GoodOwner
      <4>2. b = runtime.base
          BY <2>1, <2>4, <3>1, <4>1 DEF Adoptable, ShowsOwnValue, Value
      <4>3. Text(b)
          BY <2>6, <4>2 DEF GoodOwner, GoodBase
      <4> HIDE DEF b
      <4>4. Typed(remote.text) = Typed(b) /\ Untyped(remote.text) = Untyped(b) + 1
          BY <4>1, <4>2, <4>3, Composed
      <4>5. Untyped(b) \in Nat
          BY <4>3, TextFacts
      <4> QED BY <2>6, <4>3, <4>4, <4>5
    <3>2. CASE ~runtime.managed
      <4>1. b = remote.text
          BY <2>1, <2>4, <3>2 DEF Adoptable, ShowsOwnValue
      <4> QED BY <2>6, <3>2, <4>1
    <3>3. runtime.managed \in BOOLEAN
        BY <2>5 DEF Valid, Owner
    <3> QED BY <3>1, <3>2, <3>3
  <2> HIDE DEF b
  <2>8. Len(b) = Len(own) + Untyped(b) /\ Len(own) \in Nat /\ Untyped(b) \in Nat
      BY <2>7, TextFacts
  <2>9. Typed(b) = own /\ Len(b) <= Len(own) + given
      BY <2>6, <2>7, <2>8
  <2> QED BY <2>9 DEF b
<1>2. Spec => [][Adopted]_vars
    BY <1>1, SpecIsSafe, AnnounceInvariant, TextInvariant, PTL
<1> QED BY <1>2 DEF AdoptsOperatorText
=============================================================================

--------------------------- MODULE AnnounceProofs ---------------------------
(***************************************************************************)
(* Proofs about the announce, for any members, locations and servers, any  *)
(* texts and any number of changes, edits, requests and faults.            *)
(***************************************************************************)
EXTENDS Announce, TLAPS

\* An ownership record.
Owner(r) == /\ r = [managed |-> r.managed, message |-> r.message, base |-> r.base, down |-> r.down,
                    partial |-> r.partial, maint |-> r.maint, restored |-> r.restored]
            /\ r.managed \in BOOLEAN

ValidBase(b) == b = <<>> \/ isManagedBaseAnnounce(b)

\* What validateRuntime accepts, and a restored text only without ownership.
Valid(r) ==
    /\ Owner(r)
    /\ r.managed => r.message # {} /\ ValidBase(r.base) /\ r.restored = <<>>
    /\ ValidBase(r.restored)

\* The text that an ownership vouches for, and that the panel shows it.
Shown(r) == IF r.managed THEN Value(r) ELSE r.restored
Known(r) == remote.text = Shown(r) /\ ~remote.dup

\* An outage that r withdraws is over, or announced as maintenance.
WithdrawsHeld(r) ==
    \A l \in Locations :
        runtime.managed /\ l \in runtime.down /\ r.managed /\ l \notin r.down
            => timer[l] = "over" \/ l \in r.maint \/ Visible(cond, l) = {}

\* The ownership the pass will leave: with the write and without it.
Ends(p) == {p.after, p.before}

OwnersValid ==
    /\ Valid(runtime) /\ Valid(file)
    /\ pass.phase # None => \A r \in Ends(pass) : Valid(r) /\ WithdrawsHeld(r)

PassRecord(p) ==
    /\ DOMAIN p = {"phase", "seen", "text", "adopted", "after", "before", "blocked", "configured", "timer"}
    /\ p = [x \in DOMAIN p |-> p[x]]

\* What a pass is about to do.
PassShape ==
    /\ pass.phase \in {None, "write", "persist"}
    /\ PassRecord(pass)
    /\ pass.phase = "write" => /\ pass.before = [runtime EXCEPT !.restored = Remembered(pass.seen)]
                               /\ pass.text = Shown(pass.after)

\* The checker knows the text it wrote last, unless it lost what it knew.
WriterKnows ==
    author = "checker" /\ ~lost =>
        /\ pass.phase # "persist" => Known(runtime)
        /\ pass.phase = "write" => remote = pass.seen
        /\ pass.phase = "persist" => Known(pass.after)

GroundTyped ==
    /\ cond \in [Members -> Conditions]
    /\ DOMAIN config = {"on", "rules", "base"} /\ config = [x \in DOMAIN config |-> config[x]]
    /\ ValidBase(config.base)

\* The inductive invariant.
AnnounceInv == GroundTyped /\ OwnersValid /\ PassShape /\ WriterKnows

-----------------------------------------------------------------------------
(* What the checks say of a location. *)

Observed == {"healthy", "ambiguous", "pending", "down", "paused"}
Out == {"down", "paused"}

\* stateOf by cases.
LEMMA StateOfFacts ==
    ASSUME NEW S \in SUBSET Observed, S # {}
    PROVE  /\ stateOf(S) \in Observed \cup {"partial"}
           /\ stateOf(S) = "paused" <=> S = {"paused"}
           /\ stateOf(S) \in Out <=> S \subseteq Out
           /\ stateOf(S) = "partial" <=> "healthy" \in S /\ S \cap Out # {}
           /\ stateOf(S) = "healthy" <=> "healthy" \in S /\ S \cap Out = {}
<1>1. CASE "healthy" \in S
  <2>1. stateOf(S) = IF S \cap Out # {} THEN "partial" ELSE "healthy"
      BY <1>1 DEF stateOf, Out
  <2> QED BY <1>1, <2>1 DEF Out, Observed
<1>2. CASE "healthy" \notin S
  <2>1. CASE S \subseteq Out
    <3>1. stateOf(S) = IF S = {"paused"} THEN "paused" ELSE "down"
        BY <1>2, <2>1 DEF stateOf, Out
    <3> QED BY <1>2, <2>1, <3>1 DEF Out, Observed
  <2>2. CASE ~(S \subseteq Out)
    <3>1. "ambiguous" \in S \/ "pending" \in S
        BY <1>2, <2>2 DEF Observed, Out
    <3>2. stateOf(S) \in {"ambiguous", "pending"}
        BY <1>2, <3>1 DEF stateOf
    <3> QED BY <1>2, <2>2, <3>2 DEF Out, Observed
  <2> QED BY <2>1, <2>2
<1> QED BY <1>1, <1>2

\* A server that still answers is healthy.
AsServer(S) == IF stateOf(S) = "partial" THEN "healthy" ELSE stateOf(S)

\* A server by cases.
LEMMA AsServerFacts ==
    ASSUME NEW S \in SUBSET Observed, S # {}
    PROVE  /\ AsServer(S) \in Observed
           /\ AsServer(S) = "paused" <=> S = {"paused"}
           /\ AsServer(S) \in Out <=> S \subseteq Out
           /\ AsServer(S) = "healthy" <=> "healthy" \in S
BY StateOfFacts DEF AsServer, Observed, Out

\* The conditions of the transports of the server of m.
Conditioned(c, l, m) == {c[v] : v \in {w \in Visible(c, l) : ServerOf[w] = ServerOf[m]}}

\* evaluateLocations folds servers that are folded from their transports.
LEMMA EvaluateFacts ==
    ASSUME NEW c, NEW l \in DOMAIN evaluateLocations(c)
    PROVE  /\ l \in Locations /\ Visible(c, l) # {}
           /\ evaluateLocations(c)[l] = stateOf({AsServer(Conditioned(c, l, m)) : m \in Visible(c, l)})
BY DEF evaluateLocations, AsServer, Conditioned

\* What a reader of the documentation expects of one location.
LEMMA DocumentedLocation ==
    ASSUME NEW c \in [Members -> Conditions], NEW l \in DOMAIN evaluateLocations(c)
    PROVE  LET V == Visible(c, l)
               s == evaluateLocations(c)[l]
               out == {m \in V : c[m] \in {"down", "paused"}}
               answers == \E m \in V : c[m] = "healthy"
               serverDown == \E v \in V : {m \in V : ServerOf[m] = ServerOf[v]} \subseteq out
           IN /\ s \in Observed \cup {"partial"}
              /\ s = "paused" <=> \A m \in V : c[m] = "paused"
              /\ s \in {"down", "paused"} <=> V = out
              /\ s = "partial" <=> answers /\ serverDown
              /\ s = "healthy" <=> answers /\ ~serverDown
<1> DEFINE V == Visible(c, l)
           s == evaluateLocations(c)[l]
           out == {m \in V : c[m] \in {"down", "paused"}}
           T(m) == Conditioned(c, l, m)
           R == {AsServer(T(m)) : m \in V}
<1>1. V # {} /\ s = stateOf(R)
    BY EvaluateFacts
<1>2. \A m \in V : m \in Members /\ c[m] \in Observed
    BY DEF Visible, Conditions, Observed
<1>3. \A m \in V : /\ c[m] \in T(m) /\ T(m) \in SUBSET Observed /\ T(m) # {}
                   /\ \A v \in V : ServerOf[v] = ServerOf[m] => c[v] \in T(m)
                   /\ \A x \in T(m) : \E v \in V : ServerOf[v] = ServerOf[m] /\ c[v] = x
    BY <1>2 DEF Conditioned
<1> HIDE DEF V, s, T
<1>4. \A m \in V : /\ AsServer(T(m)) \in Observed
                   /\ AsServer(T(m)) = "paused" <=> T(m) = {"paused"}
                   /\ AsServer(T(m)) \in Out <=> T(m) \subseteq Out
                   /\ AsServer(T(m)) = "healthy" <=> "healthy" \in T(m)
    BY <1>3, AsServerFacts
<1>5. R \in SUBSET Observed /\ R # {}
    BY <1>1, <1>4
<1>6. /\ s \in Observed \cup {"partial"}
      /\ s = "paused" <=> R = {"paused"}
      /\ s \in Out <=> R \subseteq Out
      /\ s = "partial" <=> "healthy" \in R /\ R \cap Out # {}
      /\ s = "healthy" <=> "healthy" \in R /\ R \cap Out = {}
    BY <1>1, <1>5, StateOfFacts
<1>7. R = {"paused"} <=> \A m \in V : c[m] = "paused"
  <2>1. R = {"paused"} <=> \A m \in V : AsServer(T(m)) = "paused"
      BY <1>1
  <2>2. \A m \in V : T(m) = {"paused"} => c[m] = "paused"
      BY <1>3
  <2>3. (\A m \in V : c[m] = "paused") => \A m \in V : T(m) = {"paused"}
      BY <1>3
  <2> QED BY <1>4, <2>1, <2>2, <2>3
<1>8. R \subseteq Out <=> V = out
  <2>1. R \subseteq Out <=> \A m \in V : T(m) \subseteq Out
      BY <1>4
  <2>2. (\A m \in V : T(m) \subseteq Out) <=> \A m \in V : c[m] \in Out
      BY <1>3
  <2> QED BY <2>1, <2>2 DEF Out
<1>9. "healthy" \in R <=> \E m \in V : c[m] = "healthy"
  <2>1. "healthy" \in R <=> \E m \in V : "healthy" \in T(m)
      BY <1>4
  <2> QED BY <1>3, <2>1
<1>10. R \cap Out # {} <=> \E v \in V : {m \in V : ServerOf[m] = ServerOf[v]} \subseteq out
  <2>1. R \cap Out # {} <=> \E v \in V : T(v) \subseteq Out
      BY <1>4
  <2>2. \A v \in V : T(v) \subseteq Out <=> {m \in V : ServerOf[m] = ServerOf[v]} \subseteq out
      BY <1>3 DEF Out
  <2> QED BY <2>1, <2>2
<1> QED BY <1>6, <1>7, <1>8, <1>9, <1>10 DEF Out, V, s

\* EvaluationAsDocumented: folding transports by server and servers by location
\* says what the documentation says of a location, whatever the conditions.
THEOREM EvaluatedAsDocumented == Spec => []EvaluationAsDocumented
<1>1. ASSUME NEW c \in [Members -> Conditions], NEW l \in DOMAIN evaluateLocations(c)
      PROVE  LET state == evaluateLocations(c)
                 out == {m \in Visible(c, l) : c[m] \in {"down", "paused"}}
                 answers == \E m \in Visible(c, l) : c[m] = "healthy"
                 serverDown == \E v \in Visible(c, l) :
                                  {m \in Visible(c, l) : ServerOf[m] = ServerOf[v]} \subseteq out
             IN /\ (state[l] = "paused") = (\A m \in Visible(c, l) : c[m] = "paused")
                /\ (state[l] \in {"down", "paused"}) = (Visible(c, l) = out)
                /\ (state[l] = "partial") = (answers /\ serverDown)
                /\ (state[l] = "healthy") = (answers /\ ~serverDown)
  <2> DEFINE V == Visible(c, l)
             s == evaluateLocations(c)[l]
             out == {m \in V : c[m] \in {"down", "paused"}}
             answers == \E m \in V : c[m] = "healthy"
             serverDown == \E v \in V : {m \in V : ServerOf[m] = ServerOf[v]} \subseteq out
             paused == \A m \in V : c[m] = "paused"
  <2>1. /\ s = "paused" <=> paused
        /\ s \in {"down", "paused"} <=> V = out
        /\ s = "partial" <=> answers /\ serverDown
        /\ s = "healthy" <=> answers /\ ~serverDown
      BY DocumentedLocation
  <2>2. answers \in BOOLEAN /\ serverDown \in BOOLEAN /\ paused \in BOOLEAN
      OBVIOUS
  <2> HIDE DEF V, s, out, answers, serverDown, paused
  <2>3. /\ (s = "paused") = paused
        /\ (s \in {"down", "paused"}) = (V = out)
        /\ (s = "partial") = (answers /\ serverDown)
        /\ (s = "healthy") = (answers /\ ~serverDown)
      BY <2>1, <2>2
  <2> QED BY <2>3 DEF V, s, out, answers, serverDown, paused
<1>2. EvaluationAsDocumented
    BY <1>1 DEF EvaluationAsDocumented
<1> QED BY <1>2, PTL

-----------------------------------------------------------------------------
(* Ownership. *)

\* The restored text is replaced.
LEMMA RestoredFacts ==
    ASSUME NEW r, Owner(r), NEW t
    PROVE  /\ Owner([r EXCEPT !.restored = t])
           /\ [r EXCEPT !.restored = t].managed = r.managed /\ [r EXCEPT !.restored = t].down = r.down
           /\ [r EXCEPT !.restored = t].message = r.message /\ [r EXCEPT !.restored = t].base = r.base
           /\ [r EXCEPT !.restored = t].restored = t
           /\ t = r.restored => [r EXCEPT !.restored = t] = r
<1> DEFINE a == r.managed  b == r.message  c == r.base  d == r.down  e == r.partial  f == r.maint
           g == r.restored
<1>1. r = [managed |-> a, message |-> b, base |-> c, down |-> d, partial |-> e, maint |-> f, restored |-> g]
    BY Zenon DEF Owner
<1>2. r.managed = a /\ r.message = b /\ r.base = c /\ r.down = d /\ r.restored = g /\ a \in BOOLEAN
    BY DEF Owner
<1> HIDE DEF a, b, c, d, e, f, g
<1>3. [r EXCEPT !.restored = t]
         = [managed |-> a, message |-> b, base |-> c, down |-> d, partial |-> e, maint |-> f, restored |-> t]
    BY <1>1
<1>4. ASSUME NEW x
      PROVE  LET q == [managed |-> a, message |-> b, base |-> c, down |-> d, partial |-> e, maint |-> f,
                       restored |-> x]
             IN /\ Owner(q) /\ q.managed = a /\ q.message = b /\ q.base = c /\ q.down = d
                /\ q.restored = x
    BY <1>2 DEF Owner
<1> QED BY <1>1, <1>2, <1>3, <1>4

\* Nothing owned, and nothing or a text of his own given back.
LEMMA UnmanagedFacts ==
    /\ Valid(Unmanaged) /\ ~Unmanaged.managed
    /\ \A b : /\ Owner(Withdrawn(b)) /\ ~Withdrawn(b).managed /\ Withdrawn(b).restored = b
              /\ ValidBase(b) => Valid(Withdrawn(b))
<1>1. Owner(Unmanaged) /\ ~Unmanaged.managed /\ Unmanaged.restored = <<>>
    BY DEF Owner, Unmanaged
<1>2. ASSUME NEW b
      PROVE  Owner(Withdrawn(b)) /\ ~Withdrawn(b).managed /\ Withdrawn(b).restored = b
    BY <1>1, RestoredFacts DEF Withdrawn
<1> QED BY <1>1, <1>2 DEF Valid, ValidBase

\* What is owned after a write.
LEMMA OwningFacts ==
    ASSUME NEW base, NEW d
    PROVE  /\ Owner(Owning(base, d)) /\ Owning(base, d).managed
           /\ Owning(base, d).down = d.down /\ Owning(base, d).maint = d.maint
           /\ Shown(Owning(base, d)) = composeManagedAnnounce(base, d.message)
           /\ ValidBase(base) /\ d.message # {} => Valid(Owning(base, d))
<1>1. /\ Owner(Owning(base, d)) /\ Owning(base, d).managed
      /\ Owning(base, d).down = d.down /\ Owning(base, d).maint = d.maint
      /\ Owning(base, d).base = base /\ Owning(base, d).message = d.message
      /\ Owning(base, d).restored = <<>>
    BY DEF Owner, Owning
<1> QED BY <1>1 DEF Valid, ValidBase, Shown, Value

\* Forgetting a restored text that does not vouch any more.
LEMMA RememberedFacts ==
    ASSUME Valid(runtime), NEW seen
    PROVE  /\ Valid([runtime EXCEPT !.restored = Remembered(seen)])
           /\ WithdrawsHeld([runtime EXCEPT !.restored = Remembered(seen)])
           /\ Valid([Unmanaged EXCEPT !.restored = Remembered(seen)])
           /\ WithdrawsHeld([Unmanaged EXCEPT !.restored = Remembered(seen)])
           /\ seen.text = Shown(runtime) /\ ~seen.dup
                 => [runtime EXCEPT !.restored = Remembered(seen)] = runtime
<1> DEFINE t == Remembered(seen)
<1>1. /\ runtime.managed => t = <<>>
      /\ t \in {<<>>, runtime.restored} /\ ValidBase(t)
      /\ seen.text = Shown(runtime) /\ ~seen.dup => t = runtime.restored
    BY DEF Remembered, Valid, ValidBase, Shown
<1>2. Owner(runtime)
    BY DEF Valid
<1> HIDE DEF t
<1>3. /\ Valid([runtime EXCEPT !.restored = t]) /\ WithdrawsHeld([runtime EXCEPT !.restored = t])
      /\ t = runtime.restored => [runtime EXCEPT !.restored = t] = runtime
    BY <1>1, <1>2, RestoredFacts DEF Valid, WithdrawsHeld
<1>4. Valid(Withdrawn(t)) /\ WithdrawsHeld(Withdrawn(t))
    BY <1>1, UnmanagedFacts DEF WithdrawsHeld
<1> QED BY <1>1, <1>3, <1>4 DEF t, Withdrawn

\* The bases a pass finds.
LEMMA BaseFacts ==
    ASSUME Valid(runtime), ValidBase(config.base), NEW seen, NEW d, NEW b \in Bases(seen, d)
    PROVE  ValidBase(b)
<1>1. CASE runtime.managed
    BY <1>1 DEF Bases, Valid
<1>2. CASE ~runtime.managed
  <2>1. \A text, message : \A x \in KnownBase(text, message) : ValidBase(x)
      BY DEF KnownBase, ValidBase
  <2>2. \A x \in splitKnownManagedAnnounce(seen.text, d.message, d.healthy) : ValidBase(x)
      BY <2>1 DEF splitKnownManagedAnnounce
  <2>3. Remembered(seen) # <<>> => seen.text = runtime.restored
      BY DEF Remembered
  <2> QED BY <1>2, <2>2, <2>3 DEF Bases, ForeignBase, Valid, ValidBase, isAppendableBaseAnnounce
<1> QED BY <1>1, <1>2

-----------------------------------------------------------------------------
(* What a pass decides. *)

\* Desired without its CHOOSE.
LEMMA DesiredIs == Desired = computeDesired(runtime, evaluateLocations(cond))
BY DEF Desired

\* computeDesiredAnnouncements withdraws an outage only after RecoveryMinutes.
LEMMA DesiredHeld ==
    ASSUME GroundTyped, Desired.message # {}, NEW base
    PROVE  WithdrawsHeld(Owning(base, Desired))
<1> DEFINE state == evaluateLocations(cond)
           d == computeDesired(runtime, state)
<1>1. Desired = d /\ d # Nothing
    BY DesiredIs DEF Nothing
<1>2. /\ d.down = Announced(runtime, state, "down")
      /\ d.maint = Announced(runtime, state, "paused")
    BY <1>1 DEF computeDesired
<1>3. SUFFICES ASSUME NEW l \in Locations, l \in runtime.down, l \notin d.down, Visible(cond, l) # {},
                      timer[l] # "over"
               PROVE  l \in d.maint
    BY <1>1, OwningFacts DEF WithdrawsHeld
<1>4. l \in DOMAIN state
    BY <1>3 DEF evaluateLocations
<1>5. state[l] \in Observed \cup {"partial"}
    BY <1>4, DocumentedLocation DEF GroundTyped
<1> HIDE DEF state, d
<1>6. previousState(runtime, l) = "down"
    BY <1>3 DEF previousState
<1>7. ~Held("down", state[l], timer[l]) /\ state[l] # "down"
    BY <1>2, <1>3, <1>4, <1>6 DEF Announced
<1>8. state[l] = "paused"
    BY <1>3, <1>5, <1>7 DEF Held, Improving, Observed, None
<1> QED BY <1>2, <1>4, <1>6, <1>7, <1>8 DEF Announced

\* What follows from a decision p, made of the text seen.
Decided(p, seen) ==
    /\ Valid(p.after) /\ WithdrawsHeld(p.after)
    /\ Valid(p.before) /\ WithdrawsHeld(p.before)
    /\ p.write => /\ p.before = [runtime EXCEPT !.restored = Remembered(seen)]
                  /\ p.text = Shown(p.after)
    /\ (seen.text = Shown(runtime) /\ ~seen.dup) =>
          ~p.blocked /\ (~p.write /\ p.after # runtime => seen.text = Shown(p.after))

\* A decision that only changes what is remembered.
LEMMA DecidedToLeave ==
    ASSUME NEW p, NEW seen, NEW r, Valid(r), WithdrawsHeld(r), ~p.write, p.before = r, p.after = r,
           (seen.text = Shown(runtime) /\ ~seen.dup) => ~p.blocked /\ (r # runtime => seen.text = Shown(r))
    PROVE  Decided(p, seen)
<1>1. Valid(p.after) /\ Valid(p.before)
    OBVIOUS
<1>2. WithdrawsHeld(p.after) /\ WithdrawsHeld(p.before)
    OBVIOUS
<1>3. (seen.text = Shown(runtime) /\ ~seen.dup) =>
          ~p.blocked /\ (~p.write /\ p.after # runtime => seen.text = Shown(p.after))
    OBVIOUS
<1> QED BY <1>1, <1>2, <1>3, Zenon DEF Decided

\* Replace writes what the new ownership vouches for.
LEMMA ReplaceFacts ==
    ASSUME Valid(runtime), NEW seen, NEW d, NEW base, ValidBase(base), runtime.managed \/ d.message # {},
           d.message # {} => WithdrawsHeld(Owning(base, d))
    PROVE  Decided(Replace(seen, d, base), seen)
<1> DEFINE p == Replace(seen, d, base)
<1> SUFFICES Decided(p, seen)
    OBVIOUS
<1>1. d.message # {} => Valid(Owning(base, d)) /\ Shown(Owning(base, d)) = composeManagedAnnounce(base, d.message)
    BY OwningFacts
<1>2. CASE runtime.managed /\ d.message # {} /\ seen.text = composeManagedAnnounce(base, d.message)
  <2>1. p = Leave(Owning(base, d), d, FALSE)
      BY <1>2 DEF Replace
  <2> HIDE DEF p
  <2>2. ~p.write /\ ~p.blocked /\ p.before = Owning(base, d) /\ p.after = Owning(base, d)
      BY <2>1 DEF Leave
  <2> DEFINE r == Owning(base, d)
  <2>3. Valid(r) /\ WithdrawsHeld(r) /\ seen.text = Shown(r)
      BY <1>1, <1>2
  <2> HIDE DEF r
  <2>4. ~p.write /\ ~p.blocked /\ p.before = r /\ p.after = r
      BY <2>2 DEF r
  <2> QED BY <2>3, <2>4, DecidedToLeave
<1>3. CASE ~(runtime.managed /\ d.message # {} /\ seen.text = composeManagedAnnounce(base, d.message))
  <2> DEFINE after == IF d.message = {} THEN Withdrawn(base) ELSE Owning(base, d)
  <2>1. /\ p.write /\ ~p.blocked /\ p.after = after
        /\ p.before = [runtime EXCEPT !.restored = Remembered(seen)]
        /\ p.text = composeManagedAnnounce(base, d.message)
      BY <1>3 DEF Replace
  <2>2. Valid(after) /\ WithdrawsHeld(after) /\ Shown(after) = composeManagedAnnounce(base, d.message)
    <3>1. CASE d.message = {}
        BY <3>1, UnmanagedFacts DEF WithdrawsHeld, Shown, composeManagedAnnounce
    <3>2. CASE d.message # {}
        BY <1>1, <3>2
    <3> QED BY <3>1, <3>2
  <2> HIDE DEF p, after
  <2>3. Valid(p.before) /\ WithdrawsHeld(p.before)
      BY <2>1, RememberedFacts
  <2>4. Valid(p.after) /\ WithdrawsHeld(p.after) /\ p.text = Shown(p.after)
      BY <2>1, <2>2
  <2> QED BY <2>1, <2>3, <2>4, Zenon DEF Decided
<1> QED BY <1>2, <1>3

\* reconcileLocked.
LEMMA PlanFacts ==
    ASSUME Valid(runtime), ValidBase(config.base), NEW seen, NEW d,
           d.message # {} => \A base : WithdrawsHeld(Owning(base, d))
    PROVE  Decided(Plan(seen, d), seen)
<1> DEFINE p == Plan(seen, d)
           kept == [runtime EXCEPT !.restored = Remembered(seen)]
           known == seen.text = Shown(runtime) /\ ~seen.dup
<1> SUFFICES Decided(p, seen)
    OBVIOUS
<1>1. /\ Valid(kept) /\ WithdrawsHeld(kept) /\ (known => kept = runtime)
      /\ Valid([Unmanaged EXCEPT !.restored = Remembered(seen)])
      /\ WithdrawsHeld([Unmanaged EXCEPT !.restored = Remembered(seen)])
    BY RememberedFacts
<1>2. WithdrawsHeld(runtime)
    BY DEF WithdrawsHeld
<1>3. CASE ~Configured
  <2>1. p = Leave(runtime, d, FALSE)
      BY <1>3 DEF Plan
  <2> HIDE DEF p
  <2>2. ~p.write /\ ~p.blocked /\ p.before = runtime /\ p.after = runtime
      BY <2>1 DEF Leave
  <2> QED BY <1>2, <2>2, DecidedToLeave
<1>4. CASE Configured /\ (seen.dup \/ ChangedOutside(seen))
  <2> DEFINE r == [Unmanaged EXCEPT !.restored = Remembered(seen)]
  <2>1. p = Leave(r, d, seen.dup)
      BY <1>4 DEF Plan
  <2> HIDE DEF p, r
  <2>2. ~p.write /\ p.before = r /\ p.after = r
      BY <2>1 DEF Leave
  <2>3. ~known
      BY <1>4 DEF ChangedOutside, Shown
  <2>4. Valid(r) /\ WithdrawsHeld(r)
      BY <1>1 DEF r
  <2> QED BY <2>2, <2>3, <2>4, DecidedToLeave
<1>5. CASE /\ Configured /\ ~(seen.dup \/ ChangedOutside(seen))
           /\ (~runtime.managed /\ d.message = {}) \/ Bases(seen, d) = {}
  <2>1. p = Leave(kept, d, d.message # {})
      BY <1>5 DEF Plan
  <2> HIDE DEF p, kept
  <2>2. ~p.write /\ p.before = kept /\ p.after = kept
      BY <2>1 DEF Leave
  <2>3. known => d.message = {}
    <3>1. SUFFICES ASSUME known, Bases(seen, d) = {} PROVE FALSE
        BY <1>5
    <3>2. ~runtime.managed /\ ForeignBase(seen, d) = {} /\ seen.text = runtime.restored /\ ~seen.dup
        BY <3>1 DEF Bases, Shown
    <3>3. Remembered(seen) = seen.text
        BY <3>2 DEF Remembered
    <3> QED BY <3>2, <3>3 DEF ForeignBase
  <2>4. known => ~p.blocked
      BY <2>1, <2>3 DEF Leave
  <2>5. Valid(kept) /\ WithdrawsHeld(kept) /\ (known => kept = runtime)
      BY <1>1 DEF kept
  <2> QED BY <2>2, <2>4, <2>5, DecidedToLeave
<1>6. CASE /\ Configured /\ ~(seen.dup \/ ChangedOutside(seen))
           /\ ~((~runtime.managed /\ d.message = {}) \/ Bases(seen, d) = {})
  <2> DEFINE b == CHOOSE x \in Bases(seen, d) : TRUE
  <2>1. p = Replace(seen, d, b)
      BY <1>6 DEF Plan
  <2>2. b \in Bases(seen, d)
      BY <1>6
  <2> HIDE DEF b
  <2>3. ValidBase(b)
      BY <2>2, BaseFacts
  <2>4. runtime.managed \in BOOLEAN
      BY DEF Valid, Owner
  <2> QED BY <1>6, <2>1, <2>3, <2>4, ReplaceFacts
<1> QED BY <1>3, <1>4, <1>5, <1>6

-----------------------------------------------------------------------------
(* The steps. *)

\* A pass that moves on.
LEMMA PassFacts ==
    ASSUME PassRecord(pass), NEW ph, NEW a, NEW t
    PROVE  /\ LET q == [pass EXCEPT !.phase = ph]
              IN /\ PassRecord(q) /\ q.phase = ph /\ q.seen = pass.seen /\ q.text = pass.text
                 /\ q.before = pass.before /\ q.after = pass.after
           /\ LET q == [pass EXCEPT !.phase = ph, !.after = a, !.text = t]
              IN PassRecord(q) /\ q.phase = ph /\ q.before = pass.before /\ q.after = a
<1>1. LET q == [pass EXCEPT !.phase = ph]
      IN /\ PassRecord(q) /\ q.phase = ph /\ q.seen = pass.seen /\ q.text = pass.text
         /\ q.before = pass.before /\ q.after = pass.after
    BY DEF PassRecord
<1>2. LET q == [pass EXCEPT !.phase = ph, !.after = a, !.text = t]
      IN PassRecord(q) /\ q.phase = ph /\ q.before = pass.before /\ q.after = a
    BY DEF PassRecord
<1> QED BY <1>1, <1>2

\* Steps that leave ownership and pass alone.
LEMMA Undisturbed ==
    ASSUME AnnounceInv, GroundTyped', UNCHANGED <<runtime, file, pass>>,
           Idle \/ (timer' = timer /\ \A l \in Locations : Visible(cond', l) = Visible(cond, l)),
           UNCHANGED <<remote, author, lost>> \/ author' = "operator"
    PROVE  AnnounceInv'
<1> USE DEF AnnounceInv
<1>1. OwnersValid'
  <2>1. ASSUME pass.phase # None, NEW r \in Ends(pass)
        PROVE  Valid(r) /\ WithdrawsHeld(r)'
    <3>1. Valid(r) /\ WithdrawsHeld(r)
        BY <2>1 DEF OwnersValid
    <3> QED BY <2>1, <3>1 DEF WithdrawsHeld, Idle
  <2> QED BY <2>1 DEF OwnersValid, Ends
<1>2. PassShape'
    BY Zenon DEF PassShape, Remembered
<1>3. WriterKnows'
  <2>1. CASE author' = "operator"
      BY <2>1 DEF WriterKnows
  <2>2. CASE UNCHANGED <<remote, author, lost>>
      BY <2>2 DEF WriterKnows, Known
  <2> QED BY <2>1, <2>2
<1> QED BY <1>1, <1>2, <1>3

\* Steps that end the pass.
LEMMA Ended ==
    ASSUME GroundTyped', Valid(runtime'), Valid(file'), pass' = NoPass,
           author' = "checker" /\ ~lost' => Known(runtime)'
    PROVE  AnnounceInv'
<1>1. NoPass.phase = None /\ PassRecord(NoPass)
    BY DEF NoPass, PassRecord
<1>2. OwnersValid'
    BY <1>1 DEF OwnersValid
<1>3. PassShape'
    BY <1>1 DEF PassShape, None
<1>4. WriterKnows'
    BY <1>1 DEF WriterKnows, None
<1> QED BY <1>2, <1>3, <1>4 DEF AnnounceInv

\* The first state.
LEMMA AnnounceInit == Init => AnnounceInv
<1> SUFFICES ASSUME Init PROVE AnnounceInv
    OBVIOUS
<1>1. GroundTyped
    BY DEF Init, GroundTyped, Conditions, ValidBase
<1>2. NoPass.phase = None /\ PassRecord(NoPass)
    BY DEF NoPass, PassRecord
<1>3. Valid(file) /\ runtime = file
  <2>1. \A u : isAppendableBaseAnnounce(u) => ValidBase(u)
      BY DEF isAppendableBaseAnnounce, ValidBase
  <2> QED BY <2>1, UnmanagedFacts DEF Init
<1>4. OwnersValid /\ PassShape /\ WriterKnows
    BY <1>2, <1>3 DEF Init, OwnersValid, PassShape, WriterKnows, None
<1> QED BY <1>1, <1>4 DEF AnnounceInv

\* A pass starts, or changes nothing.
LEMMA FetchStep ==
    ASSUME AnnounceInv, NEW sync \in BOOLEAN, Fetch(sync)
    PROVE  AnnounceInv'
<1> DEFINE p == Plan(remote, Desired)
<1>1. Idle /\ UNCHANGED <<remote, cond, config, author, lost>> /\ Begin(p, topology'.loaded)
    BY DEF Fetch, history
<1>2. GroundTyped' /\ GroundTyped /\ Valid(runtime) /\ Valid(file) /\ ValidBase(config.base)
    BY <1>1 DEF AnnounceInv, GroundTyped, OwnersValid
<1>3. Desired.message # {} => \A base : WithdrawsHeld(Owning(base, Desired))
    BY <1>2, DesiredHeld
<1>4. Decided(p, remote)
    BY <1>2, <1>3, PlanFacts
<1> HIDE DEF p
<1>5. CASE UNCHANGED <<runtime, file, pass>>
    BY <1>1, <1>2, <1>5, Undisturbed
<1>6. CASE /\ p.write \/ p.after # runtime
           /\ pass' = [phase |-> IF p.write THEN "write" ELSE "persist", seen |-> remote,
                       text |-> p.text, adopted |-> Adopts(remote), before |-> p.before,
                       after |-> p.after, blocked |-> p.blocked,
                       configured |-> p.configured, timer |-> p.timer]
           /\ UNCHANGED <<runtime, file, timer, conflict>>
  <2>1. /\ PassRecord(pass') /\ pass'.seen = remote /\ pass'.text = p.text
        /\ pass'.before = p.before /\ pass'.after = p.after
      BY <1>6 DEF PassRecord
  <2>2. /\ p.write => pass'.phase = "write"
        /\ ~p.write => pass'.phase = "persist"
      BY <1>6
  <2>3. OwnersValid'
    <3>1. \A r : WithdrawsHeld(r)' <=> WithdrawsHeld(r)
        BY <1>1, <1>6 DEF WithdrawsHeld
    <3> QED BY <1>2, <1>4, <1>6, <2>1, <3>1 DEF OwnersValid, Ends, Decided
  <2>4. PassShape'
    <3>1. CASE p.write
      <4>1. p.before = [runtime EXCEPT !.restored = Remembered(remote)] /\ p.text = Shown(p.after)
          BY <1>4, <3>1 DEF Decided
      <4>2. Remembered(remote)' = Remembered(remote)
          BY <1>1, <1>6 DEF Remembered
      <4> QED BY <1>6, <2>1, <2>2, <3>1, <4>1, <4>2 DEF PassShape, Remembered
    <3>2. CASE ~p.write
        BY <2>1, <2>2, <3>2 DEF PassShape
    <3> QED BY <3>1, <3>2
  <2>5. WriterKnows'
    <3>1. SUFFICES ASSUME author = "checker", ~lost
                   PROVE  /\ pass'.phase # "persist" => Known(runtime)'
                          /\ pass'.phase = "write" => remote' = pass'.seen
                          /\ pass'.phase = "persist" => Known(pass.after)'
        BY <1>1 DEF WriterKnows
    <3>2. Known(runtime)
        BY <1>1, <3>1 DEF AnnounceInv, WriterKnows, Idle, None
    <3>3. ~p.write => p.after # runtime
        BY <1>6
    <3>4. ~p.write => remote.text = Shown(p.after) /\ ~remote.dup
        BY <1>4, <3>2, <3>3 DEF Decided, Known
    <3> QED BY <1>1, <1>6, <2>1, <2>2, <3>2, <3>4 DEF Known
  <2> QED BY <1>2, <2>3, <2>4, <2>5 DEF AnnounceInv
<1> QED BY <1>1, <1>5, <1>6 DEF Begin

\* The panel takes the text.
LEMMA WriteStep == ASSUME AnnounceInv, Write PROVE AnnounceInv'
<1>1. /\ pass.phase = "write" /\ pass' = [pass EXCEPT !.phase = "persist"]
      /\ remote'.text = pass.text /\ ~remote'.dup
      /\ UNCHANGED <<cond, config, runtime, file, timer, lost>>
    BY DEF Write, Patched
<1>2. PassRecord(pass) /\ pass.text = Shown(pass.after)
    BY <1>1 DEF AnnounceInv, PassShape
<1>3. PassRecord(pass') /\ pass'.phase = "persist" /\ pass'.after = pass.after /\ pass'.before = pass.before
    BY <1>1, <1>2, PassFacts
<1>4. OwnersValid'
  <2>1. \A r : WithdrawsHeld(r)' <=> WithdrawsHeld(r)
      BY <1>1 DEF WithdrawsHeld
  <2> QED BY <1>1, <1>3, <2>1 DEF AnnounceInv, OwnersValid, Ends, None
<1>5. PassShape' /\ WriterKnows'
    BY <1>1, <1>2, <1>3 DEF PassShape, WriterKnows, Known
<1>6. GroundTyped'
    BY <1>1 DEF AnnounceInv, GroundTyped
<1> QED BY <1>4, <1>5, <1>6 DEF AnnounceInv

\* What a pass that is about to write knows.
LEMMA BeforeWriting ==
    ASSUME AnnounceInv, pass.phase = "write", author = "checker", ~lost
    PROVE  Known(runtime) /\ pass.before = runtime
<1>1. Known(runtime) /\ remote = pass.seen
    BY DEF AnnounceInv, WriterKnows
<1>2. pass.before = [runtime EXCEPT !.restored = Remembered(pass.seen)] /\ Valid(runtime)
    BY DEF AnnounceInv, PassShape, OwnersValid
<1> QED BY <1>1, <1>2, RememberedFacts DEF Known

\* The write fails, or its answer is lost.
LEMMA WriteFailsStep == ASSUME AnnounceInv, WriteFails PROVE AnnounceInv'
<1>1. /\ pass.phase = "write" /\ UNCHANGED <<cond, config, project, asked>>
      /\ UNCHANGED <<remote, author, lost>> \/ lost'
    BY DEF WriteFails, Patched, history
<1>2. GroundTyped'
    BY <1>1 DEF AnnounceInv, GroundTyped
<1>3. CASE pass.before = runtime /\ Finish(pass, runtime, FALSE, pass.seen)
  <2>1. runtime' = runtime /\ file' = file /\ pass' = NoPass
      BY <1>3 DEF Finish
  <2>2. author' = "checker" /\ ~lost' => Known(runtime)'
    <3>1. SUFFICES ASSUME author' = "checker", ~lost' PROVE Known(runtime)'
        OBVIOUS
    <3>2. author = "checker" /\ ~lost /\ remote' = remote
        BY <1>1, <3>1
    <3>3. Known(runtime)
        BY <1>1, <3>2, BeforeWriting
    <3> QED BY <2>1, <3>2, <3>3 DEF Known
  <2>3. Valid(runtime') /\ Valid(file')
      BY <2>1 DEF AnnounceInv, OwnersValid
  <2> QED BY <1>2, <2>1, <2>2, <2>3, Ended
<1>4. CASE /\ pass.before # runtime
           /\ pass' = [pass EXCEPT !.phase = "persist", !.after = pass.before, !.text = pass.seen.text]
           /\ UNCHANGED <<runtime, file, topology, timer, conflict>>
  <2>1. PassRecord(pass)
      BY DEF AnnounceInv, PassShape
  <2>2. PassRecord(pass') /\ pass'.phase = "persist" /\ pass'.after = pass.before /\ pass'.before = pass.before
    <3> DEFINE a == pass.before
               t == pass.seen.text
    <3>1. pass' = [pass EXCEPT !.phase = "persist", !.after = a, !.text = t] /\ a = pass.before
        BY <1>4
    <3> HIDE DEF a, t
    <3> QED BY <2>1, <3>1 DEF PassRecord
  <2>3. OwnersValid'
    <3>1. \A r : WithdrawsHeld(r)' <=> WithdrawsHeld(r)
        BY <1>1, <1>4 DEF WithdrawsHeld
    <3> QED BY <1>1, <1>4, <2>2, <3>1 DEF AnnounceInv, OwnersValid, Ends, None
  <2>4. PassShape'
      BY <2>2 DEF PassShape
  <2>5. WriterKnows'
      BY <1>1, <1>4, BeforeWriting DEF WriterKnows
  <2> QED BY <1>2, <2>3, <2>4, <2>5 DEF AnnounceInv
<1> QED BY <1>3, <1>4 DEF WriteFails

\* The pass is over, whether the file was written or not.
LEMMA PersistStep == ASSUME AnnounceInv, Persist \/ PersistFails PROVE AnnounceInv'
<1>1. /\ pass.phase = "persist" /\ runtime' = pass.after /\ file' \in {pass.after, file} /\ pass' = NoPass
      /\ UNCHANGED <<remote, cond, config, author, lost>>
    BY DEF Persist, PersistFails, Finish, history
<1>2. Valid(pass.after) /\ Valid(file)
    BY <1>1 DEF AnnounceInv, OwnersValid, Ends, None
<1>3. GroundTyped'
    BY <1>1 DEF AnnounceInv, GroundTyped
<1>4. author' = "checker" /\ ~lost' => Known(runtime)'
  <2>1. SUFFICES ASSUME author = "checker", ~lost PROVE Known(runtime)'
      BY <1>1
  <2>2. Known(pass.after)
      BY <1>1, <2>1 DEF AnnounceInv, WriterKnows
  <2> QED BY <1>1, <2>2 DEF Known
<1> QED BY <1>1, <1>2, <1>3, <1>4, Ended

\* A restart finds the ownership it had, or it is lost.
LEMMA RestartStep == ASSUME AnnounceInv, Restart PROVE AnnounceInv'
<1>1. /\ runtime' = file /\ file' = file /\ pass' = NoPass /\ UNCHANGED <<remote, config, author>>
      /\ cond' = [m \in Members |-> IF cond[m] \in {"down", "paused"} THEN "pending" ELSE cond[m]]
      /\ lost' = (lost \/ (IF pass.phase = "persist" THEN pass.after ELSE runtime) # file)
    BY DEF Restart
<1>2. Valid(file) /\ GroundTyped
    BY DEF AnnounceInv, OwnersValid
<1>3. GroundTyped'
    BY <1>1, <1>2 DEF GroundTyped, Conditions
<1>4. author' = "checker" /\ ~lost' => Known(runtime)'
  <2>1. SUFFICES ASSUME author = "checker", ~lost' PROVE Known(runtime)'
      BY <1>1
  <2>2. ~lost /\ (IF pass.phase = "persist" THEN pass.after ELSE runtime) = file
      BY <1>1, <2>1
  <2>3. Known(file)
      BY <2>1, <2>2 DEF AnnounceInv, WriterKnows
  <2> QED BY <1>1, <2>3 DEF Known
<1> QED BY <1>1, <1>2, <1>3, <1>4, Ended

\* What happens around a pass.
LEMMA AroundStep ==
    ASSUME AnnounceInv,
           \/ Ask \/ FetchFails \/ DelayPasses \/ AddHeader \/ AdoptAnnounceBase \/ ForgetAnnounceBase
           \/ \E view \in Views : Observe(view)
           \/ \E l \in Locations : RecoveryPasses(l)
           \/ \E text \in OpTexts \cup {<<>>}, keep \in BOOLEAN : EditText(text, keep)
           \/ \E on \in BOOLEAN, rules \in RuleSets : UpdateSettings(on, rules)
           \/ UNCHANGED vars
    PROVE  AnnounceInv'
<1>1. UNCHANGED <<runtime, file, pass>>
    BY DEF Ask, FetchFails, DelayPasses, AddHeader, AdoptAnnounceBase, ForgetAnnounceBase, Observe,
           RecoveryPasses, EditText, UpdateSettings, vars
<1>2. Idle \/ UNCHANGED <<timer, cond>>
    BY DEF Ask, FetchFails, DelayPasses, AddHeader, AdoptAnnounceBase, ForgetAnnounceBase, Observe,
           RecoveryPasses, EditText, UpdateSettings, vars
<1>3. UNCHANGED <<remote, author, lost>> \/ author' = "operator"
    BY DEF Ask, FetchFails, DelayPasses, AddHeader, AdoptAnnounceBase, ForgetAnnounceBase, Observe,
           RecoveryPasses, EditText, UpdateSettings, vars, history
<1>4. GroundTyped'
  <2>1. cond' = cond \/ cond' \in Views
      BY DEF Ask, FetchFails, DelayPasses, AddHeader, AdoptAnnounceBase, ForgetAnnounceBase, Observe,
             RecoveryPasses, EditText, UpdateSettings, vars
  <2> DEFINE Shape(c) == /\ DOMAIN c = {"on", "rules", "base"} /\ c = [x \in DOMAIN c |-> c[x]]
                         /\ ValidBase(c.base)
  <2>2. Shape(config)
      BY DEF AnnounceInv, GroundTyped
  <2>3. Shape(config')
    <3>1. CASE config' = config
        BY <2>2, <3>1
    <3>2. ASSUME NEW b, ValidBase(b), config' = [config EXCEPT !.base = b]
          PROVE  Shape(config')
        BY <2>2, <3>2
    <3>3. CASE AdoptAnnounceBase \/ ForgetAnnounceBase
        BY <3>2, <3>3 DEF AdoptAnnounceBase, ForgetAnnounceBase, ValidBase
    <3>4. CASE \E on \in BOOLEAN, rules \in RuleSets : UpdateSettings(on, rules)
        BY <2>2, <3>4 DEF UpdateSettings
    <3> QED BY <3>1, <3>3, <3>4 DEF Ask, FetchFails, DelayPasses, AddHeader, Observe, RecoveryPasses,
               EditText, vars
  <2> QED BY <2>1, <2>3, ViewsAssumption DEF AnnounceInv, GroundTyped
<1> QED BY <1>1, <1>2, <1>3, <1>4, Undisturbed

\* The checker forgets every status, and keeps which members there are.
LEMMA MaintenanceStep ==
    ASSUME AnnounceInv, NEW on \in BOOLEAN, SetProjectMaintenance(on)
    PROVE  AnnounceInv'
<1>1. /\ cond' = [m \in Members |-> IF cond[m] = "gone" THEN "gone" ELSE "pending"]
      /\ UNCHANGED <<remote, config, runtime, file, timer, pass, author, lost>>
    BY DEF SetProjectMaintenance, history
<1>2. GroundTyped'
    BY <1>1 DEF AnnounceInv, GroundTyped, Conditions
<1>3. \A l \in Locations : Visible(cond', l) = Visible(cond, l)
    BY <1>1 DEF Visible
<1> QED BY <1>1, <1>2, <1>3, Undisturbed

\* Every step.
LEMMA AnnounceStep == AnnounceInv /\ [Next]_vars => AnnounceInv'
<1> SUFFICES ASSUME AnnounceInv, [Next]_vars PROVE AnnounceInv'
    OBVIOUS
<1>1. CASE \E sync \in BOOLEAN : Fetch(sync)
    BY <1>1, FetchStep
<1>2. CASE Write
    BY <1>2, WriteStep
<1>3. CASE WriteFails
    BY <1>3, WriteFailsStep
<1>4. CASE Persist \/ PersistFails
    BY <1>4, PersistStep
<1>5. CASE \E on \in BOOLEAN : SetProjectMaintenance(on)
    BY <1>5, MaintenanceStep
<1>6. CASE Restart
    BY <1>6, RestartStep
<1>7. CASE \/ Ask \/ FetchFails \/ DelayPasses \/ AddHeader \/ AdoptAnnounceBase \/ ForgetAnnounceBase
           \/ \E view \in Views : Observe(view)
           \/ \E l \in Locations : RecoveryPasses(l)
           \/ \E text \in OpTexts \cup {<<>>}, keep \in BOOLEAN : EditText(text, keep)
           \/ \E on \in BOOLEAN, rules \in RuleSets : UpdateSettings(on, rules)
           \/ UNCHANGED vars
    BY <1>7, AroundStep
<1> QED BY <1>1, <1>2, <1>3, <1>4, <1>5, <1>6, <1>7 DEF Next

\* The fairness of Spec is not needed for what follows.
LEMMA SpecIsSafe == Spec => Init /\ [][Next]_vars
BY PTL DEF Spec

\* The checker owns what it wrote last, or knows that it lost it: the strengthening
\* that carries ownership through passes, failed requests and restarts.
THEOREM AnnounceInvariant == Spec => []AnnounceInv
BY SpecIsSafe, AnnounceInit, AnnounceStep, PTL

\* NoSelfLock: a text the checker wrote last is not refused as unrecognized by a later pass,
\* and validateRuntime accepts the file it saved last, whatever failed in between.
THEOREM NeverLocksItself == Spec => []NoSelfLock
<1>1. ASSUME AnnounceInv PROVE NoSelfLock
  <2>1. /\ GroundTyped /\ Valid(runtime) /\ Valid(file) /\ ValidBase(config.base)
      BY <1>1 DEF AnnounceInv, OwnersValid, GroundTyped
  <2>2. ASSUME author = "checker", ~lost, Idle
        PROVE  ~Plan(remote, Desired).blocked
    <3>1. remote.text = Shown(runtime) /\ ~remote.dup
        BY <1>1, <2>2 DEF AnnounceInv, WriterKnows, Known, Idle, None
    <3>2. Desired.message # {} => \A base : WithdrawsHeld(Owning(base, Desired))
        BY <2>1, DesiredHeld
    <3>3. Decided(Plan(remote, Desired), remote)
        BY <2>1, <3>2, PlanFacts
    <3> QED BY <3>1, <3>3 DEF Decided
  <2>3. /\ file.managed => file.message # {} /\ (file.base = <<>> \/ isManagedBaseAnnounce(file.base))
        /\ file.restored = <<>> \/ isManagedBaseAnnounce(file.restored)
      BY <2>1 DEF Valid, ValidBase
  <2> QED BY <2>2, <2>3 DEF NoSelfLock
<1> QED BY <1>1, AnnounceInvariant, PTL

\* RecoveryHeld: an announced outage is withdrawn only when the location has been better for
\* RecoveryMinutes, or is announced as maintenance, or has no members left.
THEOREM OutagesAreHeld == Spec => RecoveryHeld
<1> DEFINE Withdraws == \A l \in Locations :
              (/\ runtime.managed /\ l \in runtime.down
               /\ runtime'.managed /\ l \notin runtime'.down /\ ~lost')
              => timer[l] = "over" \/ l \in runtime'.maint \/ Visible(cond, l) = {}
<1>1. ASSUME AnnounceInv, [Next]_vars PROVE Withdraws
  <2>1. CASE runtime' = runtime
      BY <2>1
  <2>2. CASE Persist \/ PersistFails
    <3>1. pass.phase = "persist" /\ runtime' = pass.after
        BY <2>2 DEF Persist, PersistFails, Finish
    <3>2. WithdrawsHeld(pass.after)
        BY <1>1, <3>1 DEF AnnounceInv, OwnersValid, Ends, None
    <3> QED BY <3>1, <3>2 DEF WithdrawsHeld
  <2>3. CASE Restart
    <3>1. /\ runtime' = file
          /\ lost' = (lost \/ (IF pass.phase = "persist" THEN pass.after ELSE runtime) # file)
        BY <2>3 DEF Restart
    <3>2. CASE lost'
        BY <3>2
    <3>3. CASE ~lost' /\ pass.phase # "persist"
        BY <3>1, <3>3
    <3>4. CASE ~lost' /\ pass.phase = "persist"
      <4>1. runtime' = pass.after
          BY <3>1, <3>4
      <4>2. WithdrawsHeld(pass.after)
          BY <1>1, <3>4 DEF AnnounceInv, OwnersValid, Ends, None
      <4> QED BY <4>1, <4>2 DEF WithdrawsHeld
    <3> QED BY <3>2, <3>3, <3>4
  <2>4. CASE WriteFails
      BY <2>1, <2>4 DEF WriteFails, Finish
  <2>5. CASE \E sync \in BOOLEAN : Fetch(sync)
      BY <2>1, <2>5 DEF Fetch, Begin
  <2> QED BY <1>1, <2>1, <2>2, <2>3, <2>4, <2>5
             DEF Next, vars, Ask, FetchFails, DelayPasses, AddHeader, AdoptAnnounceBase, ForgetAnnounceBase,
                 Observe, RecoveryPasses, EditText, UpdateSettings, SetProjectMaintenance, Write
<1>2. Spec => [][Withdraws]_vars
    BY <1>1, SpecIsSafe, AnnounceInvariant, PTL
<1> QED BY <1>2 DEF RecoveryHeld

-----------------------------------------------------------------------------
(* Types. *)

\* The locations an ownership announces, each in one way.
AnnouncedOnce(r) ==
    /\ r.down \cup r.partial \cup r.maint \subseteq Locations
    /\ r.down \cap (r.partial \cup r.maint) = {} /\ r.partial \cap r.maint = {}

Timers == [Locations -> {None, "running", "over"}]
Conflicts == {None, "blocked", "overdue", "notified"}

\* The record of the topology, and the header in the panel.
TopologyTyped(t) == /\ DOMAIN t = {"loaded", "squad"} /\ t = [x \in DOMAIN t |-> t[x]]
                    /\ t.loaded \in BOOLEAN /\ t.squad.dup \in BOOLEAN
RemoteTyped(r) == /\ DOMAIN r = {"text", "dup"} /\ r = [x \in DOMAIN r |-> r[x]]
                  /\ r.dup \in BOOLEAN

PassTyped(p) ==
    /\ p.phase \in {None, "write", "persist"}
    /\ p.phase # None => /\ AnnouncedOnce(p.after) /\ AnnouncedOnce(p.before)
                         /\ p.timer \in Timers /\ p.seen.dup \in BOOLEAN

\* The strengthening of TypeOK: its parts, with what a pass carries to its end.
Typing ==
    /\ RemoteTyped(remote) /\ TopologyTyped(topology)
    /\ cond \in [Members -> Conditions] /\ config.on \in BOOLEAN /\ config.rules \subseteq Rules
    /\ timer \in Timers /\ conflict \in Conflicts
    /\ AnnouncedOnce(runtime) /\ AnnouncedOnce(file)
    /\ PassTyped(pass)
    /\ project \in BOOLEAN /\ asked \in BOOLEAN /\ events \in 0..MaxEvents
    /\ author \in {"operator", "checker"} /\ lost \in BOOLEAN

\* What is left of an ownership announces the same, or nothing.
LEMMA AnnouncedFacts ==
    /\ AnnouncedOnce(Unmanaged)
    /\ \A r, t : Owner(r) /\ AnnouncedOnce(r) => AnnouncedOnce([r EXCEPT !.restored = t])
    /\ \A t : AnnouncedOnce(Withdrawn(t))
<1>1. AnnouncedOnce(Unmanaged) /\ Owner(Unmanaged)
    BY DEF AnnouncedOnce, Unmanaged, Owner
<1>2. ASSUME NEW r, NEW t, Owner(r), AnnouncedOnce(r)
      PROVE  AnnouncedOnce([r EXCEPT !.restored = t])
  <2> DEFINE a == r.managed  b == r.message  c == r.base  d == r.down  e == r.partial  f == r.maint
             g == r.restored
  <2>1. r = [managed |-> a, message |-> b, base |-> c, down |-> d, partial |-> e, maint |-> f, restored |-> g]
      BY <1>2, Zenon DEF Owner
  <2>2. /\ d \cup e \cup f \subseteq Locations
        /\ d \cap (e \cup f) = {} /\ e \cap f = {}
      BY <1>2 DEF AnnouncedOnce
  <2> HIDE DEF a, b, c, d, e, f, g
  <2>3. [r EXCEPT !.restored = t]
           = [managed |-> a, message |-> b, base |-> c, down |-> d, partial |-> e, maint |-> f, restored |-> t]
      BY <2>1
  <2> QED BY <2>2, <2>3 DEF AnnouncedOnce
<1>3. \A t : AnnouncedOnce(Withdrawn(t))
    BY <1>1, <1>2 DEF Withdrawn
<1> QED BY <1>1, <1>2, <1>3

\* The announced locations are told apart by what they are announced as.
LEMMA DesiredOnce == AnnouncedOnce(Desired) /\ Desired.timer \in Timers
<1> DEFINE state == evaluateLocations(cond)
           d == computeDesired(runtime, state)
<1>1. Desired = d
    BY DesiredIs
<1>2. DOMAIN state \subseteq Locations
    BY DEF evaluateLocations
<1> HIDE DEF state
<1>3. CASE ~config.on \/ DOMAIN state = {}
  <2>1. d = Nothing
      BY <1>3 DEF computeDesired
  <2> QED BY <1>1, <2>1 DEF Nothing, AnnouncedOnce, Timers
<1>4. CASE ~(~config.on \/ DOMAIN state = {})
  <2> DEFINE down == Announced(runtime, state, "down")
             partial == Announced(runtime, state, "partial")
             maint == Announced(runtime, state, "paused")
  <2>1. /\ d.down = down /\ d.partial = partial /\ d.maint = maint
        /\ d.timer = [l \in Locations |-> IF /\ l \in DOMAIN state
                                             /\ Improving(previousState(runtime, l), state[l])
                                             /\ timer[l] # "over"
                                          THEN "running" ELSE None]
      BY <1>4 DEF computeDesired
  <2>2. d.timer \in Timers
      BY <2>1 DEF Timers
  <2>3. /\ down \cup partial \cup maint \subseteq Locations
        /\ down \cap (partial \cup maint) = {} /\ partial \cap maint = {}
    <3> DEFINE F(l) == IF Held(previousState(runtime, l), state[l], timer[l])
                       THEN previousState(runtime, l) ELSE state[l]
    <3>1. \A s : Announced(runtime, state, s) = {l \in DOMAIN state : F(l) = s}
        BY DEF Announced
    <3> HIDE DEF F
    <3>2. /\ \A l \in down : l \in DOMAIN state /\ F(l) = "down"
          /\ \A l \in partial : l \in DOMAIN state /\ F(l) = "partial"
          /\ \A l \in maint : l \in DOMAIN state /\ F(l) = "paused"
        BY <3>1
    <3> HIDE DEF down, partial, maint
    <3> QED BY <1>2, <3>2
  <2> HIDE DEF d, down, partial, maint
  <2> QED BY <1>1, <2>1, <2>2, <2>3 DEF AnnouncedOnce
<1> QED BY <1>3, <1>4

\* A decision announces every location in one way.
PlanTyped(p) == AnnouncedOnce(p.after) /\ AnnouncedOnce(p.before) /\ p.timer \in Timers

\* reconcileLocked, for the types.
LEMMA PlanTypes ==
    ASSUME AnnouncedOnce(runtime), Owner(runtime)
    PROVE  PlanTyped(Plan(remote, Desired))
<1> DEFINE p == Plan(remote, Desired)
<1>1. Desired.timer \in Timers /\ AnnouncedOnce(Desired)
    BY DesiredOnce
<1>2. /\ AnnouncedOnce([runtime EXCEPT !.restored = Remembered(remote)])
      /\ AnnouncedOnce([Unmanaged EXCEPT !.restored = Remembered(remote)])
      /\ \A b : AnnouncedOnce(Withdrawn(b)) /\ AnnouncedOnce(Owning(b, Desired))
  <2>1. \A b : AnnouncedOnce(Owning(b, Desired))
      BY <1>1 DEF AnnouncedOnce, Owning
  <2>2. Owner(Unmanaged)
      BY DEF Owner, Unmanaged
  <2> QED BY <2>1, <2>2, AnnouncedFacts
<1>3. \A r, blocked : AnnouncedOnce(r) => PlanTyped(Leave(r, Desired, blocked))
    BY <1>1 DEF PlanTyped, Leave
<1>4. ASSUME NEW b PROVE PlanTyped(Replace(remote, Desired, b))
  <2>1. CASE runtime.managed /\ Desired.message # {} /\ remote.text = composeManagedAnnounce(b, Desired.message)
      BY <1>2, <1>3, <2>1 DEF Replace
  <2>2. CASE ~(runtime.managed /\ Desired.message # {} /\ remote.text = composeManagedAnnounce(b, Desired.message))
    <3> DEFINE q == Replace(remote, Desired, b)
               after == IF Desired.message = {} THEN Withdrawn(b) ELSE Owning(b, Desired)
    <3>1. /\ q.after = after /\ q.timer = Desired.timer
          /\ q.before = [runtime EXCEPT !.restored = Remembered(remote)]
        BY <2>2 DEF Replace
    <3>2. AnnouncedOnce(after)
        BY <1>2
    <3> SUFFICES PlanTyped(q)
        OBVIOUS
    <3> HIDE DEF q, after
    <3> QED BY <1>1, <1>2, <3>1, <3>2 DEF PlanTyped
  <2> QED BY <2>1, <2>2
<1> QED BY <1>2, <1>3, <1>4 DEF Plan

\* The first state.
LEMMA TypingInit == Init => Typing
<1> SUFFICES ASSUME Init PROVE Typing
    OBVIOUS
<1>1. RemoteTyped(remote) /\ TopologyTyped(topology)
    BY DEF Init, RemoteTyped, TopologyTyped
<1>2. /\ cond \in [Members -> Conditions] /\ config.on \in BOOLEAN /\ config.rules \subseteq Rules
      /\ timer \in Timers /\ conflict \in Conflicts
    BY DEF Init, Conditions, Timers, Conflicts
<1>3. AnnouncedOnce(runtime) /\ AnnouncedOnce(file)
    BY AnnouncedFacts DEF Init
<1>4. PassTyped(pass)
    BY DEF Init, NoPass, PassTyped
<1>5. /\ project \in BOOLEAN /\ asked \in BOOLEAN /\ events \in 0..MaxEvents
      /\ author \in {"operator", "checker"} /\ lost \in BOOLEAN
  <2>1. project = FALSE /\ asked = TRUE /\ events = 0 /\ author = "operator" /\ lost = FALSE
      BY Zenon DEF Init
  <2>2. 0 \in 0..MaxEvents
      BY BoundAssumption
  <2> QED BY <2>1, <2>2
<1> QED BY <1>1, <1>2, <1>3, <1>4, <1>5 DEF Typing

\* The end of a pass.
LEMMA FinishTypes ==
    ASSUME Typing, NEW p, NEW r, NEW saved, NEW squad, Finish(p, r, saved, squad),
           AnnouncedOnce(r), p.timer \in Timers, squad.dup \in BOOLEAN
    PROVE  /\ TopologyTyped(topology') /\ timer' \in Timers /\ conflict' \in Conflicts
           /\ AnnouncedOnce(runtime') /\ AnnouncedOnce(file') /\ PassTyped(pass')
<1>1. runtime' = r /\ file' \in {r, file} /\ timer' = p.timer /\ pass' = NoPass
    BY DEF Finish
<1>2. TopologyTyped(topology')
  <2>1. topology' = [topology EXCEPT !.squad = squad] /\ TopologyTyped(topology)
      BY DEF Finish, Typing
  <2> QED BY <2>1 DEF TopologyTyped
<1>3. conflict' \in Conflicts
    BY DEF Finish, trackConflicts, Typing, Conflicts
<1>4. PassTyped(pass')
    BY <1>1 DEF NoPass, PassTyped
<1> QED BY <1>1, <1>2, <1>3, <1>4 DEF Typing

\* A pass starts, or changes nothing.
LEMMA FetchTypes ==
    ASSUME AnnounceInv, Typing, NEW sync \in BOOLEAN, Fetch(sync)
    PROVE  Typing'
<1> DEFINE p == Plan(remote, Desired)
<1>1. /\ UNCHANGED <<remote, cond, config, project, events, author, lost>> /\ asked' = FALSE
      /\ topology' = [loaded |-> topology.loaded \/ sync, squad |-> remote]
      /\ Begin(p, topology'.loaded)
    BY DEF Fetch, history
<1>2. PlanTyped(p)
    BY PlanTypes DEF AnnounceInv, OwnersValid, Valid, Typing
<1>3. RemoteTyped(remote) /\ TopologyTyped(topology')
    BY <1>1 DEF Typing, RemoteTyped, TopologyTyped
<1> HIDE DEF p
<1>4. /\ timer' \in Timers /\ conflict' \in Conflicts
      /\ UNCHANGED <<runtime, file>> /\ PassTyped(pass')
  <2>1. CASE /\ timer' \in {timer, p.timer} /\ UNCHANGED <<runtime, file, pass>>
             /\ conflict' = conflict \/ trackConflicts(p, runtime)
      BY <1>2, <2>1 DEF PlanTyped, trackConflicts, Typing, Conflicts
  <2>2. CASE /\ pass' = [phase |-> IF p.write THEN "write" ELSE "persist", seen |-> remote,
                         text |-> p.text, adopted |-> Adopts(remote), before |-> p.before,
                         after |-> p.after, blocked |-> p.blocked,
                         configured |-> p.configured, timer |-> p.timer]
             /\ UNCHANGED <<runtime, file, timer, conflict>>
    <3>1. /\ pass'.phase \in {"write", "persist"} /\ pass'.seen = remote /\ pass'.after = p.after
          /\ pass'.before = p.before /\ pass'.timer = p.timer
        BY <2>2
    <3> QED BY <1>2, <1>3, <2>2, <3>1 DEF PlanTyped, PassTyped, RemoteTyped, Typing
  <2> QED BY <1>1, <2>1, <2>2 DEF Begin
<1> QED BY <1>1, <1>3, <1>4 DEF Typing

\* The steps of a pass after that.
LEMMA PassTypes ==
    ASSUME AnnounceInv, Typing, Write \/ WriteFails \/ Persist \/ PersistFails
    PROVE  Typing'
<1>1. /\ UNCHANGED <<cond, config, project, asked>>
      /\ events' = events \/ (events < MaxEvents /\ events' = events + 1)
      /\ UNCHANGED <<remote, author, lost>>
         \/ (remote' = [text |-> pass.text, dup |-> FALSE] /\ author' = "checker" /\ (lost' = lost \/ lost' = TRUE))
    BY DEF Write, WriteFails, Persist, PersistFails, Patched, Event, Allowed, history
<1>2. RemoteTyped(remote')
  <2>1. CASE remote' = remote
      BY <2>1 DEF Typing
  <2>2. CASE remote' = [text |-> pass.text, dup |-> FALSE]
      BY <2>2 DEF RemoteTyped
  <2> QED BY <1>1, <2>1, <2>2
<1>3. /\ PassRecord(pass) /\ pass.phase # None /\ Owner(runtime)
      /\ AnnouncedOnce(pass.after) /\ AnnouncedOnce(pass.before)
      /\ pass.timer \in Timers /\ pass.seen.dup \in BOOLEAN
    BY DEF Write, WriteFails, Persist, PersistFails, None, AnnounceInv, PassShape, OwnersValid, Valid,
           Typing, PassTyped
<1>4. /\ TopologyTyped(topology') /\ timer' \in Timers /\ conflict' \in Conflicts
      /\ AnnouncedOnce(runtime') /\ AnnouncedOnce(file') /\ PassTyped(pass')
  <2>1. ASSUME NEW ph \in {"persist"}, NEW a, AnnouncedOnce(a), NEW t,
               \/ pass' = [pass EXCEPT !.phase = ph]
               \/ pass' = [pass EXCEPT !.phase = ph, !.after = a, !.text = t]
        PROVE  PassTyped(pass')
    <3>1. /\ pass'.phase = ph /\ pass'.after \in {pass.after, a} /\ pass'.before = pass.before
          /\ pass'.timer = pass.timer /\ pass'.seen = pass.seen
        BY <1>3, <2>1 DEF PassRecord
    <3> QED BY <1>3, <2>1, <3>1 DEF PassTyped
  <2>2. CASE Write
    <3>1. pass' = [pass EXCEPT !.phase = "persist"] /\ UNCHANGED <<runtime, file, topology, timer, conflict>>
        BY <2>2 DEF Write
    <3> QED BY <1>3, <2>1, <3>1 DEF Typing
  <2>3. CASE WriteFails
    <3>1. CASE Finish(pass, runtime, FALSE, pass.seen)
      <4>1. AnnouncedOnce(runtime)
          BY DEF Typing
      <4> QED BY <1>3, <3>1, <4>1, FinishTypes
    <3>2. CASE /\ pass' = [pass EXCEPT !.phase = "persist", !.after = pass.before, !.text = pass.seen.text]
               /\ UNCHANGED <<runtime, file, topology, timer, conflict>>
        BY <1>3, <2>1, <3>2 DEF Typing
    <3> QED BY <2>3, <3>1, <3>2 DEF WriteFails
  <2>4. CASE Persist
    <3>1. Finish(pass, pass.after, TRUE, SquadAfter(pass))
        BY <2>4 DEF Persist
    <3>2. SquadAfter(pass).dup \in BOOLEAN
        BY <1>3 DEF SquadAfter
    <3> QED BY <1>3, <3>1, <3>2, FinishTypes
  <2>5. CASE PersistFails
    <3>1. Finish(pass, pass.after, FALSE, pass.seen)
        BY <2>5 DEF PersistFails
    <3> QED BY <1>3, <3>1, FinishTypes
  <2> QED BY <2>2, <2>3, <2>4, <2>5
<1>5. events' \in 0..MaxEvents
    BY <1>1, BoundAssumption DEF Typing
<1> QED BY <1>1, <1>2, <1>4, <1>5 DEF Typing

\* The steps around a pass.
LEMMA AroundTypes ==
    ASSUME AnnounceInv, Typing,
           \/ Ask \/ FetchFails \/ DelayPasses \/ AddHeader \/ AdoptAnnounceBase \/ ForgetAnnounceBase \/ Restart
           \/ \E view \in Views : Observe(view)
           \/ \E l \in Locations : RecoveryPasses(l)
           \/ \E text \in OpTexts \cup {<<>>}, keep \in BOOLEAN : EditText(text, keep)
           \/ \E on \in BOOLEAN, rules \in RuleSets : UpdateSettings(on, rules)
           \/ \E on \in BOOLEAN : SetProjectMaintenance(on)
           \/ UNCHANGED vars
    PROVE  Typing'
<1>1. events' = events \/ (events < MaxEvents /\ events' = events + 1)
    BY DEF Ask, FetchFails, DelayPasses, AddHeader, AdoptAnnounceBase, ForgetAnnounceBase, Restart, Observe,
           RecoveryPasses, EditText, UpdateSettings, SetProjectMaintenance, vars, Event, Allowed
<1>2. events' \in 0..MaxEvents
    BY <1>1, BoundAssumption DEF Typing
<1>3. RemoteTyped(remote')
  <2>1. CASE AddHeader
    <3>1. remote' = [remote EXCEPT !.dup = TRUE] /\ RemoteTyped(remote)
        BY <2>1 DEF AddHeader, Typing
    <3> QED BY <3>1 DEF RemoteTyped
  <2>2. CASE \E text \in OpTexts \cup {<<>>}, keep \in BOOLEAN : EditText(text, keep)
    <3>1. \E t : remote' = [text |-> t, dup |-> FALSE]
        BY <2>2 DEF EditText
    <3> QED BY <3>1 DEF RemoteTyped
  <2>3. CASE remote' = remote
      BY <2>3 DEF Typing
  <2> QED BY <2>1, <2>2, <2>3 DEF Ask, FetchFails, DelayPasses, AdoptAnnounceBase, ForgetAnnounceBase, Restart,
             Observe, RecoveryPasses, UpdateSettings, SetProjectMaintenance, vars
<1>4. TopologyTyped(topology')
  <2>1. CASE topology' = topology
      BY <2>1 DEF Typing
  <2>2. CASE topology' = [loaded |-> TRUE, squad |-> remote]
      BY <2>2 DEF Typing, TopologyTyped, RemoteTyped
  <2>3. CASE topology' = [loaded |-> FALSE, squad |-> [text |-> <<>>, dup |-> FALSE]]
      BY <2>3 DEF TopologyTyped
  <2> QED BY <2>1, <2>2, <2>3 DEF Ask, FetchFails, DelayPasses, AddHeader, AdoptAnnounceBase, ForgetAnnounceBase,
             Restart, Observe, RecoveryPasses, EditText, UpdateSettings, SetProjectMaintenance, vars
<1>5. cond' \in [Members -> Conditions]
  <2>1. CASE \E view \in Views : Observe(view)
      BY <2>1, ViewsAssumption DEF Observe
  <2>2. CASE Restart
      BY <2>2 DEF Restart, Typing, Conditions
  <2>3. CASE \E on \in BOOLEAN : SetProjectMaintenance(on)
      BY <2>3 DEF SetProjectMaintenance, Conditions
  <2>4. CASE cond' = cond
      BY <2>4 DEF Typing
  <2> QED BY <2>1, <2>2, <2>3, <2>4 DEF Ask, FetchFails, DelayPasses, AddHeader, AdoptAnnounceBase,
             ForgetAnnounceBase, RecoveryPasses, EditText, UpdateSettings, vars
<1>6. config'.on \in BOOLEAN /\ config'.rules \subseteq Rules
  <2>1. /\ DOMAIN config = {"on", "rules", "base"} /\ config = [x \in DOMAIN config |-> config[x]]
        /\ config.on \in BOOLEAN /\ config.rules \subseteq Rules
      BY DEF AnnounceInv, GroundTyped, Typing
  <2>2. CASE \E on \in BOOLEAN, rules \in RuleSets : UpdateSettings(on, rules)
    <3>1. PICK on \in BOOLEAN : \E rules \in RuleSets : UpdateSettings(on, rules)
        BY <2>2
    <3>2. PICK rules \in RuleSets : UpdateSettings(on, rules)
        BY <3>1
    <3>3. config' = [config EXCEPT !.on = on, !.rules = rules] /\ rules \subseteq Rules
        BY <3>2, ViewsAssumption DEF UpdateSettings
    <3>4. config'.on = on /\ config'.rules = rules
        BY <2>1, <3>3
    <3> QED BY <3>3, <3>4
  <2>3. CASE \E b : config' = [config EXCEPT !.base = b]
      BY <2>1, <2>3
  <2>4. CASE config' = config
      BY <2>1, <2>4
  <2>5. AdoptAnnounceBase \/ ForgetAnnounceBase => \E b : config' = [config EXCEPT !.base = b]
      BY DEF AdoptAnnounceBase, ForgetAnnounceBase
  <2> QED BY <2>2, <2>3, <2>4, <2>5 DEF Ask, FetchFails, DelayPasses, AddHeader, Restart, Observe, RecoveryPasses,
             EditText, SetProjectMaintenance, vars
<1>7. timer' \in Timers /\ conflict' \in Conflicts
  <2>1. timer \in Timers /\ conflict \in Conflicts
      BY DEF Typing
  <2>2. CASE \E l \in Locations : RecoveryPasses(l)
      BY <2>1, <2>2 DEF RecoveryPasses, Timers
  <2>3. CASE DelayPasses
      BY <2>1, <2>3 DEF DelayPasses, Conflicts
  <2>4. CASE Restart
      BY <2>4 DEF Restart, Timers, Conflicts
  <2>5. CASE UNCHANGED <<timer, conflict>>
      BY <2>1, <2>5
  <2> QED BY <2>2, <2>3, <2>4, <2>5 DEF Ask, FetchFails, AddHeader, AdoptAnnounceBase, ForgetAnnounceBase,
             Observe, EditText, UpdateSettings, SetProjectMaintenance, vars
<1>8. AnnouncedOnce(runtime') /\ AnnouncedOnce(file') /\ PassTyped(pass')
  <2>1. CASE Restart
      BY <2>1 DEF Restart, Typing, NoPass, PassTyped
  <2>2. CASE UNCHANGED <<runtime, file, pass>>
      BY <2>2 DEF Typing
  <2> QED BY <2>1, <2>2 DEF Ask, FetchFails, DelayPasses, AddHeader, AdoptAnnounceBase, ForgetAnnounceBase,
             Observe, RecoveryPasses, EditText, UpdateSettings, SetProjectMaintenance, vars
<1>9. project' \in BOOLEAN /\ asked' \in BOOLEAN
    BY DEF Typing, Ask, FetchFails, DelayPasses, AddHeader, AdoptAnnounceBase, ForgetAnnounceBase, Restart,
           Observe, RecoveryPasses, EditText, UpdateSettings, SetProjectMaintenance, vars
<1>10. author' \in {"operator", "checker"} /\ lost' \in BOOLEAN
    BY DEF Typing, Ask, FetchFails, DelayPasses, AddHeader, AdoptAnnounceBase, ForgetAnnounceBase, Restart,
           Observe, RecoveryPasses, EditText, UpdateSettings, SetProjectMaintenance, vars, history
<1> QED BY <1>2, <1>3, <1>4, <1>5, <1>6, <1>7, <1>8, <1>9, <1>10 DEF Typing

\* Every step.
LEMMA TypingStep == AnnounceInv /\ Typing /\ [Next]_vars => Typing'
<1> SUFFICES ASSUME AnnounceInv, Typing, [Next]_vars PROVE Typing'
    OBVIOUS
<1>1. CASE \E sync \in BOOLEAN : Fetch(sync)
    BY <1>1, FetchTypes
<1>2. CASE Write \/ WriteFails \/ Persist \/ PersistFails
    BY <1>2, PassTypes
<1>3. CASE \/ Ask \/ FetchFails \/ DelayPasses \/ AddHeader \/ AdoptAnnounceBase \/ ForgetAnnounceBase \/ Restart
           \/ \E view \in Views : Observe(view)
           \/ \E l \in Locations : RecoveryPasses(l)
           \/ \E text \in OpTexts \cup {<<>>}, keep \in BOOLEAN : EditText(text, keep)
           \/ \E on \in BOOLEAN, rules \in RuleSets : UpdateSettings(on, rules)
           \/ \E on \in BOOLEAN : SetProjectMaintenance(on)
           \/ UNCHANGED vars
    BY <1>3, AroundTypes
<1> QED BY <1>1, <1>2, <1>3 DEF Next

\* TypeOK: every variable has its type, and whatever passes, restarts and edits did to the
\* ownership, a location is announced in one way only.
THEOREM AnnouncedInOneWay == Spec => []TypeOK
<1>1. Typing => TypeOK
    BY DEF Typing, TypeOK, RemoteTyped, TopologyTyped, PassTyped, AnnouncedOnce, Timers, Conflicts
<1> QED BY <1>1, SpecIsSafe, AnnounceInvariant, TypingInit, TypingStep, PTL
=============================================================================

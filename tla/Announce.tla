------------------------------ MODULE Announce ------------------------------
(***************************************************************************)
(* The announce text of one Remnawave External Squad: remnawave.Service    *)
(* keeps a status line at the end of a header that also carries the        *)
(* operator's own text, and must neither damage that text nor lose track   *)
(* of its own line, although the operator edits the header in the panel,   *)
(* API calls fail or lose their answer, and the process restarts between   *)
(* the PATCH and the file that says what is owned.                         *)
(*                                                                         *)
(* A text is the sequence of its lines, <<>> when there is no header.  A   *)
(* line is a set of parts [rule, labels]: a status message has the parts   *)
(* of the rules that rendered it, {} is no message, and the operator's     *)
(* lines have rule "text", or "plain" without the rwEncodeBase64 prefix.   *)
(* Other headers, further squads and deleted squads are left out.  So is   *)
(* the trigger channel, which only makes the next pass come sooner.        *)
(***************************************************************************)
EXTENDS Naturals, FiniteSets, SequencesExt

CONSTANTS
    Members,        \* StableIDs that belong to an announce location
    LocationOf,     \* member -> location
    ServerOf,       \* member -> address of its server
    Views,          \* what the checks may say: functions member -> condition
    OpTexts,        \* texts an operator may put into the panel
    RuleSets,       \* sets of enabled rules an operator may save
    MaxEvents       \* bound: changes, edits, requests and faults

ASSUME MembersAssumption ==
    DOMAIN LocationOf = Members /\ DOMAIN ServerOf = Members

ASSUME TextsAssumption ==
    \A t \in OpTexts :
        /\ t \in Seq({t[i] : i \in 1..Len(t)}) /\ t # <<>>
        /\ \A i \in 1..Len(t) : t[i] # {} /\ \A p \in t[i] : p.rule \in {"text", "plain"}

ASSUME BoundAssumption == MaxEvents \in Nat

Locations == {LocationOf[m] : m \in Members}
None == "none"
\* What checker status, confirmation counter and incident journal say of a
\* member; "down" and "paused" (down in maintenance) are confirmed outages.
Conditions == {"gone", "healthy", "ambiguous", "pending", "down", "paused"}
Rules == {"all", "single", "multiple", "partialSingle", "partialMultiple",
          "maintenanceSingle", "maintenanceMultiple", "healthy"}

ASSUME ViewsAssumption == Views \subseteq [Members -> Conditions] /\ RuleSets \subseteq SUBSET Rules

VARIABLES
    remote,         \* the panel: [text, dup], dup = several announce headers
    cond,           \* member -> condition
    config,         \* ConfigFile, in memory and on disk: [on, rules, base]
    runtime,        \* RuntimeFile in memory
    file,           \* RuntimeFile on disk
    topology,       \* [loaded, squad]: the panel as last read
    timer,          \* location -> recoverySince
    conflict,       \* s.conflicts: how long the squad has been blocked
    project,        \* project maintenance
    asked,          \* a request waits for operationMu
    pass,           \* the reconcile that holds operationMu
    events,
    \* history
    own,            \* what the operator typed of the text
    author,         \* who wrote the text last
    lost,           \* what was written to the panel was not remembered
    given           \* the most status lines in a text the operator adopted

history == <<own, author, lost, given>>
vars == <<remote, cond, config, runtime, file, topology, timer, conflict, project,
          asked, pass, events, history>>

\* ManagedAnnouncement (its value is Value) and the restored text.
Unmanaged == [managed |-> FALSE, message |-> {}, base |-> <<>>,
              down |-> {}, partial |-> {}, maint |-> {}, restored |-> <<>>]

NoPass == [phase |-> None, seen |-> [text |-> <<>>, dup |-> FALSE],
           text |-> <<>>, adopted |-> FALSE, after |-> Unmanaged, before |-> Unmanaged,
           blocked |-> FALSE, configured |-> FALSE, timer |-> [l \in Locations |-> None]]

Idle == pass.phase = None
Allowed == events < MaxEvents
Event == Allowed /\ events' = events + 1

-----------------------------------------------------------------------------
(* Texts. *)

IsStatus(line) == \A p \in line : p.rule \in Rules

\* What precedes the first status line of a text, and how many lines do not.
TypedLen(text) ==
    CHOOSE k \in 0..Len(text) : /\ \A i \in 1..k : ~IsStatus(text[i])
                                /\ k < Len(text) => IsStatus(text[k + 1])
Typed(text) == SubSeq(text, 1, TypedLen(text))
Untyped(text) == Len(text) - TypedLen(text)

isManagedBaseAnnounce(text) == text # <<>> /\ \A p \in text[1] : p.rule # "plain"
isAppendableBaseAnnounce(text) == isManagedBaseAnnounce(text) /\ Len(text) = 1

composeManagedAnnounce(base, message) == IF message = {} THEN base ELSE Append(base, message)

\* The bases splitKnownManagedAnnounce finds in text for one message.
KnownBase(text, message) ==
    IF message = {} \/ text = <<>> \/ Last(text) # message THEN {}
    ELSE IF Len(text) = 1 THEN {<<>>}
    ELSE {b \in {Front(text)} : isManagedBaseAnnounce(b)}

splitKnownManagedAnnounce(text, message, healthy) ==
    IF KnownBase(text, message) # {} THEN KnownBase(text, message) ELSE KnownBase(text, healthy)

Value(r) == composeManagedAnnounce(r.base, r.message)

-----------------------------------------------------------------------------
(* What the checks say of a location. *)

\* stateOf of evaluateLocations, of the set of states of the items.
stateOf(S) ==
    IF "healthy" \in S THEN IF S \cap {"down", "paused"} # {} THEN "partial" ELSE "healthy"
    ELSE IF "ambiguous" \in S THEN "ambiguous"
    ELSE IF "pending" \in S THEN "pending"
    ELSE IF S = {"paused"} THEN "paused"
    ELSE "down"

Visible(c, l) == {m \in Members : LocationOf[m] = l /\ c[m] # "gone"}

\* Mutant: the members of a location are not folded by server.
evaluateByTransport(c) ==
    [l \in {k \in Locations : Visible(c, k) # {}} |-> stateOf({c[m] : m \in Visible(c, l)})]

\* evaluateLocations, under the conditions c: first over the transports of a
\* server, where a server that still answers is healthy, then over the servers
\* of the location.  A location without visible members is no group.
evaluateLocations(c) ==
    LET Server(l, s) == stateOf({c[m] : m \in {v \in Visible(c, l) : ServerOf[v] = s}})
        Reachable(l, s) == IF Server(l, s) = "partial" THEN "healthy" ELSE Server(l, s)
    IN [l \in {k \in Locations : Visible(c, k) # {}} |->
            stateOf({Reachable(l, ServerOf[m]) : m \in Visible(c, l)})]

-----------------------------------------------------------------------------
(* Messages: the parts of the first rule that applies, if it is enabled.   *)

Part(rule, labels) == IF rule \in config.rules THEN {[rule |-> rule, labels |-> labels]} ELSE {}

OneOrMany(one, many, S) ==
    IF S = {} THEN {} ELSE IF Cardinality(S) = 1 THEN Part(one, S) ELSE Part(many, S)

outageMessage(down, groups) ==
    IF down # {} /\ down = groups THEN Part("all", {}) ELSE OneOrMany("single", "multiple", down)
maintenanceMessage(maint) == OneOrMany("maintenanceSingle", "maintenanceMultiple", maint)
partialAvailabilityMessage(partial) == OneOrMany("partialSingle", "partialMultiple", partial)
healthyMessage == Part("healthy", {})

Nothing == [message |-> {}, healthy |-> {}, down |-> {}, partial |-> {}, maint |-> {},
            timer |-> [l \in Locations |-> None]]

previousState(r, l) ==
    IF l \in r.down THEN "down"
    ELSE IF l \in r.partial THEN "partial"
    ELSE IF l \in r.maint THEN "paused"
    ELSE None

\* A location that got better than it was announced.
Improving(previous, state) ==
    /\ previous # None /\ state \in {"healthy", "partial"}
    /\ ~(state = "partial" /\ previous = "partial")

\* Mutant: an improvement is believed at once.
HeldUnlessConfirmed(previous, state, since) == previous # None /\ state \in {"pending", "ambiguous"}

\* It stays announced as it was: no evidence either way, or not yet for
\* RecoveryMinutes.
Held(previous, state, since) ==
    \/ previous # None /\ state \in {"pending", "ambiguous"}
    \/ Improving(previous, state) /\ since # "over"

\* The locations that are announced as s.
Announced(r, state, s) ==
    {l \in DOMAIN state : IF Held(previousState(r, l), state[l], timer[l])
                          THEN previousState(r, l) = s ELSE state[l] = s}

Message(r, state, down, partial, maint) ==
    IF down \cup maint # {} THEN outageMessage(down, DOMAIN state) \cup maintenanceMessage(maint)
    ELSE IF partial # {} THEN partialAvailabilityMessage(partial)
    ELSE IF \/ \A l \in DOMAIN state : state[l] = "healthy"
            \/ (r.down \cup r.partial \cup r.maint = {} /\ r.message = healthyMessage)
         THEN healthyMessage ELSE {}

(***************************************************************************)
(* computeDesiredAnnouncements, for the squad: the message, the locations  *)
(* it names and the recovery timers that keep running.                     *)
(***************************************************************************)
computeDesired(r, state) ==
    IF ~config.on \/ DOMAIN state = {} THEN Nothing
    ELSE [message |-> Message(r, state, Announced(r, state, "down"), Announced(r, state, "partial"),
                              Announced(r, state, "paused")),
          healthy |-> healthyMessage,
          down |-> Announced(r, state, "down"),
          partial |-> Announced(r, state, "partial"),
          maint |-> Announced(r, state, "paused"),
          timer |-> [l \in Locations |-> IF /\ l \in DOMAIN state
                                            /\ Improving(previousState(r, l), state[l])
                                            /\ timer[l] # "over"
                                         THEN "running" ELSE None]]

Desired == CHOOSE d \in {computeDesired(runtime, state) : state \in {evaluateLocations(cond)}} : TRUE

-----------------------------------------------------------------------------
(* One pass over the squad, as reconcileLocked decides it. *)

\* A remembered restoration vouches only for the exact text it recorded.
Remembered(seen) ==
    IF runtime.managed \/ seen.dup \/ seen.text # runtime.restored THEN <<>> ELSE runtime.restored

\* The base of a text the checker does not own: the operator's adopted text,
\* the text the checker put back itself, what precedes a known status line,
\* or a single line.  No element: the text is left alone.  strings.HasPrefix
\* compares bytes, IsPrefix lines: a base that ends inside a line is left out.
ForeignBase(seen, d) ==
    IF seen.text = <<>> THEN {<<>>}
    ELSE IF config.base # <<>> /\ IsPrefix(config.base, seen.text) THEN {config.base}
    ELSE IF Remembered(seen) # <<>> THEN {seen.text}
    ELSE IF splitKnownManagedAnnounce(seen.text, d.message, d.healthy) # {}
    THEN splitKnownManagedAnnounce(seen.text, d.message, d.healthy)
    ELSE {t \in {seen.text} : isAppendableBaseAnnounce(t)}

Adopts(seen) == ~runtime.managed /\ config.base # <<>> /\ IsPrefix(config.base, seen.text)

\* Mutant: the ownership check before a write compares nothing.
ChangedNever(seen) == FALSE

ChangedOutside(seen) == runtime.managed /\ seen.text # Value(runtime)

\* The ownership after a successful write of message after base.
Owning(base, d) ==
    [managed |-> TRUE, message |-> d.message, base |-> base, down |-> d.down,
     partial |-> d.partial, maint |-> d.maint, restored |-> <<>>]

\* Mutant: the withdrawn text is not remembered.
WithdrawnForgotten(base) == Unmanaged

Withdrawn(base) == [Unmanaged EXCEPT !.restored = base]

\* What a pass does: blocked is a conflict that trackConflicts keeps, write
\* whether the panel is written, before and after the ownership without and
\* with the write.
Configured == config.on \/ runtime.managed

Leave(r, d, blocked) ==
    [write |-> FALSE, blocked |-> blocked, before |-> r, after |-> r,
     text |-> <<>>, timer |-> d.timer, configured |-> Configured]

\* Mutant: nothing is written while the announced locations are the same.
ReplaceOnNewLocations(seen, d, base) ==
    IF /\ runtime.managed /\ d.message # {} /\ runtime.down = d.down
       /\ runtime.partial = d.partial /\ runtime.maint = d.maint
    THEN Leave(runtime, d, FALSE)
    ELSE [write |-> TRUE, blocked |-> FALSE,
          before |-> [runtime EXCEPT !.restored = Remembered(seen)],
          after |-> IF d.message = {} THEN Withdrawn(base) ELSE Owning(base, d),
          text |-> composeManagedAnnounce(base, d.message),
          timer |-> d.timer, configured |-> Configured]

Replace(seen, d, base) ==
    IF runtime.managed /\ d.message # {} /\ seen.text = composeManagedAnnounce(base, d.message)
    THEN Leave(Owning(base, d), d, FALSE)
    ELSE [write |-> TRUE, blocked |-> FALSE,
          before |-> [runtime EXCEPT !.restored = Remembered(seen)],
          after |-> IF d.message = {} THEN Withdrawn(base) ELSE Owning(base, d),
          text |-> composeManagedAnnounce(base, d.message),
          timer |-> d.timer, configured |-> Configured]

Bases(seen, d) == IF runtime.managed THEN {runtime.base} ELSE ForeignBase(seen, d)

Plan(seen, d) ==
    IF ~Configured THEN Leave(runtime, d, FALSE)
    ELSE IF seen.dup \/ ChangedOutside(seen)
    THEN Leave([Unmanaged EXCEPT !.restored = Remembered(seen)], d, seen.dup)
    ELSE IF (~runtime.managed /\ d.message = {}) \/ Bases(seen, d) = {}
    THEN Leave([runtime EXCEPT !.restored = Remembered(seen)], d, d.message # {})
    ELSE Replace(seen, d, CHOOSE b \in Bases(seen, d) : TRUE)

\* Mutant: every pass that finds the squad blocked starts the delay again.
trackConflictsRestarting(p, r) ==
    conflict' = IF p.blocked THEN "blocked" ELSE IF p.configured /\ ~r.managed THEN conflict ELSE None

\* trackConflicts: a blocked squad stays blocked while nothing is attempted, is
\* reported once when it has been blocked for conflictAlertDelay, and clears
\* when it is managed again or not configured any more.
trackConflicts(p, r) ==
    LET kept == IF p.blocked THEN IF conflict = None THEN "blocked" ELSE conflict
                ELSE IF p.configured /\ ~r.managed THEN conflict ELSE None
    IN conflict' = IF kept = "overdue" THEN "notified" ELSE kept

-----------------------------------------------------------------------------
(* The steps of a pass.  operationMu is held while pass is not idle. *)

\* The ownership in memory and in the file once the pass is over.
Finish(p, r, saved, squad) ==
    /\ runtime' = r
    /\ file' = IF saved THEN r ELSE file
    /\ topology' = [topology EXCEPT !.squad = squad]
    /\ timer' = p.timer
    /\ trackConflicts(p, r)
    /\ pass' = NoPass

\* SyncNow and ReconcileNow look at the project flag before they wait for
\* operationMu; the tickers and the trigger of the loop ask again and again, and
\* a sync from the admin page is one that comes early.
Ask ==
    /\ ~asked /\ Idle /\ ~project
    /\ asked' = TRUE
    /\ UNCHANGED <<remote, cond, config, runtime, file, topology, timer, conflict, project, pass, events, history>>

\* One of the requests that read the panel fails.  A sync has the topology
\* already when the last one does.
FetchFails ==
    /\ asked /\ Idle /\ Event
    /\ asked' = FALSE
    /\ \/ UNCHANGED topology
       \/ topology' = [loaded |-> TRUE, squad |-> remote]
    /\ UNCHANGED <<remote, cond, config, runtime, file, timer, conflict, project, pass, history>>

\* refreshTopologyLocked, of a sync only, and GetExternalSquads, and the
\* decision.  Without topology an enabled policy cannot be evaluated.  A pass
\* that changes nothing ends here.
Begin(plan, loaded) ==
    \/ /\ config.on /\ ~loaded
       /\ UNCHANGED <<runtime, file, timer, conflict, pass>>
    \/ /\ loaded \/ ~config.on
       /\ ~plan.write /\ plan.after = runtime
       /\ timer' = plan.timer
       /\ trackConflicts(plan, runtime)
       /\ UNCHANGED <<runtime, file, pass>>
    \/ /\ loaded \/ ~config.on
       /\ plan.write \/ plan.after # runtime
       /\ pass' = [phase |-> IF plan.write THEN "write" ELSE "persist", seen |-> remote,
                   text |-> plan.text, adopted |-> Adopts(remote), before |-> plan.before,
                   after |-> plan.after, blocked |-> plan.blocked,
                   configured |-> plan.configured, timer |-> plan.timer]
       /\ UNCHANGED <<runtime, file, timer, conflict>>

Fetch(sync) ==
    /\ asked /\ Idle
    /\ asked' = FALSE
    /\ topology' = [loaded |-> topology.loaded \/ sync, squad |-> remote]
    /\ \E d \in {Desired} : \E plan \in {Plan(remote, d)} : Begin(plan, topology'.loaded)
    /\ UNCHANGED <<remote, cond, config, project, events, history>>

BaseOf(r) == IF r.managed THEN r.base ELSE r.restored

\* What the operator typed, after the checker wrote p.text: an edit made since
\* the panel was read is overwritten, and what follows an adopted base is replaced.
OwnAfter(p) == IF remote # p.seen \/ p.adopted THEN Typed(BaseOf(p.after)) ELSE own

\* UpdateExternalHeaders: the panel takes the new header.
Patched ==
    /\ remote' = [text |-> pass.text, dup |-> FALSE]
    /\ own' = OwnAfter(pass)
    /\ author' = "checker"

Write ==
    /\ pass.phase = "write"
    /\ Patched
    /\ pass' = [pass EXCEPT !.phase = "persist"]
    /\ UNCHANGED <<cond, config, runtime, file, topology, timer, conflict, project, asked, events, lost, given>>

\* The request fails, or its answer is lost after the panel has taken it.  What
\* the pass forgot before is still saved.
WriteFails ==
    /\ pass.phase = "write" /\ Event
    /\ \/ UNCHANGED <<remote, history>>
       \/ Patched /\ lost' = TRUE /\ UNCHANGED given
    /\ \/ /\ pass.before = runtime
          /\ Finish(pass, runtime, FALSE, pass.seen)
       \/ /\ pass.before # runtime
          /\ pass' = [pass EXCEPT !.phase = "persist", !.after = pass.before, !.text = pass.seen.text]
          /\ UNCHANGED <<runtime, file, topology, timer, conflict>>
    /\ UNCHANGED <<cond, config, project, asked>>

\* The squad the pass leaves in the topology.
SquadAfter(p) == IF p.after = p.before THEN p.seen ELSE [text |-> p.text, dup |-> FALSE]

\* writeRuntimeFile.  When it fails the ownership is kept in memory only, and
\* the topology keeps what was read.
Persist ==
    /\ pass.phase = "persist"
    /\ Finish(pass, pass.after, TRUE, SquadAfter(pass))
    /\ UNCHANGED <<remote, cond, config, project, asked, events, history>>

PersistFails ==
    /\ pass.phase = "persist" /\ Event
    /\ Finish(pass, pass.after, FALSE, pass.seen)
    /\ UNCHANGED <<remote, cond, config, project, asked, history>>

-----------------------------------------------------------------------------
(* What happens around the passes. *)

Init ==
    /\ remote \in [text : OpTexts \cup {<<>>}, dup : {FALSE}]
    /\ cond = [m \in Members |-> "pending"]
    /\ config = [on |-> TRUE, rules |-> Rules, base |-> <<>>]
    /\ file \in {Unmanaged} \cup {Withdrawn(t) : t \in {u \in OpTexts : isAppendableBaseAnnounce(u)}}
    /\ runtime = file
    /\ topology = [loaded |-> FALSE, squad |-> [text |-> <<>>, dup |-> FALSE]]
    /\ timer = [l \in Locations |-> None]
    /\ conflict = None
    /\ project = FALSE
    /\ asked = TRUE
    /\ pass = NoPass
    /\ events = 0
    /\ own = remote.text /\ author = "operator" /\ lost = FALSE /\ given = 0

\* Checks, incidents and the topology change what is known of the members; a
\* pass reads it when it reads the panel.  Checks rest in project maintenance.
Observe(view) ==
    /\ Event /\ ~project /\ Idle
    /\ cond' = view /\ view # cond
    /\ UNCHANGED <<remote, config, runtime, file, topology, timer, conflict, project, asked, pass, history>>

\* RecoveryMinutes are over since a location got better.
RecoveryPasses(l) ==
    /\ timer[l] = "running" /\ Idle
    /\ timer' = [timer EXCEPT ![l] = "over"]
    /\ UNCHANGED <<remote, cond, config, runtime, file, topology, conflict, project, asked, pass, events, history>>

\* conflictAlertDelay is over since the squad was first found blocked.
DelayPasses ==
    /\ conflict = "blocked" /\ Idle
    /\ conflict' = "overdue"
    /\ UNCHANGED <<remote, cond, config, runtime, file, topology, timer, project, asked, pass, events, history>>

\* The operator replaces the text in the panel, or only his own part of it.  A
\* text that is replaced between two passes leaves nothing that was lost.
EditText(text, keep) ==
    /\ Event
    /\ keep => remote.text # <<>> /\ IsStatus(Last(remote.text)) /\ text # <<>>
    /\ remote' = [text |-> IF keep THEN Append(text, Last(remote.text)) ELSE text, dup |-> FALSE]
    /\ remote' # remote
    /\ own' = text /\ author' = "operator" /\ lost' = (lost /\ (keep \/ ~Idle))
    /\ UNCHANGED <<cond, config, runtime, file, topology, timer, conflict, project, asked, pass, given>>

\* A second announce header, in another case and with the same text, appears
\* beside the first.
AddHeader ==
    /\ Event /\ remote.text # <<>> /\ ~remote.dup
    /\ remote' = [remote EXCEPT !.dup = TRUE]
    /\ author' = "operator"
    /\ UNCHANGED <<cond, config, runtime, file, topology, timer, conflict, project, asked, pass, own, lost, given>>

UpdateSettings(on, rules) ==
    /\ Idle /\ Event
    /\ config' = [config EXCEPT !.on = on, !.rules = rules]
    /\ config' # config
    /\ UNCHANGED <<remote, cond, runtime, file, topology, timer, conflict, project, asked, pass, history>>

\* What was read of the panel is what the checker owns.
ShowsOwnValue == runtime.managed /\ topology.squad.text = Value(runtime)

\* Mutant: the whole value is adopted, status line included.
AdoptableWhole == topology.squad.text

\* AdoptAnnounceBase takes the text from the topology, without the status line
\* when it knows it.  A line it does not know becomes part of the base.
Adoptable == IF ShowsOwnValue THEN runtime.base ELSE topology.squad.text

AdoptAnnounceBase ==
    /\ Idle /\ Event
    /\ topology.squad.text # <<>>
    /\ isManagedBaseAnnounce(Adoptable)
    /\ config' = [config EXCEPT !.base = Adoptable]
    /\ given' = IF Untyped(Adoptable) > given THEN Untyped(Adoptable) ELSE given
    /\ UNCHANGED <<remote, cond, runtime, file, topology, timer, conflict, project, asked, pass, own, author, lost>>

ForgetAnnounceBase ==
    /\ Idle /\ Event /\ config.base # <<>>
    /\ config' = [config EXCEPT !.base = <<>>]
    /\ UNCHANGED <<remote, cond, runtime, file, topology, timer, conflict, project, asked, pass, history>>

\* SetProjectMaintenance takes operationMu to pause, and the checker forgets
\* every status with it.
SetProjectMaintenance(on) ==
    /\ project # on
    /\ IF on THEN Idle /\ Event ELSE UNCHANGED events
    /\ project' = on
    /\ cond' = [m \in Members |-> IF cond[m] = "gone" THEN "gone" ELSE "pending"]
    /\ UNCHANGED <<remote, config, runtime, file, topology, timer, conflict, asked, pass, history>>

\* The process ends and starts again: observations, timers, conflicts and the
\* topology are gone, the ownership is what the file says.
Restart ==
    /\ Event
    /\ cond' = [m \in Members |-> IF cond[m] \in {"down", "paused"} THEN "pending" ELSE cond[m]]
    /\ runtime' = file
    /\ topology' = [loaded |-> FALSE, squad |-> [text |-> <<>>, dup |-> FALSE]]
    /\ timer' = [l \in Locations |-> None]
    /\ conflict' = None
    /\ asked' = ~project
    /\ pass' = NoPass
    /\ lost' = (lost \/ (IF pass.phase = "persist" THEN pass.after ELSE runtime) # file)
    /\ UNCHANGED <<remote, config, file, project, own, author, given>>

Next ==
    \/ Ask \/ FetchFails \/ \E sync \in BOOLEAN : Fetch(sync)
    \/ Write \/ WriteFails \/ Persist \/ PersistFails
    \/ \E view \in Views : Observe(view)
    \/ \E l \in Locations : RecoveryPasses(l)
    \/ DelayPasses
    \/ \E text \in OpTexts \cup {<<>>}, keep \in BOOLEAN : EditText(text, keep)
    \/ AddHeader
    \/ \E on \in BOOLEAN, rules \in RuleSets : UpdateSettings(on, rules)
    \/ AdoptAnnounceBase \/ ForgetAnnounceBase
    \/ \E on \in BOOLEAN : SetProjectMaintenance(on)
    \/ Restart

(***************************************************************************)
(* The loop's tickers fire again and again, and a Go select does not       *)
(* ignore one of them for ever; operationMu is handed on to the request    *)
(* that waits for it; a request ends by its timeout; clocks go on.         *)
(* Faults, edits and requests of operators have no fairness.               *)
(***************************************************************************)
Served == asked /\ Idle /\ asked' = FALSE
Synced == asked /\ Idle /\ topology' = [loaded |-> TRUE, squad |-> remote]

Fairness ==
    /\ WF_asked(Ask) /\ WF_asked(Served) /\ SF_topology(Synced)
    /\ WF_pass(Write) /\ WF_pass(Persist)
    /\ \A l \in Locations : SF_timer(RecoveryPasses(l))
    /\ SF_conflict(DelayPasses)

Spec == Init /\ [][Next]_vars /\ Fairness

-----------------------------------------------------------------------------
(* Properties. *)

\* Every variable has its type, and a location is announced in one way.
TypeOK ==
    /\ remote.dup \in BOOLEAN /\ topology.squad.dup \in BOOLEAN
    /\ cond \in [Members -> Conditions]
    /\ config.on \in BOOLEAN /\ config.rules \subseteq Rules
    /\ timer \in [Locations -> {None, "running", "over"}]
    /\ conflict \in {None, "blocked", "overdue", "notified"}
    /\ runtime.down \cup runtime.partial \cup runtime.maint \subseteq Locations
    /\ runtime.down \cap (runtime.partial \cup runtime.maint) = {}
    /\ runtime.partial \cap runtime.maint = {}
    /\ project \in BOOLEAN /\ topology.loaded \in BOOLEAN
    /\ asked \in BOOLEAN
    /\ pass.phase \in {None, "write", "persist"}
    /\ events \in 0..MaxEvents
    /\ author \in {"operator", "checker"} /\ lost \in BOOLEAN

\* Whatever the checker does, the panel shows what the operator typed first and
\* whole, and status lines after it: one, beside those he adopted himself.  Only
\* when an answer or the ownership file was lost, and he typed nothing, may one
\* line more stay, and the text does not grow from pass to pass.
OperatorTextKept ==
    /\ IsPrefix(own, remote.text)
    /\ \A i \in (Len(own) + 1)..Len(remote.text) : IsStatus(remote.text[i])
    /\ \/ Len(remote.text) <= Len(own) + given + 1
       \/ lost /\ own = <<>> /\ Len(remote.text) = 2

\* The checker never blocks itself: a text it wrote last is not refused as
\* unrecognized by a later pass, unless it lost what it knew about it, and the
\* ownership file it saved last is not refused by validateRuntime at a start.
NoSelfLock ==
    /\ (author = "checker" /\ ~lost /\ Idle) => ~Plan(remote, Desired).blocked
    /\ file.managed => file.message # {} /\ (file.base = <<>> \/ isManagedBaseAnnounce(file.base))
    /\ file.restored = <<>> \/ isManagedBaseAnnounce(file.restored)

\* Folding transports by server and then servers by location says what a reader
\* of the documentation expects: down when every member is confirmed down,
\* maintenance when all of them are paused too, partial when a whole server is
\* down and another answers.
EvaluationAsDocumented ==
    events = 0 => \A c \in [Members -> Conditions] :
        LET state == evaluateLocations(c) IN
        \A l \in DOMAIN state :
            LET out == {m \in Visible(c, l) : c[m] \in {"down", "paused"}}
                answers == \E m \in Visible(c, l) : c[m] = "healthy"
                serverDown == \E v \in Visible(c, l) :
                                  {m \in Visible(c, l) : ServerOf[m] = ServerOf[v]} \subseteq out
            IN /\ (state[l] = "paused") = (\A m \in Visible(c, l) : c[m] = "paused")
               /\ (state[l] \in {"down", "paused"}) = (Visible(c, l) = out)
               /\ (state[l] = "partial") = (answers /\ serverDown)
               /\ (state[l] = "healthy") = (answers /\ ~serverDown)

\* An announced outage is not withdrawn on one good check: while the policy is
\* on and the location is watched, it leaves the announcement only when it has
\* been better for RecoveryMinutes, or is announced as maintenance instead
\* (or a restart found an older ownership file).
RecoveryHeld ==
    [][\A l \in Locations :
          (/\ runtime.managed /\ l \in runtime.down
           /\ runtime'.managed /\ l \notin runtime'.down /\ ~lost')
          => timer[l] = "over" \/ l \in runtime'.maint \/ Visible(cond, l) = {}]_vars

\* A base adopted from an up-to-date topology that the checker wrote is what the
\* operator typed, without the checker's status line, and with no more status
\* lines than he adopted before.
AdoptsOperatorText ==
    [][(/\ config'.base # config.base /\ config'.base # <<>>
        /\ topology.squad = remote /\ author = "checker" /\ ~lost)
        => Typed(config'.base) = own /\ Len(config'.base) <= Len(own) + given]_vars

\* Once nothing happens any more, the panel carries the message that the
\* observations call for, nothing is announced that has got better since, or the
\* squad is known to be blocked.
TruthfulFor(state, d) ==
    \/ ~runtime.managed /\ d.message = {}
    \/ /\ runtime.managed /\ d.message # {} /\ runtime.message = d.message
       /\ remote = [text |-> Value(runtime), dup |-> FALSE]
       /\ \A l \in DOMAIN state : ~Improving(previousState(runtime, l), state[l])
Truthful ==
    \/ conflict # None
    \/ \E state \in {evaluateLocations(cond)} : \E d \in {computeDesired(runtime, state)} :
          TruthfulFor(state, d)
Converges == <>[](project \/ Truthful)

\* A squad that stays blocked is reported to the operator.
BlockedIsReported ==
    (conflict \in {"blocked", "overdue"}) ~> (conflict \in {None, "notified"} \/ project)

=============================================================================

---------------------- MODULE SpeedConfirmationProofs ----------------------
(***************************************************************************)
(* Proofs about the speed tests and their confirmations, for any set of    *)
(* nodes and any number of calls, switches, confirmations and restarts.    *)
(***************************************************************************)
EXTENDS SpeedConfirmation, FiniteSetTheorems, TLAPS

CallRecord == [pc : {"idle", "gate", "returned"}, ids : SUBSET Nodes,
               out : {"none", "started", "busy", "refused"}]
RunRecord == [on : BOOLEAN, source : Callers, ids : SUBSET Nodes, cancelled : BOOLEAN,
              probes : SUBSET Nodes, project : BOOLEAN,
              stage : [Nodes -> {"out", "queued", "primary", "primed", "waiting", "reserve", "ended", "over"}],
              value : [Nodes -> Verdicts \cup {"aborted", None}]]
SwitchRecord == [pc : {"idle", "lock", "clear", "save", "saving"},
                 kind : {"none", "operator", "pause", "resume", "project", "unproject", "refresh"},
                 ids : SUBSET Nodes]
PruneRecord == [pc : {"idle", "begin", "collect", "clear", "save", "saving"}, ids : SUBSET Nodes]
SaverRecord == [on : BOOLEAN, active : SUBSET Nodes]
EntryRecord == [in : BOOLEAN, targets : SUBSET Keys, timer : {"none", "armed", "fired"},
                armed : SUBSET Keys]

ModesTyped ==
    /\ active \subseteq Nodes /\ paused \subseteq Nodes /\ project \in BOOLEAN
    /\ switches \in 0..MaxSwitches
    /\ touched \subseteq Nodes

\* Every node that is away or paused has been switched.
TouchedCovers == Nodes \ active \subseteq touched /\ paused \subseteq touched

SwitchShape ==
    /\ writer \in {"free", "waiting", "held"}
    /\ sw \in SwitchRecord
    /\ prune \in PruneRecord
    /\ sw.pc = "lock" => switches < MaxSwitches
    /\ sw.pc = "clear" /\ sw.kind = "project" => project /\ writer = "held"

CallsTyped ==
    /\ caller \in [Callers -> CallRecord]
    /\ results \in [Nodes -> {"none", "real", "broken"}]
    /\ savedResults \in [Nodes -> {"none", "real", "broken"}]
    /\ probeResults \in [Nodes -> {NoProbe, "node", "project"}]

Record(r) == r = [no |-> r.no, source |-> r.source, ids |-> r.ids, res |-> r.res, probes |-> r.probes,
                  cancelled |-> r.cancelled, pc |-> r.pc]

\* Two reports of one source differ by their number.
ReportsTyped ==
    /\ IsFiniteSet(reports)
    /\ \A r \in reports : Record(r) /\ r.source \in Callers /\ r.ids \subseteq Nodes
    /\ \A q, r \in reports : q.source = r.source /\ q.no = r.no => q = r

\* The runs that are over but still save their results.
Ending(rs) == {r \in rs : r.pc \in {"persist", "report"}}

\* These and the run in progress are the readers of the lifecycle lock.
ReadersCounted ==
    /\ run \in RunRecord
    /\ ~run.on => run = NoRun
    /\ readers = Cardinality(Ending(reports)) + IF run.on THEN 1 ELSE 0

\* A run goes on in the mode in which it has selected its nodes.
RunInMode ==
    /\ run.on => /\ run.project = project
                 /\ run.source # "manual" => ~project
    /\ \A n \in Nodes : run.stage[n] # "out" => (n \in run.probes <=> project \/ n \in paused)
    /\ \A n \in Nodes : run.value[n] = "aborted" => run.cancelled

\* The manager, the switches and the lock between them.
TestInv ==
    /\ ModesTyped /\ TouchedCovers /\ SwitchShape /\ CallsTyped
    /\ ReportsTyped /\ ReadersCounted /\ RunInMode
    /\ ProbesOfThisWindow

RetriesTyped ==
    /\ pending \subseteq Keys /\ tried \subseteq Keys
    /\ giveUp \subseteq Nodes /\ orphaned \subseteq Nodes
    /\ seq \in 0..MaxEntries /\ retryMu \in 0..seq
    /\ unsaved \in BOOLEAN /\ crashes \in Nat
    /\ entries \in [Entries -> EntryRecord]
    /\ disk \in [Entries -> SUBSET Keys]
    /\ saver \in SaverRecord

\* An entry that has targets is in the table, and timer ids are not used twice.
EntriesShape ==
    \A i \in Entries : /\ entries[i].targets # {} => entries[i].in
                       /\ i > seq => entries[i] = NoEntry /\ disk[i] = {}

\* The report of a confirmation run schedules nothing.
NoRetrySchedules == \A r \in reports : r.source = Retry => r.pc \in {"persist", "report", "begin", "clear"}

\* A run that was asked for n to confirm it, or its report, will settle it.
Asked(n) ==
    \/ run.on /\ run.source = Retry /\ n \in run.ids
    \/ \E r \in reports : r.source = Retry /\ ~r.cancelled /\ n \in r.ids /\ (r.pc = "clear" \/ ~project)

Clearing == sw.kind = "project" /\ sw.pc = "clear"

\* The timer of an entry will settle k.
Timed(e, k) == k \in e.armed /\ (e.timer = "fired" \/ (e.timer = "armed" /\ k \in e.targets))

\* The goroutine that holds speedRetryMu is the one that calls Run.
Calling ==
    /\ retryMu = 0 => tried = {} /\ caller[Retry].pc = "idle"
    /\ retryMu # 0 => /\ caller[Retry].pc \in {"gate", "returned"}
                      /\ caller[Retry].ids = NodesOf(tried)
                      /\ entries[retryMu].armed = {}

\* When its call has started a run, that run answers for what it tried.
Handed ==
    caller[Retry].pc = "returned" /\ caller[Retry].out = "started" =>
        /\ project => Clearing
        /\ \A k \in tried : Asked(k[1]) \/ Clearing \/ k[1] \in orphaned

Alive(k) ==
    \/ \E i \in Entries : Timed(entries[i], k)
    \/ k \in tried \/ k[1] \in giveUp
    \/ Asked(k[1]) \/ Clearing \/ k[1] \in orphaned

AllAlive == \A k \in pending : Alive(k)

\* What waits for a node that was never switched is on disk.
OnDisk == \A i \in Entries : \A k \in entries[i].targets : k[1] \notin touched => k \in disk[i]

\* Whoever saves has found every node active that was never switched.
SaverSees == saver.on => Nodes \ touched \subseteq saver.active

\* The confirmations.
RetryInv ==
    /\ RetriesTyped /\ EntriesShape /\ NoRetrySchedules /\ Calling /\ Handed
    /\ AllAlive /\ SaverSees
    /\ Saving \/ OnDisk

\* The inductive invariant.
SpeedInv == TestInv /\ RetryInv

-----------------------------------------------------------------------------
(* The runs, the modes and the lock. *)

\* Retry is a source of its own.
LEMMA RetryFacts == Retry \in Callers /\ Retry \notin Sources /\ Retry # "manual"
BY SpeedAssumption DEF Retry, Callers

\* No run there is selects nothing.
LEMMA NoRunFacts ==
    /\ NoRun \in RunRecord /\ ~NoRun.on
    /\ \A n \in Nodes : NoRun.stage[n] = "out" /\ NoRun.value[n] # "aborted"
BY DEF NoRun, RunRecord, Callers, None

\* A new report is told apart from those of its source.
LEMMA FreshFacts ==
    ASSUME ReportsTyped, NEW c
    PROVE  \A r \in reports : r.source = c => r.no # FreshReport(c)
<1> DEFINE C == Cardinality(reports)  S == 1..(C + 1)
           Free(k) == \A r \in reports : r.source = c => r.no # k
<1>1. IsFiniteSet(reports) /\ C \in Nat
    BY FS_CardinalityType DEF ReportsTyped
<1>2. IsFiniteSet(S) /\ Cardinality(S) = C + 1
  <2> HIDE DEF C
  <2> QED BY <1>1, FS_Interval
<1>3. \E k \in S : Free(k)
  <2> SUFFICES ASSUME \A k \in S : ~Free(k) PROVE FALSE
      OBVIOUS
  <2> DEFINE f == [k \in S |-> CHOOSE r \in reports : r.no = k]
  <2> HIDE DEF S, C
  <2>1. \A k \in S : f[k] \in reports /\ f[k].no = k
      OBVIOUS
  <2>2. f \in [S -> reports]
      BY <2>1
  <2>3. Cardinality(reports) < Cardinality(S)
      BY <1>1, <1>2 DEF C
  <2> HIDE DEF f
  <2>4. \E x, y \in S : x # y /\ f[x] = f[y]
      BY <1>1, <1>2, <2>2, <2>3, FS_PigeonHole
  <2> QED BY <2>1, <2>4
<1>4. FreshReport(c) = CHOOSE k \in S : Free(k)
    BY DEF FreshReport
<1> HIDE DEF S
<1> QED BY <1>3, <1>4

\* s is the report r in a later state.
Moved(r, s) ==
    /\ Record(s) /\ s.no = r.no /\ s.source = r.source /\ s.ids = r.ids /\ s.cancelled = r.cancelled

\* A report moves on, and some of its results are left out.
LEMMA ReportMoves ==
    ASSUME NEW r, Record(r), NEW p, NEW v
    PROVE  /\ Moved(r, [r EXCEPT !.pc = p]) /\ [r EXCEPT !.pc = p].pc = p
           /\ Moved(r, [r EXCEPT !.res = v]) /\ [r EXCEPT !.res = v].pc = r.pc
<1> DEFINE n == r.no  a == r.source  b == r.ids  c == r.res  d == r.probes  e == r.cancelled  f == r.pc
<1>1. r = [no |-> n, source |-> a, ids |-> b, res |-> c, probes |-> d, cancelled |-> e, pc |-> f]
    BY Zenon DEF Record
<1>2. r.no = n /\ r.source = a /\ r.ids = b /\ r.cancelled = e /\ r.pc = f
    OBVIOUS
<1> HIDE DEF n, a, b, c, d, e, f
<1>3. [r EXCEPT !.pc = p]
         = [no |-> n, source |-> a, ids |-> b, res |-> c, probes |-> d, cancelled |-> e, pc |-> p]
    BY <1>1
<1>4. [r EXCEPT !.res = v]
         = [no |-> n, source |-> a, ids |-> b, res |-> v, probes |-> d, cancelled |-> e, pc |-> f]
    BY <1>1
<1>5. ASSUME NEW x, NEW y
      PROVE  LET s == [no |-> n, source |-> a, ids |-> b, res |-> x, probes |-> d, cancelled |-> e,
                       pc |-> y]
             IN  Record(s) /\ s.pc = y /\ s.no = n /\ s.source = a /\ s.ids = b /\ s.cancelled = e
    BY DEF Record
<1> QED BY <1>2, <1>3, <1>4, <1>5 DEF Moved

\* A report goes, or moves on.
Moves(r) ==
    \/ reports' = reports \ {r}
    \/ \E s : Moved(r, s) /\ reports' = (reports \ {r}) \cup {s}

\* Of the runs that are over there are finitely many, and ...
LEMMA EndingFacts ==
    ASSUME ReportsTyped
    PROVE  IsFiniteSet(Ending(reports)) /\ Cardinality(Ending(reports)) \in Nat
<1>1. Ending(reports) \in SUBSET reports
    BY DEF Ending
<1>2. IsFiniteSet(Ending(reports))
    BY <1>1, FS_Subset DEF ReportsTyped
<1> QED BY <1>2, FS_CardinalityType

\* ... a report that goes or moves on leaves the others as they are.
LEMMA ReportsStay ==
    ASSUME ReportsTyped, NEW r \in reports, Moves(r)
    PROVE  ReportsTyped'
<1>1. CASE reports' = reports \ {r}
    BY <1>1, FS_RemoveElement DEF ReportsTyped
<1>2. ASSUME NEW s, Moved(r, s), reports' = (reports \ {r}) \cup {s}
      PROVE  ReportsTyped'
  <2>1. IsFiniteSet(reports')
      BY <1>2, FS_RemoveElement, FS_AddElement DEF ReportsTyped
  <2>2. \A q \in reports' : Record(q) /\ q.source \in Callers /\ q.ids \subseteq Nodes
      BY <1>2 DEF ReportsTyped, Moved
  <2>3. \A q \in reports \ {r} : q.source = s.source => q.no # s.no
      BY <1>2 DEF ReportsTyped, Moved
  <2>4. \A q, t \in reports' : q.source = t.source /\ q.no = t.no => q = t
      BY <1>2, <2>3 DEF ReportsTyped
  <2> QED BY <2>1, <2>2, <2>4 DEF ReportsTyped
<1> QED BY <1>1, <1>2 DEF Moves

\* The lock is not concerned by a report whose run has released it.
LEMMA ReadersStay ==
    ASSUME ReadersCounted, NEW r \in reports, r.pc \notin {"persist", "report"},
           UNCHANGED <<readers, run>>,
           \/ reports' = reports \ {r}
           \/ \E s : s.pc \notin {"persist", "report"} /\ reports' = (reports \ {r}) \cup {s}
    PROVE  ReadersCounted'
<1>1. Ending(reports') = Ending(reports)
    BY DEF Ending
<1>2. Ending(reports)' = Ending(reports)
    BY <1>1 DEF Ending
<1> QED BY <1>2 DEF ReadersCounted

\* TestInv at the start.
LEMMA TestInit == Init => TestInv
<1> SUFFICES ASSUME Init PROVE TestInv
    OBVIOUS
<1> USE DEF Init, SpeedInit
<1>1. ModesTyped /\ TouchedCovers
  <2>1. project \in BOOLEAN
      OBVIOUS
  <2>2. switches \in 0..MaxSwitches
      BY ConfirmationAssumption
  <2> QED BY <2>1, <2>2 DEF ModesTyped, TouchedCovers
<1>2. SwitchShape
    BY DEF SwitchShape, SwitchRecord, NoSwitch, PruneRecord, NoPrune
<1>3. CallsTyped
    BY DEF CallsTyped, CallRecord, NoCall, NoProbe
<1>4. ReportsTyped
    BY FS_EmptySet DEF ReportsTyped
<1>5. ReadersCounted /\ RunInMode
  <2>1. Cardinality(Ending(reports)) = 0
      BY FS_EmptySet DEF Ending
  <2>2. run = NoRun /\ run \in RunRecord /\ ~run.on /\ readers = 0
      BY NoRunFacts
  <2>3. RunInMode
      BY NoRunFacts DEF RunInMode
  <2> HIDE DEF Init
  <2> QED BY <2>1, <2>2, <2>3 DEF ReadersCounted
<1>6. ProbesOfThisWindow
    BY DEF ProbesOfThisWindow, NoProbe
<1> QED BY <1>1, <1>2, <1>3, <1>4, <1>5, <1>6 DEF TestInv

\* What a run changes of its own leaves the rest of TestInv alone.
LEMMA RunChanges ==
    ASSUME TestInv, UNCHANGED <<modeVars, writer, switchVars>>, CallsTyped', ReportsTyped',
           ReadersCounted', RunInMode', ProbesOfThisWindow'
    PROVE  TestInv'
<1>1. ModesTyped' /\ TouchedCovers' /\ SwitchShape'
    BY DEF TestInv, ModesTyped, TouchedCovers, SwitchShape, modeVars, switchVars
<1> QED BY <1>1 DEF TestInv

\* The reports and the lock are as before.
LEMMA SameReaders ==
    ASSUME TestInv, UNCHANGED <<readers, run, reports>>
    PROVE  ReportsTyped' /\ ReadersCounted'
BY DEF TestInv, ReportsTyped, ReadersCounted, Ending

\* Run: a call waits for the gate.
LEMMA RunKeepsTest ==
    ASSUME TestInv, NEW c \in Sources, NEW ids \in SUBSET Nodes, Manage(Run(c, ids))
    PROVE  TestInv'
<1> USE DEF Manage, Run, BeginCall
<1>1. CallsTyped'
    BY DEF TestInv, CallsTyped, CallRecord, Callers, resultVars
<1>2. RunInMode'
    BY DEF TestInv, RunInMode, modeVars, gateVars
<1>3. ProbesOfThisWindow'
    BY DEF TestInv, ProbesOfThisWindow, resultVars, modeVars
<1> QED BY <1>1, <1>2, <1>3, RunChanges, SameReaders DEF gateVars

\* A run that begins has classified its nodes by their mode.
LEMMA TakeGateKeepsTest ==
    ASSUME TestInv, NEW c \in Callers, CallProceeds(c)
    PROVE  TestInv'
<1> USE DEF CallProceeds, Manage, TakeGate
<1>1. PICK sel \in Selections(c, caller[c].ids) : Refuse(c, sel) \/ Start(c, sel)
    OBVIOUS
<1>2. sel \subseteq Nodes
    BY DEF Selections, TestInv, ModesTyped
<1>3. /\ caller[c] \in CallRecord /\ caller[c].ids \subseteq Nodes
      /\ \A out \in {"started", "busy", "refused"} : Answered(c, out) \in CallRecord
    BY DEF TestInv, CallsTyped, CallRecord, Answered, NoCall
<1>4. \A out \in Answers(c, sel) : out \in {"started", "busy", "refused"}
    BY DEF Answers
<1>5. CallsTyped'
  <2>1. \E out \in {"started", "busy", "refused"} : caller' = [caller EXCEPT ![c] = Answered(c, out)]
      BY <1>1, <1>4 DEF Refuse, Start
  <2> QED BY <1>3, <2>1 DEF TestInv, CallsTyped, resultVars
<1>6. ProbesOfThisWindow'
    BY DEF TestInv, ProbesOfThisWindow, resultVars, modeVars
<1>7. CASE Refuse(c, sel)
  <2>1. RunInMode'
      BY <1>7 DEF TestInv, RunInMode, Refuse, modeVars
  <2> QED BY <1>5, <1>6, <1>7, <2>1, RunChanges, SameReaders DEF Refuse
<1>8. CASE Start(c, sel)
  <2>1. ~run.on /\ (c # "manual" => ~project)
      BY <1>8 DEF Start, Answers, TestInv, ReadersCounted, RunRecord
  <2>2. run' \in RunRecord /\ run'.on
      BY <1>2, <1>3, <1>8, <2>1 DEF Start, TestInv, ReadersCounted, RunRecord, ModesTyped
  <2>3. ReportsTyped' /\ ReadersCounted'
    <3>1. reports' = reports /\ ReportsTyped
        BY DEF TestInv
    <3>2. readers' = readers + 1 /\ readers = Cardinality(Ending(reports))
        BY <1>8, <2>1, <3>1, EndingFacts DEF Start, TestInv, ReadersCounted
    <3>3. readers \in Nat
        BY <3>1, <3>2, EndingFacts
    <3>4. Ending(reports)' = Ending(reports) /\ ReportsTyped'
        BY <3>1 DEF Ending, ReportsTyped
    <3> QED BY <2>2, <3>2, <3>3, <3>4 DEF ReadersCounted
  <2>4. /\ run'.project = project /\ run'.source = c
        /\ \A n \in Nodes : run'.stage[n] # "out" => n \in sel
        /\ \A n \in Nodes : run'.value[n] # "aborted"
        /\ run'.probes = {n \in sel : project \/ ~MonitoringEnabled(n)}
      BY <1>8 DEF Start, None
  <2>5. RunInMode'
      BY <2>1, <2>4 DEF RunInMode, MonitoringEnabled, modeVars
  <2> QED BY <1>5, <1>6, <2>3, <2>5, RunChanges
<1> QED BY <1>1, <1>7, <1>8

\* The run goes on with one node and stays in its mode.
LEMMA StageStep ==
    ASSUME TestInv, NEW n \in Nodes,
           UNCHANGED <<modeVars, gateVars, caller, resultVars, reports, switchVars>>,
           NEW s \in {"primary", "primed", "waiting", "reserve", "ended", "over"},
           NEW v \in Verdicts \cup {"aborted", None},
           v = "aborted" => run.cancelled,
           run.stage[n] # "out",
           run' = [run EXCEPT !.stage[n] = s, !.value[n] = v]
    PROVE  TestInv'
<1>1. run \in RunRecord /\ run.on
    BY NoRunFacts DEF TestInv, ReadersCounted
<1>2. /\ run' \in RunRecord /\ run'.on /\ run'.project = run.project /\ run'.source = run.source
      /\ run'.probes = run.probes /\ run'.cancelled = run.cancelled
      /\ \A m \in Nodes : run'.stage[m] = IF m = n THEN s ELSE run.stage[m]
      /\ \A m \in Nodes : run'.value[m] = IF m = n THEN v ELSE run.value[m]
    BY <1>1 DEF RunRecord
<1>3. ReportsTyped' /\ ReadersCounted'
    BY <1>1, <1>2 DEF TestInv, ReportsTyped, ReadersCounted, Ending, gateVars
<1>4. RunInMode'
    BY <1>1, <1>2 DEF TestInv, RunInMode, modeVars
<1>5. CallsTyped' /\ ProbesOfThisWindow'
    BY DEF TestInv, CallsTyped, ProbesOfThisWindow, modeVars, resultVars
<1> QED BY <1>3, <1>4, <1>5, RunChanges DEF gateVars

\* recordResult puts a probe of this window apart.
LEMMA RecordStep ==
    ASSUME TestInv, NEW n \in Nodes, UNCHANGED <<modeVars, gateVars, caller, reports, switchVars>>,
           run.stage[n] # "out", recordResult(n)
    PROVE  /\ TestInv'
           /\ run'.on = run.on
           /\ \A m \in Nodes : results'[m] # results[m]
                => MonitoringEnabled(m) /\ ~project /\ results'[m] = "real"
<1>1. /\ run \in RunRecord /\ run.on
      /\ probeResults \in [Nodes -> {NoProbe, "node", "project"}]
      /\ results \in [Nodes -> {"none", "real", "broken"}]
    BY NoRunFacts DEF TestInv, ReadersCounted, CallsTyped
<1>2. /\ n \in run.probes <=> project \/ n \in paused
      /\ run.project = project
      /\ run.value[n] = "aborted" => run.cancelled
    BY <1>1 DEF TestInv, RunInMode
<1>3. /\ run' \in RunRecord /\ run'.on /\ run'.project = run.project /\ run'.source = run.source
      /\ run'.probes = run.probes /\ run'.cancelled = run.cancelled
      /\ \A m \in Nodes : run'.stage[m] = IF m = n THEN "over" ELSE run.stage[m]
      /\ \A m \in Nodes : run'.value[m] \in {run.value[m], None}
  <2>1. PICK v \in {run.value[n], None} : run' = [run EXCEPT !.stage[n] = "over", !.value[n] = v]
    <3>1. CASE run' = [run EXCEPT !.stage[n] = "over"]
      <4>1. run' = [run EXCEPT !.stage[n] = "over", !.value[n] = run.value[n]]
          BY <1>1, <3>1 DEF RunRecord
      <4> QED BY <4>1
    <3>2. CASE run' = [run EXCEPT !.stage[n] = "over", !.value[n] = None]
        BY <3>2
    <3> QED BY <3>1, <3>2 DEF recordResult
  <2>2. v \in Verdicts \cup {"aborted", None}
      BY <1>1 DEF RunRecord
  <2> QED BY <1>1, <2>1, <2>2 DEF RunRecord
<1>4. ReportsTyped' /\ ReadersCounted'
    BY <1>1, <1>3 DEF TestInv, ReportsTyped, ReadersCounted, Ending, gateVars
<1>5. RunInMode'
    BY <1>1, <1>3 DEF TestInv, RunInMode, modeVars, None
<1>6. /\ \/ UNCHANGED <<results, probeResults>>
         \/ /\ n \in run.probes /\ UNCHANGED results
            /\ probeResults' = [probeResults EXCEPT ![n] = IF run.project THEN "project" ELSE "node"]
         \/ /\ n \notin run.probes /\ run.value[n] # "aborted"
            /\ probeResults' = [probeResults EXCEPT ![n] = NoProbe]
            /\ results' = [results EXCEPT ![n] = Stored(run.value[n])]
    BY <1>2 DEF recordResult, Failures
<1>7. CallsTyped' /\ ProbesOfThisWindow'
    BY <1>1, <1>2, <1>6 DEF recordResult, TestInv, CallsTyped, ProbesOfThisWindow, Stored, NoProbe, modeVars
<1>8. \A m \in Nodes : results'[m] # results[m]
          => MonitoringEnabled(m) /\ ~project /\ results'[m] = "real"
    BY <1>1, <1>2, <1>6 DEF Stored, MonitoringEnabled
<1> QED BY <1>1, <1>3, <1>4, <1>5, <1>7, <1>8, RunChanges DEF gateVars

\* A run that is over: its goroutine still holds the lock.
LEMMA EndRunKeepsTest ==
    ASSUME TestInv, RunGoesOn, EndRun
    PROVE  TestInv'
<1> DEFINE rep == [no |-> FreshReport(run.source), source |-> run.source, ids |-> run.ids,
                   res |-> run.value, probes |-> run.probes, cancelled |-> run.cancelled,
                   pc |-> "persist"]
<1>1. /\ run' = NoRun /\ reports' = reports \cup {rep} /\ readers' = readers
      /\ UNCHANGED <<modeVars, writer, caller, resultVars, switchVars>>
    BY DEF EndRun, RunGoesOn, gateVars
<1>2. ReportsTyped /\ run \in RunRecord /\ run.on /\ readers = Cardinality(Ending(reports)) + 1
    BY DEF EndRun, TestInv, ReadersCounted
<1>3. \A r \in reports : r.source = rep.source => r.no # rep.no
    BY <1>2, FreshFacts
<1>4. /\ Record(rep) /\ rep.source \in Callers /\ rep.ids \subseteq Nodes
      /\ rep.pc = "persist"
    BY <1>2 DEF Record, RunRecord
<1> HIDE DEF rep
<1>5. ReportsTyped'
    BY <1>1, <1>2, <1>3, <1>4, FS_AddElement DEF ReportsTyped
<1>6. ReadersCounted'
  <2>1. Ending(reports)' = Ending(reports) \cup {rep} /\ rep \notin Ending(reports)
      BY <1>1, <1>3, <1>4 DEF Ending
  <2>2. Cardinality(Ending(reports)') = Cardinality(Ending(reports)) + 1
      BY <1>2, <2>1, EndingFacts, FS_AddElement
  <2>3. run' \in RunRecord /\ ~run'.on /\ run' = NoRun
      BY <1>1, NoRunFacts
  <2>4. readers' = Cardinality(Ending(reports)') /\ readers' \in Nat
      BY <1>1, <1>2, <2>2, EndingFacts
  <2> QED BY <2>3, <2>4 DEF ReadersCounted
<1>7. RunInMode'
    BY <1>1, NoRunFacts DEF RunInMode
<1>8. CallsTyped' /\ ProbesOfThisWindow'
    BY <1>1 DEF TestInv, CallsTyped, ProbesOfThisWindow, modeVars, resultVars
<1> QED BY <1>1, <1>5, <1>6, <1>7, <1>8, RunChanges

\* It saves the results, and its report is known by its number.
LEMMA persistResultsKeepsTest ==
    ASSUME TestInv, NEW r \in reports, RunGoesOn, persistResults(r)
    PROVE  /\ TestInv'
           /\ \E s : Moved(r, s) /\ s.pc = "report" /\ reports' = (reports \ {r}) \cup {s}
<1> DEFINE s == [r EXCEPT !.pc = "report"]
<1>1. /\ reports' = (reports \ {r}) \cup {s} /\ r.pc = "persist" /\ savedResults' = results
      /\ UNCHANGED <<modeVars, writer, readers, run, caller, results, probeResults, switchVars>>
    BY DEF persistResults, Advance, RunGoesOn, gateVars
<1>2. ReportsTyped /\ Record(r)
    BY DEF TestInv, ReportsTyped
<1>3. Moved(r, s) /\ s.pc = "report"
    BY <1>2, ReportMoves
<1> HIDE DEF s
<1>4. ReportsTyped'
    BY <1>1, <1>2, <1>3, ReportsStay DEF Moves
<1>5. ReadersCounted'
  <2> DEFINE E == Ending(reports)
  <2>1. Ending(reports)' = (E \ {r}) \cup {s} /\ r \in E
      BY <1>1, <1>3 DEF Ending
  <2>2. s \notin E
      BY <1>1, <1>2, <1>3 DEF Ending, ReportsTyped, Moved
  <2>3. IsFiniteSet(E) /\ Cardinality(E) \in Nat
      BY <1>2, EndingFacts
  <2> HIDE DEF E
  <2>4. IsFiniteSet(E \ {r}) /\ Cardinality(E \ {r}) = Cardinality(E) - 1
      BY <2>1, <2>3, FS_RemoveElement
  <2>5. Cardinality((E \ {r}) \cup {s}) = Cardinality(E)
    <3> DEFINE F == E \ {r}
    <3>1. IsFiniteSet(F) /\ Cardinality(F) = Cardinality(E) - 1 /\ s \notin F
        BY <2>2, <2>4
    <3> HIDE DEF F
    <3>2. Cardinality(F \cup {s}) = Cardinality(F) + 1
        BY <3>1, FS_AddElement
    <3>3. Cardinality(F \cup {s}) = Cardinality(E)
        BY <2>3, <3>1, <3>2
    <3> QED BY <3>3 DEF F
  <2> QED BY <1>1, <2>1, <2>5 DEF TestInv, ReadersCounted, E
<1>6. RunInMode' /\ CallsTyped' /\ ProbesOfThisWindow'
    BY <1>1 DEF TestInv, RunInMode, CallsTyped, ProbesOfThisWindow, modeVars
<1> QED BY <1>1, <1>3, <1>4, <1>5, <1>6, RunChanges

\* It releases the lock.
LEMMA ReportRunKeepsTest ==
    ASSUME TestInv, NEW r \in reports, RunGoesOn, ReportRun(r)
    PROVE  /\ TestInv'
           /\ \/ r.cancelled /\ reports' = reports \ {r}
              \/ \E s : Moved(r, s) /\ s.pc = "begin" /\ reports' = (reports \ {r}) \cup {s}
<1> DEFINE s == [r EXCEPT !.pc = "begin"]
<1>1. /\ \/ r.cancelled /\ reports' = reports \ {r}
         \/ reports' = (reports \ {r}) \cup {s}
      /\ r.pc = "report" /\ readers' = readers - 1
      /\ UNCHANGED <<modeVars, writer, run, caller, resultVars, switchVars>>
    BY DEF ReportRun, Advance, RunGoesOn
<1>2. ReportsTyped /\ Record(r)
    BY DEF TestInv, ReportsTyped
<1>3. Moved(r, s) /\ s.pc = "begin"
    BY <1>2, ReportMoves
<1> HIDE DEF s
<1>4. ReportsTyped'
    BY <1>1, <1>2, <1>3, ReportsStay DEF Moves
<1>5. ReadersCounted'
  <2> DEFINE E == Ending(reports)
  <2>1. Ending(reports)' = E \ {r} /\ r \in E
      BY <1>1, <1>3 DEF Ending
  <2>2. IsFiniteSet(E) /\ Cardinality(E) \in Nat
      BY <1>2, EndingFacts
  <2>3. readers = Cardinality(E) + IF run.on THEN 1 ELSE 0
      BY DEF TestInv, ReadersCounted
  <2>4. run' \in RunRecord /\ (~run'.on => run' = NoRun) /\ run'.on = run.on
      BY <1>1 DEF TestInv, ReadersCounted
  <2> HIDE DEF E
  <2>5. Cardinality(E \ {r}) = Cardinality(E) - 1
      BY <2>1, <2>2, FS_RemoveElement
  <2>6. readers' = Cardinality(E \ {r}) + IF run'.on THEN 1 ELSE 0
      BY <1>1, <2>2, <2>3, <2>4, <2>5
  <2> QED BY <2>1, <2>4, <2>6 DEF ReadersCounted
<1>6. RunInMode' /\ CallsTyped' /\ ProbesOfThisWindow'
    BY <1>1 DEF TestInv, RunInMode, CallsTyped, ProbesOfThisWindow, modeVars, resultVars
<1> QED BY <1>1, <1>3, <1>4, <1>5, <1>6, RunChanges

\* A step of the run.
LEMMA RunStepKeepsTest ==
    ASSUME TestInv, RunGoesOn
    PROVE  /\ TestInv'
           /\ \A m \in Nodes : results'[m] # results[m]
                => MonitoringEnabled(m) /\ ~project /\ results'[m] = "real"
<1>1. /\ run \in RunRecord
      /\ \A n \in Nodes : /\ run.value[n] \in Verdicts \cup {"aborted", None}
                          /\ run.value[n] = "aborted" => run.cancelled
    BY DEF TestInv, ReadersCounted, RunRecord, RunInMode
<1>2. ASSUME NEW n \in Nodes, NEW s \in {"primary", "primed", "waiting", "reserve", "ended", "over"},
             run' = [run EXCEPT !.stage[n] = s]
      PROVE  run' = [run EXCEPT !.stage[n] = s, !.value[n] = run.value[n]]
    BY <1>1, <1>2 DEF RunRecord
<1>3. ASSUME NEW n \in Nodes, StartPrimary(n)
      PROVE  TestInv'
  <2>1. PICK s \in {"primary", "over"} : run' = [run EXCEPT !.stage[n] = s]
      BY <1>3 DEF StartPrimary
  <2>2. run' = [run EXCEPT !.stage[n] = s, !.value[n] = run.value[n]]
      BY <1>2, <2>1
  <2> QED BY <1>1, <1>3, <2>2, StageStep DEF StartPrimary, RunGoesOn, resultVars
<1>4. ASSUME NEW n \in Nodes, EndPrimary(n)
      PROVE  TestInv'
  <2>1. PICK v \in Outcomes :
           run' = [run EXCEPT !.value[n] = v,
                              !.stage[n] = IF usesSequencedFallback(run.source) THEN "primed"
                                           ELSE IF shouldAttemptFallback(v) THEN "reserve"
                                           ELSE "ended"]
      BY <1>4 DEF EndPrimary
  <2>2. PICK s \in {"primed", "reserve", "ended"} : run' = [run EXCEPT !.value[n] = v, !.stage[n] = s]
      BY <2>1
  <2>3. run' = [run EXCEPT !.stage[n] = s, !.value[n] = v]
      BY <1>1, <2>2 DEF RunRecord
  <2>4. v \in Verdicts \cup {"aborted", None} /\ (v = "aborted" => run.cancelled)
      BY SpeedAssumption DEF Outcomes
  <2> QED BY <1>1, <1>4, <2>3, <2>4, StageStep DEF EndPrimary, RunGoesOn, resultVars
<1>5. ASSUME NEW n \in Nodes, StartReserve(n)
      PROVE  TestInv'
  <2>1. PICK s \in {"reserve", "ended"} : run' = [run EXCEPT !.stage[n] = s]
      BY <1>5 DEF StartReserve
  <2>2. run' = [run EXCEPT !.stage[n] = s, !.value[n] = run.value[n]]
      BY <1>2, <2>1
  <2> QED BY <1>1, <1>5, <2>2, StageStep DEF StartReserve, RunGoesOn, resultVars
<1>6. ASSUME NEW n \in Nodes, testFallbackForPrimary(n)
      PROVE  TestInv'
  <2>1. PICK v \in {run.value[n]} \cup (Verdicts \cap {"ok", "low"}) :
           run' = [run EXCEPT !.stage[n] = "ended", !.value[n] = v]
      BY <1>6 DEF testFallbackForPrimary
  <2>2. v \in Verdicts \cup {"aborted", None} /\ (v = "aborted" => run.cancelled)
      BY <1>1
  <2> QED BY <1>6, <2>1, <2>2, StageStep DEF testFallbackForPrimary, RunGoesOn, resultVars
<1>7. ASSUME NEW n \in Nodes, ReadResult(n)
      PROVE  /\ TestInv'
             /\ \A m \in Nodes : results'[m] # results[m]
                  => MonitoringEnabled(m) /\ ~project /\ results'[m] = "real"
    BY <1>7, RecordStep DEF ReadResult, RunGoesOn
<1>8. ASSUME NEW n \in Nodes, ReadPrimary(n)
      PROVE  /\ TestInv'
             /\ \A m \in Nodes : results'[m] # results[m]
                  => MonitoringEnabled(m) /\ ~project /\ results'[m] = "real"
  <2>1. CASE run' = [run EXCEPT !.stage[n] = "waiting"] /\ UNCHANGED resultVars
    <3>1. run' = [run EXCEPT !.stage[n] = "waiting", !.value[n] = run.value[n]]
        BY <1>2, <2>1
    <3>2. TestInv'
        BY <1>1, <1>8, <2>1, <3>1, StageStep DEF ReadPrimary, RunGoesOn, resultVars
    <3> QED BY <2>1, <3>2 DEF resultVars
  <2>2. CASE recordResult(n)
      BY <1>8, <2>2, RecordStep DEF ReadPrimary, RunGoesOn
  <2> QED BY <1>8, <2>1, <2>2 DEF ReadPrimary
<1>9. CASE EndRun \/ \E r \in reports : persistResults(r) \/ ReportRun(r)
  <2>1. TestInv'
      BY <1>9, EndRunKeepsTest, persistResultsKeepsTest, ReportRunKeepsTest
  <2>2. UNCHANGED results
      BY <1>9 DEF EndRun, persistResults, ReportRun, resultVars
  <2> QED BY <2>1, <2>2
<1>10. ASSUME NEW n \in Nodes, \/ StartPrimary(n) \/ EndPrimary(n) \/ StartReserve(n)
                               \/ testFallbackForPrimary(n)
       PROVE  UNCHANGED results
    BY <1>10 DEF StartPrimary, EndPrimary, StartReserve, testFallbackForPrimary, resultVars
<1> QED BY <1>3, <1>4, <1>5, <1>6, <1>7, <1>8, <1>9, <1>10 DEF RunGoesOn, RunStep

\* Cancel only marks the run.
LEMMA CancelKeepsTest ==
    ASSUME TestInv, Manage(Cancel)
    PROVE  TestInv'
<1> USE DEF Manage, Cancel
<1>1. /\ run' \in RunRecord /\ run'.on /\ run'.cancelled
      /\ run'.project = run.project /\ run'.source = run.source /\ run'.probes = run.probes
      /\ run'.stage = run.stage /\ run'.value = run.value
    BY DEF TestInv, ReadersCounted, RunRecord
<1>2. ReportsTyped' /\ ReadersCounted' /\ RunInMode'
    BY <1>1 DEF TestInv, ReportsTyped, ReadersCounted, Ending, RunInMode, gateVars, modeVars
<1>3. CallsTyped' /\ ProbesOfThisWindow'
    BY DEF TestInv, CallsTyped, ProbesOfThisWindow, resultVars, modeVars
<1> QED BY <1>2, <1>3, RunChanges DEF gateVars

\* A switch that is asked for waits for the lock.
LEMMA SwitchAskKeepsTest ==
    ASSUME TestInv, \E who \in {"operator", "refresh"} : SwitchAsk(who)
    PROVE  TestInv'
<1>1. SwitchShape'
    BY DEF TestInv, SwitchShape, SwitchAsk, NoSwitch, SwitchRecord, modeVars
<1>2. ModesTyped' /\ TouchedCovers' /\ CallsTyped' /\ ProbesOfThisWindow' /\ RunInMode'
    BY DEF SwitchAsk, TestInv, ModesTyped, TouchedCovers, CallsTyped, ProbesOfThisWindow, RunInMode,
           modeVars, resultVars
<1> QED BY <1>1, <1>2, SameReaders DEF TestInv, SwitchAsk

\* A switch changes the modes while nobody reads.
LEMMA SwitchApplyKeepsTest ==
    ASSUME TestInv, SwitchApply
    PROVE  TestInv'
<1>1. ~run.on /\ run = NoRun
    BY EndingFacts DEF SwitchApply, TestInv, ReadersCounted, RunRecord
<1>2. RunInMode' /\ ReportsTyped' /\ ReadersCounted'
    BY <1>1, NoRunFacts, SameReaders DEF SwitchApply, RunInMode
<1>3. switches \in 0..MaxSwitches /\ switches < MaxSwitches /\ prune \in PruneRecord
    BY DEF SwitchApply, TestInv, ModesTyped, SwitchShape
<1>4. switches + 1 \in 0..MaxSwitches
    BY <1>3, ConfirmationAssumption
<1>5. CASE NothingToSwitch
  <2>1. SwitchShape'
      BY <1>3, <1>5 DEF SwitchShape, NothingToSwitch, Release, NoSwitch, SwitchRecord
  <2>2. ModesTyped' /\ TouchedCovers' /\ CallsTyped' /\ ProbesOfThisWindow'
      BY <1>5 DEF NothingToSwitch, SwitchApply, TestInv, ModesTyped, TouchedCovers, CallsTyped,
            ProbesOfThisWindow, modeVars
  <2> QED BY <1>2, <2>1, <2>2 DEF TestInv
<1>6. ASSUME NEW kind \in Wanted, NEW ids \in Subjects(kind), SetNodeMaintenance(kind, ids)
      PROVE  TestInv'
  <2>1. /\ switches' = switches + 1 /\ active' = active /\ project' = project
        /\ touched' = touched \cup ids
        /\ paused' \subseteq paused \cup ids
        /\ paused \ ids \subseteq paused'
        /\ ids \subseteq active
      BY <1>6 DEF SetNodeMaintenance
  <2>2. ids \subseteq Nodes
      BY <2>1 DEF TestInv, ModesTyped
  <2>3. ModesTyped' /\ TouchedCovers'
      BY <1>4, <2>1, <2>2 DEF TestInv, ModesTyped, TouchedCovers
  <2>4. SwitchShape'
    <3>1. CASE kind = "pause"
        BY <1>3, <1>6, <2>2, <3>1 DEF SwitchShape, SetNodeMaintenance, HoldOn, SwitchRecord
    <3>2. CASE kind # "pause"
        BY <1>3, <1>6, <3>2 DEF SwitchShape, SetNodeMaintenance, Release, NoSwitch, SwitchRecord
    <3> QED BY <3>1, <3>2
  <2>5. CallsTyped' /\ ProbesOfThisWindow'
      BY <1>6, <2>1 DEF SetNodeMaintenance, SwitchApply, TestInv, CallsTyped, ProbesOfThisWindow, NoProbe
  <2> QED BY <1>2, <2>3, <2>4, <2>5 DEF TestInv
<1>7. ASSUME NEW kind \in Wanted, NEW ids \in Subjects(kind), SetProjectMaintenance(kind, ids)
      PROVE  TestInv'
  <2>1. project \in BOOLEAN /\ project' \in BOOLEAN /\ ids \subseteq Nodes
      BY <1>7 DEF SetProjectMaintenance, TestInv, ModesTyped, Subjects
  <2>2. ModesTyped' /\ TouchedCovers'
      BY <1>4, <1>7, <2>1 DEF SetProjectMaintenance, TestInv, ModesTyped, TouchedCovers
  <2>3. SwitchShape'
    <3>1. CASE kind = "project"
      <4>1. project'
          BY <1>7, <2>1, <3>1 DEF SetProjectMaintenance
      <4> QED BY <1>3, <1>7, <2>1, <3>1, <4>1 DEF SwitchShape, SetProjectMaintenance, HoldOn, SwitchRecord
    <3>2. CASE kind # "project"
        BY <1>3, <1>7, <3>2 DEF SwitchShape, SetProjectMaintenance, Release, NoSwitch, SwitchRecord
    <3> QED BY <3>1, <3>2
  <2>4. CallsTyped' /\ ProbesOfThisWindow'
      BY <1>7 DEF SetProjectMaintenance, SwitchApply, TestInv, CallsTyped, ProbesOfThisWindow, NoProbe
  <2> QED BY <1>2, <2>2, <2>3, <2>4 DEF TestInv
<1>8. ASSUME NEW kind \in Wanted, NEW ids \in Subjects(kind), Refresh(kind, ids)
      PROVE  TestInv'
  <2>1. ids \subseteq Nodes
      BY <1>8 DEF Refresh, Subjects
  <2>2. ModesTyped' /\ TouchedCovers'
      BY <1>4, <1>8, <2>1 DEF Refresh, TestInv, ModesTyped, TouchedCovers
  <2>3. SwitchShape'
      BY <1>8 DEF SwitchShape, Refresh, Release, NoSwitch, NoPrune, SwitchRecord, PruneRecord
  <2>4. CallsTyped' /\ ProbesOfThisWindow'
      BY <1>8 DEF Refresh, SwitchApply, TestInv, CallsTyped, ProbesOfThisWindow
  <2> QED BY <1>2, <2>2, <2>3, <2>4 DEF TestInv
<1> QED BY <1>5, <1>6, <1>7, <1>8 DEF SwitchApply

\* What a switch and a refresh do at Telegram, and the saves.
LEMMA TelegramKeepsTest ==
    ASSUME TestInv, UNCHANGED <<modeVars, readers, caller, run, resultVars>>, SwitchShape',
           UNCHANGED reports \/ \E r \in reports : r.pc = "save" /\ reports' = reports \ {r}
    PROVE  TestInv'
<1>1. ModesTyped' /\ TouchedCovers' /\ CallsTyped' /\ ProbesOfThisWindow' /\ RunInMode'
    BY DEF TestInv, ModesTyped, TouchedCovers, CallsTyped, ProbesOfThisWindow, RunInMode, modeVars,
           resultVars
<1>2. ReportsTyped' /\ ReadersCounted'
  <2>1. CASE UNCHANGED reports
      BY <2>1, SameReaders
  <2>2. ASSUME NEW r \in reports, r.pc = "save", reports' = reports \ {r}
        PROVE  ReportsTyped' /\ ReadersCounted'
      BY <2>2, ReportsStay, ReadersStay DEF TestInv, Moves
  <2> QED BY <2>1, <2>2
<1> QED BY <1>1, <1>2 DEF TestInv

\* The end of a switch.
LEMMA SwitchClearKeepsTest ==
    ASSUME TestInv, SwitchClear
    PROVE  TestInv'
<1>1. UNCHANGED <<modeVars, readers, caller, run, resultVars, reports, prune>>
    BY DEF SwitchClear
<1>2. SwitchShape'
  <2>1. CASE Release
      BY <1>1, <2>1 DEF TestInv, SwitchShape, Release, NoSwitch, SwitchRecord
  <2>2. CASE sw' = [sw EXCEPT !.pc = "save"] /\ UNCHANGED writer
      BY <1>1, <2>2 DEF TestInv, SwitchShape, SwitchRecord, modeVars
  <2> QED BY <2>1, <2>2 DEF SwitchClear, ClearNode, ClearAll
<1> QED BY <1>1, <1>2, TelegramKeepsTest

\* A refresh prunes.
LEMMA PruneKeepsTest ==
    ASSUME TestInv, pending \subseteq Keys, PruneProceeds
    PROVE  TestInv'
<1>1. UNCHANGED <<speedVars, sw>>
    BY DEF PruneProceeds, PruneReads, PruneCollects, PruneClears
<1>2. Watched \subseteq Nodes /\ NodesOf(pending) \subseteq Nodes
    BY DEF Watched, NodesOf, Keys
<1>3. prune' \in PruneRecord
    BY <1>2 DEF PruneProceeds, PruneReads, PruneCollects, PruneClears, PruneRecord, NoPrune
<1>4. SwitchShape'
    BY <1>1, <1>3 DEF TestInv, SwitchShape, speedVars, modeVars, gateVars
<1> QED BY <1>1, <1>4, TelegramKeepsTest DEF speedVars, gateVars

\* The saves.
LEMMA SaveKeepsTest ==
    ASSUME TestInv, Save
    PROVE  TestInv'
<1>1. CASE SaveBegins
  <2>1. /\ UNCHANGED <<modeVars, readers, writer, caller, run, resultVars>>
        /\ UNCHANGED reports \/ \E r \in reports : r.pc = "save" /\ reports' = reports \ {r}
        /\ \/ UNCHANGED switchVars
           \/ sw' = [sw EXCEPT !.pc = "saving"] /\ UNCHANGED prune
           \/ prune' = [prune EXCEPT !.pc = "saving"] /\ UNCHANGED sw
      BY <1>1 DEF SaveBegins, gateVars, switchVars
  <2>2. SwitchShape'
      BY <2>1 DEF TestInv, SwitchShape, SwitchRecord, PruneRecord, switchVars, modeVars
  <2> QED BY <2>1, <2>2, TelegramKeepsTest
<1>2. CASE SaveEnds
  <2>1. /\ UNCHANGED <<modeVars, readers, caller, run, resultVars, reports>>
        /\ Release \/ UNCHANGED <<writer, sw>>
        /\ prune' \in {NoPrune, prune}
      BY <1>2 DEF SaveEnds
  <2>2. SwitchShape'
      BY <2>1 DEF TestInv, SwitchShape, Release, NoSwitch, SwitchRecord, NoPrune, PruneRecord, modeVars
  <2> QED BY <2>1, <2>2, TelegramKeepsTest
<1> QED BY <1>1, <1>2 DEF Save

\* What becomes of a report; that of a confirmation goes on to settle it.
LEMMA NotifyMoves ==
    ASSUME NEW r \in reports, Record(r), Notify(r)
    PROVE  \/ (NotifyBegin(r) /\ r.source = Retry => project) /\ reports' = reports \ {r}
           \/ \E s : /\ Moved(r, s) /\ s.pc \notin {"persist", "report"}
                     /\ NotifyBegin(r) /\ r.source = Retry => s.pc = "clear"
                     /\ reports' = (reports \ {r}) \cup {s}
<1> DEFINE at(p) == [r EXCEPT !.pc = p]
           u == [at("clear") EXCEPT !.res = Reportable(r)]
<1>1. \A p : Moved(r, at(p)) /\ at(p).pc = p
    BY ReportMoves
<1>2. Moved(r, u) /\ u.pc = "clear"
  <2>1. Record(at("clear"))
      BY <1>1 DEF Moved
  <2> DEFINE t == at("clear")
  <2>2. Moved(r, t) /\ t.pc = "clear" /\ Record(t)
      BY <1>1, <2>1
  <2> HIDE DEF t
  <2>3. Moved(t, [t EXCEPT !.res = Reportable(r)]) /\ [t EXCEPT !.res = Reportable(r)].pc = t.pc
      BY <2>2, ReportMoves
  <2>4. Moved(r, [t EXCEPT !.res = Reportable(r)])
      BY <2>2, <2>3 DEF Moved
  <2> QED BY <2>2, <2>3, <2>4 DEF t
<1>3. NotifyClear(r) => ~NotifyBegin(r)
    BY DEF NotifyBegin, NotifyClear
<1>4. NotifySchedule(r) => ~NotifyBegin(r)
    BY DEF NotifyBegin, NotifySchedule
<1>5. \/ (NotifyBegin(r) /\ r.source = Retry => project) /\ reports' = reports \ {r}
      \/ r.source = "manual" /\ reports' = (reports \ {r}) \cup {u}
      \/ NotifyBegin(r) /\ r.source = Retry /\ reports' = (reports \ {r}) \cup {at("clear")}
      \/ NotifyBegin(r) /\ r.source # Retry /\ reports' = (reports \ {r}) \cup {at("schedule")}
      \/ NotifyClear(r) /\ reports' = (reports \ {r}) \cup {at("schedule")}
      \/ NotifySchedule(r) /\ reports' = (reports \ {r}) \cup {at("save")}
  <2>1. CASE NotifyBegin(r)
    <3>1. CASE r.source = "manual"
        BY <2>1, <3>1 DEF NotifyBegin, Advance, Retry
    <3>2. CASE r.source # "manual"
        BY <2>1, <3>2 DEF NotifyBegin, Advance, Retry
    <3> QED BY <3>1, <3>2
  <2>2. CASE NotifyClear(r)
      BY <1>3, <2>2 DEF NotifyClear, Advance
  <2>3. CASE NotifySchedule(r)
      BY <1>4, <2>3 DEF NotifySchedule, Advance
  <2> QED BY <2>1, <2>2, <2>3 DEF Notify
<1> HIDE DEF at, u
<1> QED BY <1>1, <1>2, <1>3, <1>4, <1>5 DEF Retry

\* The reports.
LEMMA NotifyKeepsTest ==
    ASSUME TestInv, NEW r \in reports, Notify(r)
    PROVE  TestInv'
<1>1. UNCHANGED <<modeVars, gateVars, caller, run, resultVars, switchVars>>
    BY DEF Notify, NotifyBegin, NotifyClear, NotifySchedule
<1>2. CallsTyped' /\ RunInMode' /\ ProbesOfThisWindow'
    BY <1>1 DEF TestInv, CallsTyped, RunInMode, ProbesOfThisWindow, modeVars, resultVars
<1>3. r.pc \notin {"persist", "report"} /\ Record(r) /\ ReportsTyped /\ ReadersCounted
    BY DEF Notify, NotifyBegin, NotifyClear, NotifySchedule, TestInv, ReportsTyped
<1>4. \/ reports' = reports \ {r}
      \/ \E s : /\ Moved(r, s) /\ s.pc \notin {"persist", "report"}
                /\ reports' = (reports \ {r}) \cup {s}
    BY <1>3, NotifyMoves
<1>5. ReportsTyped' /\ ReadersCounted'
    BY <1>1, <1>3, <1>4, ReportsStay, ReadersStay DEF Moves, gateVars
<1> QED BY <1>1, <1>2, <1>5, RunChanges DEF gateVars

\* The confirmations leave the manager alone, but for their call.
LEMMA RetriesKeepTest ==
    ASSUME TestInv, UNCHANGED <<modeVars, gateVars, run, resultVars, reports, switchVars>>,
           \/ UNCHANGED caller
           \/ \E call \in CallRecord : caller' = [caller EXCEPT ![Retry] = call]
    PROVE  TestInv'
<1>1. CallsTyped'
    BY RetryFacts DEF TestInv, CallsTyped, resultVars
<1>2. RunInMode' /\ ProbesOfThisWindow'
    BY DEF TestInv, RunInMode, ProbesOfThisWindow, modeVars, resultVars
<1> QED BY <1>1, <1>2, RunChanges, SameReaders DEF gateVars

\* A restart.
LEMMA RestartKeepsTest ==
    ASSUME TestInv, Restart
    PROVE  TestInv'
<1> USE DEF Restart
<1>1. ModesTyped' /\ TouchedCovers'
    BY DEF TestInv, ModesTyped, TouchedCovers, modeVars
<1>2. SwitchShape'
    BY DEF SwitchShape, NoSwitch, SwitchRecord, NoPrune, PruneRecord
<1>3. CallsTyped' /\ ProbesOfThisWindow'
    BY DEF TestInv, CallsTyped, CallRecord, NoCall, NoProbe, ProbesOfThisWindow
<1>4. RunInMode'
    BY NoRunFacts DEF RunInMode
<1>5. ReportsTyped' /\ ReadersCounted'
  <2>1. Cardinality(Ending(reports)') = 0
      BY FS_EmptySet DEF Ending
  <2>2. run' = NoRun /\ run' \in RunRecord /\ ~run'.on /\ readers' = 0
      BY NoRunFacts
  <2>3. ReportsTyped'
      BY FS_EmptySet DEF ReportsTyped
  <2> HIDE DEF Restart
  <2> QED BY <2>1, <2>2, <2>3 DEF ReadersCounted
<1> QED BY <1>1, <1>2, <1>3, <1>4, <1>5 DEF TestInv

\* TestInv is inductive, given the types of the confirmations, and a step that
\* is no restart replaces a result by a measurement only.
LEMMA TestStep ==
    ASSUME TestInv, RetriesTyped, [Next]_vars
    PROVE  /\ TestInv'
           /\ \A m \in Nodes : results'[m] # results[m]
                => \/ crashes' # crashes
                   \/ MonitoringEnabled(m) /\ ~project /\ results'[m] = "real"
<1> DEFINE Kept == \A m \in Nodes : results'[m] # results[m]
                      => \/ crashes' # crashes
                         \/ MonitoringEnabled(m) /\ ~project /\ results'[m] = "real"
<1>1. CASE Requests
  <2>0. PICK c \in Sources : \E ids \in RequestsOf(c) : Manage(Run(c, ids))
      BY <1>1 DEF Requests
  <2>1. PICK ids \in RequestsOf(c) : Manage(Run(c, ids))
      BY <2>0
  <2>2. ids \in SUBSET Nodes
      BY DEF RequestsOf
  <2>3. TestInv'
      BY <2>1, <2>2, RunKeepsTest
  <2> QED BY <2>1, <2>3 DEF Manage, Run, resultVars
<1>2. ASSUME NEW c \in Callers, CallProceeds(c)
      PROVE  TestInv' /\ Kept
    BY <1>2, TakeGateKeepsTest DEF CallProceeds, Manage, TakeGate, resultVars
<1>3. CASE Manage(Cancel)
    BY <1>3, CancelKeepsTest DEF Manage, Cancel, resultVars
<1>4. CASE RunGoesOn
    BY <1>4, RunStepKeepsTest
<1>5. CASE RetryGivesUp \/ \E i \in Entries : TimerFires(i)
    BY <1>5, RetriesKeepTest DEF RetryGivesUp, TimerFires, speedVars, resultVars
<1>6. CASE Save \/ \E r \in reports : Notify(r)
  <2>1. TestInv'
      BY <1>6, SaveKeepsTest, NotifyKeepsTest
  <2>2. results' = results
      BY <1>6 DEF Save, SaveBegins, SaveEnds, Notify, NotifyBegin, NotifyClear, NotifySchedule, resultVars
  <2> QED BY <2>1, <2>2
<1>7. ASSUME NEW i \in Entries, runSpeedRetry(i)
      PROVE  TestInv' /\ Kept
  <2>1. entries[i].armed \subseteq Keys
      BY DEF RetriesTyped, EntryRecord
  <2>2. NodesOf(entries[i].armed \cap pending) \subseteq Nodes
      BY <2>1 DEF NodesOf, Keys
  <2>3. [pc |-> "gate", ids |-> NodesOf(entries[i].armed \cap pending), out |-> "none"] \in CallRecord
      BY <2>2 DEF CallRecord
  <2>4. \/ UNCHANGED caller
        \/ \E call \in CallRecord : caller' = [caller EXCEPT ![Retry] = call]
      BY <1>7, <2>3 DEF runSpeedRetry, BeginCall
  <2> QED BY <1>7, <2>4, RetriesKeepTest DEF runSpeedRetry, resultVars
<1>8. CASE RetryReturned
  <2>1. NoCall \in CallRecord
      BY DEF NoCall, CallRecord
  <2> QED BY <1>8, <2>1, RetriesKeepTest DEF RetryReturned, resultVars
<1>9. CASE \E who \in {"operator", "refresh"} : SwitchAsk(who)
    BY <1>9, SwitchAskKeepsTest DEF SwitchAsk, resultVars
<1>10. CASE SwitchProceeds \/ PruneProceeds
  <2>1. TestInv'
      BY <1>10, SwitchApplyKeepsTest, SwitchClearKeepsTest, PruneKeepsTest DEF SwitchProceeds, RetriesTyped
  <2>2. results' = results
      BY <1>10 DEF SwitchProceeds, SwitchApply, SwitchClear, PruneProceeds, PruneReads, PruneCollects,
            PruneClears, speedVars, resultVars
  <2> QED BY <2>1, <2>2
<1>11. CASE Restart
  <2>1. crashes' # crashes
      BY <1>11 DEF Restart, RetriesTyped
  <2> QED BY <1>11, <2>1, RestartKeepsTest
<1>12. CASE UNCHANGED vars
    BY <1>12, RetriesKeepTest DEF vars, speedVars, resultVars
<1> QED BY <1>1, <1>2, <1>3, <1>4, <1>5, <1>6, <1>7, <1>8, <1>9, <1>10, <1>11, <1>12
        DEF Next, RetryProceeds

-----------------------------------------------------------------------------
(* The table of the confirmations. *)

\* A key names a node.
LEMMA KeyFacts == \A k \in Keys : k[1] \in Nodes /\ k[2] \in Reasons /\ k = <<k[1], k[2]>>
BY DEF Keys

\* An empty place of the table.
LEMMA NoEntryFacts ==
    /\ NoEntry \in EntryRecord /\ NoEntry.targets = {} /\ NoEntry.armed = {} /\ ~NoEntry.in
    /\ NoEntry.timer = "none"
BY DEF NoEntry, EntryRecord

\* Without leaves an entry to the nodes that it does not take away.
LEMMA WithoutFacts ==
    ASSUME NEW e \in EntryRecord, NEW ids
    PROVE  /\ Without(e, ids) \in EntryRecord
           /\ Without(e, ids).targets = {k \in e.targets : k[1] \notin ids}
           /\ Without(e, ids).armed = e.armed
           /\ e = NoEntry => Without(e, ids) = NoEntry
           /\ (e.targets # {} => e.in) =>
                  (Without(e, ids).targets # {} => Without(e, ids).in)
           /\ \A k \in Keys : Timed(e, k) /\ k[1] \notin ids => Timed(Without(e, ids), k)
<1> DEFINE left == {k \in e.targets : k[1] \notin ids}
<1>1. CASE left = e.targets
  <2>1. Without(e, ids) = e
      BY <1>1 DEF Without
  <2> QED BY <1>1, <2>1
<1>2. CASE left # e.targets
  <2> DEFINE t == IF left = {} /\ e.timer = "armed" THEN "none" ELSE e.timer
             b == left # {}
  <2>1. Without(e, ids) = [e EXCEPT !.in = b, !.targets = left, !.timer = t]
      BY <1>2 DEF Without
  <2>2. left \in SUBSET Keys /\ t \in {"none", "armed", "fired"}
      BY DEF EntryRecord
  <2>b. b \in BOOLEAN
      OBVIOUS
  <2>c. left # {} => b = TRUE
      OBVIOUS
  <2> HIDE DEF b
  <2>3. Without(e, ids) = [in |-> b, targets |-> left, timer |-> t, armed |-> e.armed]
      BY <2>1 DEF EntryRecord
  <2>4. e # NoEntry
      BY <1>2, NoEntryFacts
  <2> HIDE DEF left
  <2>5. Without(e, ids) \in EntryRecord
      BY <2>2, <2>b, <2>3 DEF EntryRecord
  <2>6. ASSUME NEW k \in Keys, Timed(e, k), k[1] \notin ids
        PROVE  Timed(Without(e, ids), k)
    <3>1. k \in e.targets => k \in left
        BY <2>6 DEF left
    <3> QED BY <2>3, <2>6, <3>1 DEF Timed
  <2>7. Without(e, ids).targets = left /\ Without(e, ids).armed = e.armed
      BY <2>3
  <2>8. left # {} => Without(e, ids).in
    <3>1. Without(e, ids).in = b
        BY <2>3
    <3> QED BY <2>c, <3>1
  <2> QED BY <2>4, <2>5, <2>6, <2>7, <2>8 DEF left
<1> QED BY <1>1, <1>2

\* clearSpeedRetry leaves the table in shape, and what it leaves as it was.
LEMMA ClearFacts ==
    ASSUME RetriesTyped, EntriesShape, NEW ids, clearSpeedRetry(ids)
    PROVE  /\ pending' \subseteq Keys /\ orphaned' \subseteq Nodes /\ entries' \in [Entries -> EntryRecord]
           /\ \A k \in pending' : k \in pending /\ k[1] \notin ids
           /\ \A n \in orphaned : n \notin ids => n \in orphaned'
           /\ \A i \in Entries : /\ entries'[i].targets \subseteq entries[i].targets
                                 /\ entries'[i].targets # {} => entries'[i].in
                                 /\ i > seq => entries'[i] = NoEntry
                                 /\ \A k \in pending' : Timed(entries[i], k) => Timed(entries'[i], k)
<1>1. \A i \in Entries : entries[i] \in EntryRecord /\ entries'[i] = Without(entries[i], ids)
    BY DEF RetriesTyped, clearSpeedRetry
<1>2. /\ pending' \subseteq Keys /\ orphaned' \subseteq Nodes
      /\ \A n \in orphaned : n \notin ids => n \in orphaned'
    BY DEF RetriesTyped, clearSpeedRetry
<1>3. \A k \in pending' : k \in pending /\ k[1] \notin ids
  <2> SUFFICES ASSUME NEW k \in pending' PROVE k \in pending /\ k[1] \notin ids
      OBVIOUS
  <2>1. k \in pending /\ k \notin KeysOf(ids) /\ k \in Keys
      BY DEF RetriesTyped, clearSpeedRetry
  <2>2. k[1] \in ids => <<k[1], k[2]>> \in ids \X Reasons
      BY <2>1, KeyFacts
  <2> QED BY <2>1, <2>2, KeyFacts DEF KeysOf
<1>4. entries' \in [Entries -> EntryRecord]
    BY <1>1, WithoutFacts DEF clearSpeedRetry
<1>5. ASSUME NEW i \in Entries
      PROVE  /\ entries'[i].targets \subseteq entries[i].targets
             /\ entries'[i].targets # {} => entries'[i].in
             /\ i > seq => entries'[i] = NoEntry
             /\ \A k \in pending' : Timed(entries[i], k) => Timed(entries'[i], k)
    BY <1>1, <1>2, <1>3, WithoutFacts DEF EntriesShape
<1> QED BY <1>2, <1>3, <1>4, <1>5

\* saveAlertState writes every confirmation of a node that was found active.
LEMMA PersistedFacts ==
    ASSUME NEW es \in [Entries -> EntryRecord], NEW ids, Nodes \ touched \subseteq ids,
           \A i \in Entries : es[i].targets # {} => es[i].in
    PROVE  /\ Persisted(es, ids) \in [Entries -> SUBSET Keys]
           /\ \A i \in Entries : \A k \in es[i].targets :
                 k[1] \notin touched => k \in Persisted(es, ids)[i]
           /\ \A i \in Entries : es[i] = NoEntry => Persisted(es, ids)[i] = {}
<1>1. \A i \in Entries : es[i].targets \subseteq Keys
    BY DEF EntryRecord
<1>2. Persisted(es, ids) \in [Entries -> SUBSET Keys]
    BY <1>1 DEF Persisted
<1>3. \A i \in Entries : \A k \in es[i].targets : k[1] \notin touched => k \in Persisted(es, ids)[i]
    BY <1>1, KeyFacts DEF Persisted
<1>4. \A i \in Entries : es[i] = NoEntry => Persisted(es, ids)[i] = {}
    BY NoEntryFacts DEF Persisted
<1> QED BY <1>2, <1>3, <1>4

-----------------------------------------------------------------------------
(* Nothing is forgotten and nothing is left unsaved. *)

\* RetryInv at the start.
LEMMA RetryInit == Init => RetryInv
<1> SUFFICES ASSUME Init PROVE RetryInv
    OBVIOUS
<1> USE DEF Init, SpeedInit
<1>1. RetriesTyped
  <2>1. seq \in 0..MaxEntries /\ retryMu \in 0..seq /\ crashes \in Nat
      BY ConfirmationAssumption
  <2>2. unsaved \in BOOLEAN
      OBVIOUS
  <2>3. saver \in SaverRecord
      BY DEF NoSaver, SaverRecord
  <2> QED BY <2>1, <2>2, <2>3, NoEntryFacts DEF RetriesTyped
<1>2. EntriesShape
    BY NoEntryFacts DEF EntriesShape
<1>3. NoRetrySchedules /\ AllAlive /\ OnDisk /\ SaverSees
    BY NoEntryFacts DEF NoRetrySchedules, AllAlive, OnDisk, SaverSees, NoSaver
<1>4. Calling /\ Handed
    BY RetryFacts DEF Calling, Handed, NoCall
<1> QED BY <1>1, <1>2, <1>3, <1>4 DEF RetryInv

\* A step that leaves the confirmations alone and forgets no run that was asked
\* for them.
LEMMA QuietStep ==
    ASSUME RetryInv, UNCHANGED <<retryVars, saveVars, sw, crashes, project, touched>>,
           caller'[Retry] = caller[Retry],
           orphaned \subseteq orphaned', orphaned' \subseteq Nodes, NoRetrySchedules',
           \A r \in reports : r.pc = "save" => r \in reports',
           \A n \in Nodes : Asked(n) => Asked(n)' \/ n \in orphaned'
    PROVE  RetryInv'
<1> USE DEF retryVars, saveVars
<1>1. RetriesTyped' /\ EntriesShape' /\ Calling' /\ SaverSees'
    BY DEF RetryInv, RetriesTyped, EntriesShape, Calling, SaverSees
<1>2. \A k \in Keys : /\ Asked(k[1]) => Asked(k[1])' \/ k[1] \in orphaned'
                      /\ k[1] \in orphaned => k[1] \in orphaned'
    BY KeyFacts
<1>3. Clearing' = Clearing /\ \A k \in Keys : \A i \in Entries : Timed(entries[i], k)' = Timed(entries[i], k)
    BY DEF Clearing, Timed
<1>4. Handed'
    BY <1>2, <1>3 DEF RetryInv, RetriesTyped, Handed
<1>5. AllAlive'
    BY <1>2, <1>3 DEF RetryInv, RetriesTyped, AllAlive, Alive
<1>6. (Saving \/ OnDisk)'
    BY DEF RetryInv, Saving, OnDisk
<1> QED BY <1>1, <1>4, <1>5, <1>6 DEF RetryInv

\* Requests, cancellations and steps of a run that go on with the same nodes.
LEMMA RunKeepsRetries ==
    ASSUME RetryInv, UNCHANGED <<retryVars, saveVars, sw, crashes, project, touched, orphaned, reports>>,
           caller'[Retry] = caller[Retry],
           run.on => run'.on /\ run'.source = run.source /\ run'.ids = run.ids
    PROVE  RetryInv'
<1>1. NoRetrySchedules'
    BY DEF RetryInv, NoRetrySchedules
<1>2. \A n \in Nodes : Asked(n) => Asked(n)'
    BY DEF Asked
<1>3. orphaned' \subseteq Nodes
    BY DEF RetryInv, RetriesTyped
<1> QED BY <1>1, <1>2, <1>3, QuietStep

\* TakeGate: the run that the confirmation has started answers for it.
LEMMA TakeGateKeepsRetries ==
    ASSUME TestInv, RetryInv, NEW c \in Callers, CallProceeds(c)
    PROVE  RetryInv'
<1> USE DEF CallProceeds, Manage, TakeGate
<1>1. PICK sel \in Selections(c, caller[c].ids) : Refuse(c, sel) \/ Start(c, sel)
    OBVIOUS
<1>2. caller \in [Callers -> CallRecord]
    BY DEF TestInv, CallsTyped
<1>3. run.on => run'.on /\ run'.source = run.source /\ run'.ids = run.ids
    BY <1>1 DEF Refuse, Start, Answers
<1>4. CASE c # Retry
  <2>1. caller'[Retry] = caller[Retry]
      BY <1>1, <1>2, <1>4, RetryFacts DEF Refuse, Start
  <2> QED BY <1>3, <2>1, RunKeepsRetries DEF modeVars, switchVars
<1>5. CASE c = Retry
  <2>1. /\ caller'[Retry].pc = "returned" /\ caller'[Retry].ids = caller[Retry].ids
        /\ caller[Retry].pc = "gate"
        /\ Refuse(c, sel) => caller'[Retry].out # "started"
    <3>1. caller[Retry] \in CallRecord /\ caller[Retry].pc = "gate"
        BY <1>2, <1>5, RetryFacts
    <3>2. \A out : /\ Answered(Retry, out).pc = "returned" /\ Answered(Retry, out).out = out
                   /\ Answered(Retry, out).ids = caller[Retry].ids
        BY <3>1 DEF Answered, CallRecord
    <3>3. ASSUME NEW out, caller' = [caller EXCEPT ![Retry] = Answered(Retry, out)]
          PROVE  caller'[Retry] = Answered(Retry, out)
        BY <1>2, <3>3, RetryFacts
    <3>4. PICK out : /\ caller' = [caller EXCEPT ![Retry] = Answered(Retry, out)]
                     /\ Refuse(c, sel) => out # "started"
        BY <1>1, <1>5 DEF Refuse, Start
    <3> QED BY <3>1, <3>2, <3>3, <3>4
  <2>2. RetriesTyped' /\ EntriesShape' /\ Calling' /\ NoRetrySchedules' /\ SaverSees'
      BY <2>1 DEF RetryInv, RetriesTyped, EntriesShape, Calling, NoRetrySchedules, SaverSees, retryVars,
            saveVars, modeVars
  <2>3. \A n \in Nodes : Asked(n) => Asked(n)'
      BY <1>3 DEF Asked, modeVars
  <2>4. AllAlive'
    <3>1. Clearing' = Clearing /\ \A k \in Keys : \A i \in Entries : Timed(entries[i], k)' = Timed(entries[i], k)
        BY DEF Clearing, Timed, retryVars, switchVars
    <3> QED BY <2>3, <3>1, KeyFacts DEF RetryInv, RetriesTyped, AllAlive, Alive, retryVars
  <2>5. (Saving \/ OnDisk)'
      BY DEF RetryInv, Saving, OnDisk, retryVars, saveVars, modeVars
  <2>6. Handed'
    <3>1. CASE Refuse(c, sel)
      <4>1. caller'[Retry].out # "started"
          BY <2>1, <3>1
      <4> QED BY <4>1 DEF Handed
    <3>2. CASE Start(c, sel)
      <4>1. ~project'
          BY <1>5, <3>2, RetryFacts DEF Start, Answers, modeVars
      <4>2. run'.on /\ run'.source = Retry /\ run'.ids = NodesOf(tried)
          BY <1>5, <2>1, <3>2 DEF Start, RetryInv, Calling
      <4>3. \A k \in tried' : Asked(k[1])'
          BY <4>2 DEF Asked, NodesOf, retryVars
      <4> QED BY <4>1, <4>3 DEF Handed
    <3> QED BY <1>1, <3>1, <3>2
  <2> QED BY <2>2, <2>4, <2>5, <2>6 DEF RetryInv
<1> QED BY <1>4, <1>5

\* The end of a run: its report, or its cancellation, is on record.
LEMMA EndRunKeepsRetries ==
    ASSUME TestInv, RetryInv, RunGoesOn, EndRun
    PROVE  RetryInv'
<1>1. run \in RunRecord /\ run.on /\ ~run'.on /\ UNCHANGED project /\ (run.source = Retry => ~project)
    BY NoRunFacts, RetryFacts DEF EndRun, TestInv, ReadersCounted, RunInMode, modeVars
<1>2. Orphans = IF run.cancelled /\ run.source = Retry THEN run.ids ELSE {}
    BY <1>1 DEF Orphans
<1>3. orphaned' = orphaned \cup Orphans /\ orphaned' \subseteq Nodes
    BY <1>1, <1>2 DEF RunGoesOn, RetryInv, RetriesTyped, RunRecord
<1> DEFINE rep == [no |-> FreshReport(run.source), source |-> run.source, ids |-> run.ids,
                   res |-> run.value, probes |-> run.probes, cancelled |-> run.cancelled,
                   pc |-> "persist"]
<1>4. reports' = reports \cup {rep}
    BY DEF EndRun
<1>5. /\ rep.source = run.source /\ rep.ids = run.ids /\ rep.cancelled = run.cancelled
      /\ rep.pc = "persist"
    OBVIOUS
<1> HIDE DEF rep
<1>6. NoRetrySchedules'
    BY <1>4, <1>5 DEF RetryInv, NoRetrySchedules
<1>7. \A n \in Nodes : Asked(n) => Asked(n)' \/ n \in orphaned'
    BY <1>1, <1>2, <1>3, <1>4, <1>5 DEF Asked
<1>8. \A r \in reports : r \in reports'
    BY <1>4
<1> QED BY <1>3, <1>6, <1>7, <1>8, QuietStep DEF RunGoesOn, EndRun, modeVars, switchVars

\* What becomes of a report that keeps what was asked for it.
LEMMA ReportStep ==
    ASSUME RetryInv, NEW r \in reports,
           UNCHANGED <<retryVars, saveVars, sw, crashes, project, touched, orphaned, run>>,
           caller'[Retry] = caller[Retry], r.pc # "save",
           \/ (r.source = Retry => r.cancelled \/ (project /\ r.pc # "clear")) /\ reports' = reports \ {r}
           \/ \E s : /\ Moved(r, s) /\ reports' = (reports \ {r}) \cup {s}
                     /\ r.source = Retry => s.pc \in {"report", "begin", "clear"} /\ r.pc # "clear"
    PROVE  RetryInv'
<1>1. NoRetrySchedules'
    BY DEF RetryInv, NoRetrySchedules, Moved
<1>2. \A n \in Nodes : Asked(n) => Asked(n)'
    BY DEF Asked, Moved
<1>3. \A q \in reports : q.pc = "save" => q \in reports'
    OBVIOUS
<1>4. orphaned' = orphaned /\ orphaned \subseteq Nodes
    BY DEF RetryInv, RetriesTyped
<1> QED BY <1>1, <1>2, <1>3, <1>4, QuietStep

\* A step of the run.
LEMMA RunStepKeepsRetries ==
    ASSUME TestInv, RetryInv, RunGoesOn
    PROVE  RetryInv'
<1>1. CASE EndRun
    BY <1>1, EndRunKeepsRetries
<1>3. ASSUME NEW r \in reports, persistResults(r) \/ ReportRun(r)
      PROVE  RetryInv'
  <2>1. /\ UNCHANGED <<retryVars, saveVars, switchVars, crashes, modeVars, run, caller>>
        /\ orphaned' = orphaned \cup Orphans /\ r.pc # "save" /\ r.pc # "clear"
      BY <1>3 DEF persistResults, ReportRun, RunGoesOn
  <2>2. orphaned' = orphaned
      BY <2>1 DEF Orphans
  <2>3. \/ r.cancelled /\ reports' = reports \ {r}
        \/ \E s : Moved(r, s) /\ s.pc \in {"report", "begin"} /\ reports' = (reports \ {r}) \cup {s}
      BY <1>3, persistResultsKeepsTest, ReportRunKeepsTest
  <2> QED BY <2>1, <2>2, <2>3, ReportStep DEF modeVars, switchVars
<1>2. ASSUME NEW n \in Nodes, \/ StartPrimary(n) \/ EndPrimary(n) \/ ReadPrimary(n)
                              \/ StartReserve(n) \/ testFallbackForPrimary(n) \/ ReadResult(n)
      PROVE  RetryInv'
  <2>1. run \in RunRecord
      BY DEF TestInv, ReadersCounted
  <2>2. run'.on = run.on /\ run'.source = run.source /\ run'.ids = run.ids
      BY <1>2, <2>1 DEF StartPrimary, EndPrimary, ReadPrimary, StartReserve, testFallbackForPrimary,
            ReadResult, recordResult, RunRecord
  <2>3. UNCHANGED <<modeVars, caller, reports, retryVars, saveVars, sw, crashes>> /\ orphaned' = orphaned \cup Orphans
      BY <1>2 DEF StartPrimary, EndPrimary, ReadPrimary, StartReserve, testFallbackForPrimary,
            ReadResult, RunGoesOn, switchVars
  <2>4. orphaned' = orphaned
      BY <2>2, <2>3 DEF Orphans
  <2> QED BY <2>2, <2>3, <2>4, RunKeepsRetries DEF modeVars
<1> QED BY <1>1, <1>2, <1>3 DEF RunGoesOn, RunStep

\* clearSpeedRetry, with the report, the goroutine or the switch that calls it.
LEMMA ClearStep ==
    ASSUME TestInv, RetryInv, NEW ids, clearSpeedRetry(ids),
           UNCHANGED <<seq, retryMu, tried, caller, crashes, modeVars, saveVars>>,
           giveUp' \subseteq Nodes, \A n \in giveUp : n \notin ids => n \in giveUp',
           Clearing => Clearing', NoRetrySchedules',
           \A n \in Nodes : n \notin ids /\ Asked(n) => Asked(n)',
           unsaved' \in BOOLEAN, unsaved => unsaved',
           \A r \in reports : r.pc = "save" => r \in reports'
    PROVE  RetryInv'
<1> USE DEF saveVars
<1>1. /\ pending' \subseteq Keys /\ orphaned' \subseteq Nodes /\ entries' \in [Entries -> EntryRecord]
      /\ \A k \in pending' : k \in pending /\ k[1] \notin ids
      /\ \A n \in orphaned : n \notin ids => n \in orphaned'
      /\ \A i \in Entries : /\ entries'[i].targets \subseteq entries[i].targets
                            /\ entries'[i].targets # {} => entries'[i].in
                            /\ i > seq => entries'[i] = NoEntry
                            /\ \A k \in pending' : Timed(entries[i], k) => Timed(entries'[i], k)
    BY ClearFacts DEF RetryInv
<1>2. SaverSees'
    BY DEF RetryInv, SaverSees, modeVars
<1>3. RetriesTyped'
    BY <1>1, <1>2 DEF RetryInv, RetriesTyped
<1>4. EntriesShape'
    BY <1>1, <1>2 DEF RetryInv, EntriesShape
<1>5. Calling' /\ Handed' /\ retryMu = 0
    BY DEF RetryInv, Calling, Handed, clearSpeedRetry
<1>6. AllAlive'
  <2> SUFFICES ASSUME NEW k \in pending' PROVE Alive(k)'
      BY DEF AllAlive
  <2>1. k \in pending /\ k[1] \notin ids /\ k[1] \in Nodes /\ Alive(k)
      BY <1>1, KeyFacts DEF RetryInv, AllAlive
  <2>2. ASSUME NEW i \in Entries, Timed(entries[i], k)
        PROVE  Alive(k)'
      BY <1>1, <2>2 DEF Alive
  <2>3. CASE Asked(k[1]) \/ Clearing
      BY <2>1, <2>3 DEF Alive
  <2>4. CASE k \in tried \/ k[1] \in giveUp \/ k[1] \in orphaned
      BY <1>1, <2>1, <2>4 DEF Alive
  <2> QED BY <2>1, <2>2, <2>3, <2>4 DEF Alive
<1>7. (Saving \/ OnDisk)'
  <2>1. Saving => Saving'
      BY DEF Saving
  <2>2. OnDisk => OnDisk'
      BY <1>1 DEF OnDisk, modeVars
  <2> QED BY <2>1, <2>2 DEF RetryInv
<1> QED BY <1>2, <1>3, <1>4, <1>5, <1>6, <1>7, NoRetrySchedules' DEF RetryInv

\* NotifyBegin: the report of a confirmation goes on to settle it.
LEMMA NotifyBeginKeepsRetries ==
    ASSUME TestInv, RetryInv, NEW r \in reports, NotifyBegin(r)
    PROVE  RetryInv'
<1>1. Record(r) /\ r.pc = "begin"
    BY DEF NotifyBegin, TestInv, ReportsTyped
<1>2. \/ (r.source = Retry => project) /\ reports' = reports \ {r}
      \/ \E s : /\ Moved(r, s) /\ (r.source = Retry => s.pc = "clear")
                /\ reports' = (reports \ {r}) \cup {s}
    BY <1>1, NotifyMoves DEF Notify
<1> QED BY <1>1, <1>2, ReportStep DEF NotifyBegin, modeVars, switchVars

\* NotifyClear settles what the report is about.
LEMMA NotifyClearKeepsRetries ==
    ASSUME TestInv, RetryInv, NEW r \in reports, NotifyClear(r)
    PROVE  RetryInv'
<1>1. Record(r) /\ r.pc = "clear" /\ NoRetrySchedules
    BY DEF NotifyClear, TestInv, ReportsTyped, RetryInv
<1>2. PICK ids : /\ clearSpeedRetry(ids) /\ unsaved' = (unsaved \/ r.source = Retry \/ Affects(ids))
                 /\ r.source = Retry => r.ids \subseteq ids
    BY DEF NotifyClear, Retry
<1>3. unsaved' \in BOOLEAN /\ (unsaved => unsaved')
    BY <1>2
<1>4. \/ reports' = reports \ {r}
      \/ /\ r.source # Retry
         /\ \E s : Moved(r, s) /\ reports' = (reports \ {r}) \cup {s}
  <2> DEFINE s == [r EXCEPT !.pc = "schedule"]
  <2>1. Moved(r, s)
      BY <1>1, ReportMoves
  <2>2. IF r.source = Retry THEN reports' = reports \ {r} ELSE reports' = (reports \ {r}) \cup {s}
      BY DEF NotifyClear, Advance
  <2> HIDE DEF s
  <2> QED BY <2>1, <2>2
<1>5. NoRetrySchedules'
    BY <1>1, <1>4 DEF NoRetrySchedules, Moved
<1>6. \A n \in Nodes : n \notin ids /\ Asked(n) => Asked(n)'
    BY <1>1, <1>2, <1>4 DEF Asked, NotifyClear, modeVars
<1>7. \A q \in reports : q.pc = "save" => q \in reports'
    BY <1>1, <1>4
<1>8. Clearing' = Clearing /\ giveUp' = giveUp /\ giveUp \subseteq Nodes
    BY DEF Clearing, NotifyClear, switchVars, RetryInv, RetriesTyped
<1> QED BY <1>2, <1>3, <1>5, <1>6, <1>7, <1>8, ClearStep DEF NotifyClear

\* SaveBegins: the nodes that were never switched are found active.
LEMMA SaveBeginsKeepsRetries ==
    ASSUME TestInv, RetryInv, SaveBegins
    PROVE  RetryInv'
<1> USE DEF SaveBegins
<1>1. /\ UNCHANGED <<modeVars, caller, run, pending, entries, seq, retryMu, tried, giveUp, disk, orphaned,
                      crashes>>
      /\ unsaved' \in BOOLEAN /\ RetriesTyped /\ NoRetrySchedules
    BY DEF RetryInv, RetriesTyped
<1>2. UNCHANGED reports \/ \E r \in reports : r.pc = "save" /\ reports' = reports \ {r}
    OBVIOUS
<1>3. Clearing' = Clearing
    BY DEF Clearing, switchVars, TestInv, SwitchShape, SwitchRecord
<1>4. saver'.on /\ saver' \in SaverRecord /\ Nodes \ touched \subseteq saver'.active
    BY DEF SaverRecord, Watched, AvailabilityAccounted, MonitoringEnabled, TestInv, TouchedCovers
<1> HIDE DEF SaveBegins
<1>5. RetriesTyped' /\ EntriesShape' /\ NoRetrySchedules' /\ Calling' /\ SaverSees' /\ Saving'
    BY <1>1, <1>2, <1>4 DEF RetryInv, RetriesTyped, EntriesShape, NoRetrySchedules, Calling, SaverSees,
          Saving, modeVars
<1>6. \A n \in Nodes : Asked(n) => Asked(n)'
    BY <1>1, <1>2 DEF Asked, NoRetrySchedules, modeVars
<1>7. \A k \in Keys : \A i \in Entries : Timed(entries[i], k)' = Timed(entries[i], k)
    BY <1>1 DEF Timed
<1>8. Handed' /\ AllAlive'
    BY <1>1, <1>3, <1>6, <1>7, KeyFacts DEF RetryInv, RetriesTyped, Handed, AllAlive, Alive, modeVars
<1> QED BY <1>5, <1>8 DEF RetryInv

\* SaveEnds: what waits is on disk.
LEMMA SaveEndsKeepsRetries ==
    ASSUME TestInv, RetryInv, SaveEnds
    PROVE  RetryInv'
<1> USE DEF SaveEnds, retryVars
<1>1. /\ UNCHANGED <<modeVars, caller, run, reports, pending, entries, seq, retryMu, tried, giveUp, unsaved,
                      orphaned, crashes>>
      /\ disk' = Persisted(entries, saver.active) /\ ~saver'.on /\ saver' \in SaverRecord
    BY DEF NoSaver, SaverRecord
<1>2. Clearing' = Clearing
    BY DEF Clearing, Release, NoSwitch
<1>3. /\ Persisted(entries, saver.active) \in [Entries -> SUBSET Keys]
      /\ \A i \in Entries : \A k \in entries[i].targets :
            k[1] \notin touched => k \in Persisted(entries, saver.active)[i]
      /\ \A i \in Entries : entries[i] = NoEntry => Persisted(entries, saver.active)[i] = {}
    BY PersistedFacts DEF RetryInv, RetriesTyped, EntriesShape, SaverSees
<1> HIDE DEF SaveEnds
<1>4. RetriesTyped' /\ EntriesShape' /\ NoRetrySchedules' /\ Calling' /\ SaverSees'
    BY <1>1, <1>3 DEF RetryInv, RetriesTyped, EntriesShape, NoRetrySchedules, Calling, SaverSees
<1>5. OnDisk'
    BY <1>1, <1>3 DEF OnDisk, modeVars
<1>6. \A n \in Nodes : Asked(n) => Asked(n)'
    BY <1>1 DEF Asked, modeVars
<1>7. \A k \in Keys : \A i \in Entries : Timed(entries[i], k)' = Timed(entries[i], k)
    BY <1>1 DEF Timed
<1>8. Handed' /\ AllAlive'
    BY <1>1, <1>2, <1>6, <1>7, KeyFacts DEF RetryInv, RetriesTyped, Handed, AllAlive, Alive, modeVars
<1> QED BY <1>4, <1>5, <1>8 DEF RetryInv

\* A new entry takes the next place of the table.
LEMMA ScheduledFacts ==
    ASSUME RetriesTyped, seq < MaxEntries, NEW es \in [Entries -> EntryRecord], NEW keys \in SUBSET Keys
    PROVE  /\ seq + 1 \in Entries /\ seq + 1 \in 0..MaxEntries
           /\ Scheduled(es, keys) \in [Entries -> EntryRecord]
           /\ Scheduled(es, keys)[seq + 1].targets = keys /\ Scheduled(es, keys)[seq + 1].armed = keys
           /\ Scheduled(es, keys)[seq + 1].timer = "armed" /\ Scheduled(es, keys)[seq + 1].in
           /\ \A i \in Entries : i # seq + 1 => Scheduled(es, keys)[i] = es[i]
<1>1. seq \in 0..MaxEntries /\ MaxEntries \in Nat
    BY ConfirmationAssumption DEF RetriesTyped
<1>2. seq + 1 \in Entries /\ seq + 1 \in 0..MaxEntries
    BY <1>1 DEF Entries
<1> DEFINE new == [in |-> TRUE, targets |-> keys, timer |-> "armed", armed |-> keys]
<1>3. new \in EntryRecord /\ new.targets = keys /\ new.armed = keys /\ new.timer = "armed" /\ new.in
    BY DEF EntryRecord
<1>4. Scheduled(es, keys) = [es EXCEPT ![seq + 1] = new]
    BY DEF Scheduled
<1> HIDE DEF new
<1> QED BY <1>2, <1>3, <1>4

\* NotifySchedule: a timer is armed for what begins to wait, and its report is
\* about to save it.
LEMMA NotifyScheduleKeepsRetries ==
    ASSUME TestInv, RetryInv, NEW r \in reports, NotifySchedule(r)
    PROVE  RetryInv'
<1> USE DEF NotifySchedule
<1> DEFINE keys == speedConfirmationRetryTargets(r.res)
           new == keys \ pending
<1>1. Record(r) /\ r.pc = "schedule" /\ NoRetrySchedules /\ r.source # Retry
    BY DEF TestInv, ReportsTyped, RetryInv, NoRetrySchedules
<1>2. keys \in SUBSET Keys
    BY DEF speedConfirmationRetryTargets, Keys, Reasons
<1>3. Clearing' = Clearing /\ tried' = tried /\ giveUp' = giveUp /\ orphaned' = orphaned /\ project' = project
    BY DEF Clearing, modeVars, switchVars
<1>4. CASE keys \subseteq pending
  <2>1. /\ reports' = reports \ {r}
        /\ UNCHANGED <<retryVars, saveVars, sw, crashes, project, touched, orphaned, run, caller>>
      BY <1>4 DEF retryVars, modeVars, switchVars
  <2> QED BY <1>1, <2>1, ReportStep
<1>5. CASE ~(keys \subseteq pending)
  <2> DEFINE s == [r EXCEPT !.pc = "save"]
  <2>1. Moved(r, s) /\ s.pc = "save"
      BY <1>1, ReportMoves
  <2>2. /\ seq < MaxEntries /\ seq' = seq + 1 /\ pending' = pending \cup keys
        /\ entries' = Scheduled(entries, new)
        /\ reports' = (reports \ {r}) \cup {s}
      BY <1>5 DEF Advance
  <2> HIDE DEF s, keys
  <2>3. RetriesTyped /\ new \in SUBSET Keys /\ entries \in [Entries -> EntryRecord]
      BY <1>2 DEF RetryInv, RetriesTyped
  <2> HIDE DEF new
  <2>4. /\ seq + 1 \in Entries /\ seq + 1 \in 0..MaxEntries
        /\ entries' \in [Entries -> EntryRecord]
        /\ entries'[seq + 1].targets = new /\ entries'[seq + 1].armed = new
        /\ entries'[seq + 1].timer = "armed" /\ entries'[seq + 1].in
        /\ \A i \in Entries : i # seq + 1 => entries'[i] = entries[i]
      BY <2>2, <2>3, ScheduledFacts
  <2>5. RetriesTyped' /\ SaverSees'
      BY <1>2, <2>2, <2>3, <2>4 DEF RetryInv, RetriesTyped, SaverSees, saveVars, modeVars
  <2>6. EntriesShape'
      BY <2>2, <2>3, <2>4 DEF RetryInv, EntriesShape, RetriesTyped, Entries, saveVars
  <2>7. NoRetrySchedules'
      BY <1>1, <2>1, <2>2 DEF NoRetrySchedules, Moved
  <2>8. Calling' /\ Handed'
      BY DEF RetryInv, Calling, Handed
  <2>9. Saving'
      BY <2>1, <2>2 DEF Saving
  <2>10. \A n \in Nodes : Asked(n) => Asked(n)'
      BY <1>1, <1>3, <2>2 DEF Asked
  <2>11. \A k \in new : Timed(entries'[seq + 1], k)
      BY <2>4 DEF Timed
  <2>12. entries[seq + 1] = NoEntry
      BY <2>3, <2>4 DEF RetryInv, EntriesShape, RetriesTyped, Entries
  <2>13. \A k \in pending, i \in Entries : Timed(entries[i], k) => Timed(entries'[i], k)
      BY <2>4, <2>12, NoEntryFacts DEF Timed
  <2>14. \A k \in new : Alive(k)'
      BY <2>4, <2>11 DEF Alive
  <2>15. \A k \in pending : Alive(k)'
      BY <1>3, <2>3, <2>10, <2>13, KeyFacts DEF RetryInv, RetriesTyped, AllAlive, Alive
  <2>16. AllAlive'
      BY <2>2, <2>14, <2>15 DEF AllAlive, new
  <2> QED BY <2>5, <2>6, <2>7, <2>8, <2>9, <2>16 DEF RetryInv
<1> QED BY <1>4, <1>5

\* A timer fires.
LEMMA TimerFiresKeepsRetries ==
    ASSUME RetryInv, NEW i \in Entries, TimerFires(i)
    PROVE  RetryInv'
<1> USE DEF TimerFires, saveVars
<1>1. entries \in [Entries -> EntryRecord]
    BY DEF RetryInv, RetriesTyped
<1>2. /\ entries' \in [Entries -> EntryRecord]
      /\ \A j \in Entries : /\ entries'[j].targets = entries[j].targets /\ entries'[j].in = entries[j].in
                            /\ entries'[j].armed = entries[j].armed
                            /\ j # i => entries'[j] = entries[j]
      /\ entries'[i].timer = "fired" /\ entries[i].timer = "armed"
    BY <1>1 DEF EntryRecord
<1>3. entries[i] # NoEntry
    BY <1>2, NoEntryFacts
<1>4. RetriesTyped'
    BY <1>2 DEF RetryInv, RetriesTyped
<1>5. EntriesShape'
    BY <1>2, <1>3 DEF RetryInv, EntriesShape
<1>6. NoRetrySchedules' /\ SaverSees' /\ (Saving \/ OnDisk)'
    BY <1>2 DEF RetryInv, NoRetrySchedules, SaverSees, Saving, OnDisk, speedVars, modeVars
<1>7. Clearing' = Clearing /\ \A n \in Nodes : Asked(n) => Asked(n)'
    BY DEF Clearing, Asked, speedVars, modeVars, switchVars
<1>8. Calling'
    BY <1>2 DEF RetryInv, Calling, RetriesTyped, Entries, speedVars
<1>9. Handed'
    BY <1>7, KeyFacts DEF RetryInv, Handed, RetriesTyped, speedVars, modeVars
<1>10. \A k \in Keys, j \in Entries : Timed(entries[j], k) => Timed(entries'[j], k)
    BY <1>2 DEF Timed
<1>11. AllAlive'
    BY <1>7, <1>10, KeyFacts DEF RetryInv, RetriesTyped, AllAlive, Alive
<1> QED BY <1>4, <1>5, <1>6, <1>8, <1>9, <1>11 DEF RetryInv

\* runSpeedRetry: the goroutine takes over what its timer was armed for.
LEMMA runSpeedRetryKeepsRetries ==
    ASSUME TestInv, RetryInv, NEW i \in Entries, runSpeedRetry(i)
    PROVE  RetryInv'
<1> USE DEF runSpeedRetry, saveVars
<1> DEFINE keys == entries[i].armed \cap pending
<1>1. /\ entries \in [Entries -> EntryRecord] /\ RetriesTyped /\ EntriesShape
      /\ retryMu = 0 /\ tried = {} /\ entries[i].timer = "fired"
    BY DEF RetryInv, RetriesTyped, Calling
<1>2. NoRetrySchedules' /\ SaverSees'
    BY DEF RetryInv, NoRetrySchedules, SaverSees, modeVars
<1>3. Clearing' = Clearing /\ \A n \in Nodes : Asked(n) => Asked(n)'
    BY DEF Clearing, Asked, modeVars, switchVars
<1>4. i \in Nat /\ i # 0 /\ seq \in Nat /\ i <= seq
    BY <1>1, NoEntryFacts DEF EntriesShape, RetriesTyped, Entries
<1>5. CASE keys = {}
  <2>1. entries' = [entries EXCEPT ![i] = NoEntry] /\ unsaved' = TRUE /\ UNCHANGED <<caller, retryMu, tried>>
      BY <1>5
  <2>2. RetriesTyped'
      BY <1>1, <2>1, NoEntryFacts DEF RetriesTyped
  <2>3. EntriesShape'
      BY <1>1, <2>1, NoEntryFacts DEF EntriesShape
  <2>4. Calling' /\ Handed' /\ Saving'
      BY <1>1, <2>1 DEF RetryInv, Calling, Handed, Saving
  <2>5. \A k \in pending, j \in Entries : Timed(entries[j], k) => Timed(entries'[j], k)
      BY <1>1, <1>5, <2>1 DEF Timed
  <2>6. AllAlive'
      BY <1>1, <1>3, <2>1, <2>5, KeyFacts DEF RetryInv, RetriesTyped, AllAlive, Alive
  <2> QED BY <1>2, <2>2, <2>3, <2>4, <2>6 DEF RetryInv
<1>6. CASE keys # {}
  <2>1. /\ entries' = [entries EXCEPT ![i].timer = "none", ![i].armed = {}] /\ retryMu' = i /\ tried' = keys
        /\ caller' = [caller EXCEPT ![Retry] = [pc |-> "gate", ids |-> NodesOf(keys), out |-> "none"]]
        /\ UNCHANGED unsaved
      BY <1>6 DEF BeginCall
  <2>2. /\ entries' \in [Entries -> EntryRecord] /\ entries'[i].armed = {}
        /\ \A j \in Entries : /\ entries'[j].targets = entries[j].targets /\ entries'[j].in = entries[j].in
                              /\ j # i => entries'[j] = entries[j]
      BY <1>1, <2>1 DEF EntryRecord
  <2>3. caller'[Retry] = [pc |-> "gate", ids |-> NodesOf(keys), out |-> "none"]
      BY <2>1, RetryFacts DEF TestInv, CallsTyped
  <2>4. keys \subseteq Keys
      BY <1>1 DEF RetriesTyped
  <2>5. RetriesTyped'
      BY <1>1, <1>4, <2>1, <2>2, <2>4 DEF RetriesTyped
  <2>6. EntriesShape'
      BY <1>1, <1>4, <2>2 DEF EntriesShape
  <2>7. Calling'
    <3>1. caller'[Retry].pc = "gate" /\ caller'[Retry].ids = NodesOf(keys)
        BY <2>3
    <3>2. retryMu' # 0 /\ entries'[retryMu'].armed = {} /\ NodesOf(tried)' = NodesOf(keys)
        BY <1>4, <2>1, <2>2 DEF NodesOf
    <3> QED BY <3>1, <3>2 DEF Calling
  <2>8. Handed' /\ (Saving \/ OnDisk)'
      BY <2>1, <2>2, <2>3 DEF Handed, RetryInv, Saving, OnDisk, modeVars
  <2>9. \A k \in pending, j \in Entries : Timed(entries[j], k) => Timed(entries'[j], k) \/ k \in tried'
      BY <2>1, <2>2 DEF Timed
  <2>10. AllAlive'
      BY <1>1, <1>3, <2>9, KeyFacts DEF RetryInv, RetriesTyped, AllAlive, Alive
  <2> QED BY <1>2, <2>5, <2>6, <2>7, <2>8, <2>10 DEF RetryInv
<1> QED BY <1>5, <1>6

\* RetryReturned: a run answers for what was tried, a timer, or the node is
\* given up.
LEMMA RetryReturnedKeepsRetries ==
    ASSUME TestInv, RetryInv, RetryReturned
    PROVE  RetryInv'
<1> USE DEF RetryReturned, saveVars
<1>1. /\ entries \in [Entries -> EntryRecord] /\ RetriesTyped /\ EntriesShape
      /\ retryMu # 0 /\ retryMu \in Entries /\ retryMu \in 1..seq /\ entries[retryMu].armed = {}
      /\ caller[Retry].pc = "returned" /\ caller[Retry].ids = NodesOf(tried)
    BY ConfirmationAssumption DEF RetryInv, RetriesTyped, Calling, Entries
<1>2. /\ NoRetrySchedules' /\ SaverSees' /\ Clearing' = Clearing /\ retryMu' = 0 /\ tried' = {}
      /\ \A n \in Nodes : Asked(n) => Asked(n)'
    BY DEF RetryInv, NoRetrySchedules, SaverSees, Clearing, Asked, modeVars, switchVars
<1>3. caller'[Retry] = NoCall
    BY RetryFacts DEF TestInv, CallsTyped
<1>4. Handed' /\ Calling'
    BY <1>2, <1>3 DEF Handed, Calling, NoCall
<1>5. \A k \in Keys : k \in tried => k[1] \in NodesOf(tried)
    BY DEF NodesOf
<1>6. NodesOf(tried) \subseteq Nodes
    BY <1>1, KeyFacts DEF NodesOf, RetriesTyped
<1>7. ASSUME UNCHANGED <<entries, seq, unsaved>>, giveUp \subseteq giveUp', giveUp' \subseteq Nodes,
             \A k \in tried : k[1] \in giveUp' \/ Asked(k[1]) \/ Clearing \/ k[1] \in orphaned
      PROVE  RetryInv'
  <2>1. RetriesTyped' /\ EntriesShape' /\ (Saving \/ OnDisk)'
      BY <1>1, <1>2, <1>7 DEF RetryInv, RetriesTyped, EntriesShape, Saving, OnDisk, modeVars
  <2>2. \A k \in Keys : \A j \in Entries : Timed(entries[j], k)' = Timed(entries[j], k)
      BY <1>7 DEF Timed
  <2>3. AllAlive'
      BY <1>1, <1>2, <1>7, <2>2, KeyFacts DEF RetryInv, RetriesTyped, AllAlive, Alive
  <2> QED BY <1>2, <1>4, <2>1, <2>3 DEF RetryInv
<1>8. CASE caller[Retry].out = "started" /\ UNCHANGED <<entries, seq, giveUp, unsaved>>
  <2>1. \A k \in tried : Asked(k[1]) \/ Clearing \/ k[1] \in orphaned
      BY <1>1, <1>8 DEF RetryInv, Handed
  <2> QED BY <1>1, <1>7, <1>8, <2>1 DEF RetriesTyped
<1>9. CASE giveUp' = giveUp \cup NodesOf(tried) /\ UNCHANGED <<entries, seq, unsaved>>
  <2>1. \A k \in tried : k[1] \in giveUp'
      BY <1>9 DEF NodesOf
  <2>2. giveUp' \subseteq Nodes
      BY <1>1, <1>6, <1>9 DEF RetriesTyped
  <2> QED BY <1>7, <1>9, <2>1, <2>2
<1>10. CASE /\ seq < MaxEntries /\ seq' = seq + 1
            /\ entries' = Scheduled([entries EXCEPT ![retryMu] = NoEntry], tried)
            /\ unsaved' = TRUE /\ UNCHANGED giveUp
  <2> DEFINE es == [entries EXCEPT ![retryMu] = NoEntry]
  <2>1. /\ es \in [Entries -> EntryRecord] /\ tried \in SUBSET Keys
        /\ \A j \in Entries : es[j] = IF j = retryMu THEN NoEntry ELSE entries[j]
      BY <1>1, NoEntryFacts DEF RetriesTyped
  <2> HIDE DEF es
  <2>2. /\ seq + 1 \in Entries /\ seq + 1 \in 0..MaxEntries
        /\ entries' \in [Entries -> EntryRecord]
        /\ entries'[seq + 1].targets = tried /\ entries'[seq + 1].armed = tried
        /\ entries'[seq + 1].timer = "armed" /\ entries'[seq + 1].in
        /\ \A j \in Entries : j # seq + 1 => entries'[j] = es[j]
    <3>1. entries' = Scheduled(es, tried)
        BY <1>10 DEF es
    <3>2. RetriesTyped /\ seq < MaxEntries
        BY <1>1, <1>10
    <3> HIDE DEF RetryReturned
    <3>3. /\ seq + 1 \in Entries /\ seq + 1 \in 0..MaxEntries
          /\ Scheduled(es, tried) \in [Entries -> EntryRecord]
          /\ Scheduled(es, tried)[seq + 1].targets = tried /\ Scheduled(es, tried)[seq + 1].armed = tried
          /\ Scheduled(es, tried)[seq + 1].timer = "armed" /\ Scheduled(es, tried)[seq + 1].in
          /\ \A i \in Entries : i # seq + 1 => Scheduled(es, tried)[i] = es[i]
        BY <2>1, <3>2, ScheduledFacts
    <3> QED BY <3>1, <3>3
  <2>3. seq \in Nat /\ seq' = seq + 1 /\ disk' = disk
      BY <1>1, <1>10 DEF RetriesTyped
  <2>4. RetriesTyped'
    <3>1. seq' \in 0..MaxEntries /\ retryMu' \in 0..seq'
        BY <1>2, <2>2, <2>3
    <3>2. unsaved' \in BOOLEAN /\ tried' \subseteq Keys /\ giveUp' \subseteq Nodes
        BY <1>1, <1>2, <1>10 DEF RetriesTyped
    <3> QED BY <1>1, <2>2, <3>1, <3>2 DEF RetriesTyped
  <2>5. EntriesShape'
    <3> SUFFICES ASSUME NEW j \in Entries
                 PROVE  /\ entries'[j].targets # {} => entries'[j].in
                        /\ j > seq + 1 => entries'[j] = NoEntry /\ disk[j] = {}
        BY <2>3 DEF EntriesShape
    <3>1. CASE j = seq + 1
        BY <2>2, <2>3, <3>1
    <3>2. CASE j # seq + 1
      <4>1. entries'[j] = IF j = retryMu THEN NoEntry ELSE entries[j]
          BY <2>1, <2>2, <3>2
      <4>2. j > seq + 1 => j > seq
          BY <2>3 DEF Entries
      <4> QED BY <1>1, <4>1, <4>2, NoEntryFacts DEF EntriesShape
    <3> QED BY <3>1, <3>2
  <2>6. Saving'
      BY <1>10 DEF Saving
  <2>7. entries[seq + 1].armed = {}
      BY <1>1, <2>2, <2>3, NoEntryFacts DEF EntriesShape
  <2>8. \A k \in Keys, j \in Entries : Timed(entries[j], k) => Timed(entries'[j], k)
      BY <1>1, <2>1, <2>2, <2>7 DEF Timed
  <2>9. \A k \in tried : Timed(entries'[seq + 1], k)
      BY <2>2 DEF Timed
  <2>10. AllAlive'
      BY <1>1, <1>2, <1>10, <2>2, <2>8, <2>9, KeyFacts DEF RetryInv, RetriesTyped, AllAlive, Alive
  <2> QED BY <1>2, <1>4, <2>4, <2>5, <2>6, <2>10 DEF RetryInv
<1> QED BY <1>8, <1>9, <1>10

\* RetryGivesUp clears the nodes it has given up.
LEMMA RetryGivesUpKeepsRetries ==
    ASSUME TestInv, RetryInv, RetryGivesUp
    PROVE  RetryInv'
<1> USE DEF RetryGivesUp
<1>1. NoRetrySchedules' /\ \A n \in Nodes : Asked(n) => Asked(n)'
    BY DEF RetryInv, NoRetrySchedules, Asked, speedVars, modeVars
<1>2. Clearing' = Clearing /\ unsaved' = TRUE /\ reports' = reports /\ giveUp' = {}
    BY DEF Clearing, speedVars, switchVars
<1> QED BY <1>1, <1>2, ClearStep DEF speedVars

\* The operator's switch, up to the point where it turns to Telegram: project
\* maintenance goes on to clear what waits.
LEMMA SwitchKeepsRetries ==
    ASSUME TestInv, RetryInv,
           SwitchApply \/ \E who \in {"operator", "refresh"} : SwitchAsk(who)
    PROVE  RetryInv'
<1>1. /\ UNCHANGED <<retryVars, saveVars, orphaned, crashes, reports, caller, run>> /\ ~Clearing
      /\ touched \subseteq touched'
    BY DEF SwitchAsk, SwitchApply, NothingToSwitch, SetNodeMaintenance, SetProjectMaintenance, Refresh,
           modeVars, Clearing
<1>2. project' => project \/ Clearing'
  <2>1. ASSUME NEW kind \in Wanted, NEW ids \in Subjects(kind), SetProjectMaintenance(kind, ids)
        PROVE  project' => project \/ Clearing'
    <3>1. project \in BOOLEAN
        BY DEF TestInv, ModesTyped
    <3>2. CASE kind = "project"
        BY <2>1, <3>1, <3>2 DEF SetProjectMaintenance, HoldOn, Clearing
    <3>3. CASE kind # "project"
        BY <2>1, <3>1, <3>3 DEF SetProjectMaintenance
    <3> QED BY <3>2, <3>3
  <2>2. ASSUME \/ NothingToSwitch \/ \E who \in {"operator", "refresh"} : SwitchAsk(who)
               \/ \E kind \in Wanted : \E ids \in Subjects(kind) :
                     SetNodeMaintenance(kind, ids) \/ Refresh(kind, ids)
        PROVE  project' = project
      BY <2>2 DEF SwitchAsk, NothingToSwitch, SetNodeMaintenance, Refresh, modeVars
  <2> QED BY <2>1, <2>2 DEF SwitchApply
<1>3. \A n \in Nodes : Asked(n) => Asked(n)' \/ Clearing'
    BY <1>1, <1>2 DEF Asked
<1>4. RetriesTyped' /\ EntriesShape' /\ NoRetrySchedules' /\ Calling' /\ SaverSees'
    BY <1>1 DEF RetryInv, RetriesTyped, EntriesShape, NoRetrySchedules, Calling, SaverSees, retryVars,
          saveVars
<1>5. Handed'
    BY <1>1, <1>2, <1>3, KeyFacts DEF RetryInv, RetriesTyped, Handed, retryVars
<1>6. \A k \in Keys : \A i \in Entries : Timed(entries[i], k)' = Timed(entries[i], k)
    BY <1>1 DEF Timed, retryVars
<1>7. AllAlive'
    BY <1>1, <1>3, <1>6, KeyFacts DEF RetryInv, RetriesTyped, AllAlive, Alive, retryVars
<1>8. (Saving \/ OnDisk)'
    BY <1>1 DEF RetryInv, Saving, OnDisk, retryVars, saveVars
<1> QED BY <1>4, <1>5, <1>7, <1>8 DEF RetryInv

\* The end of a switch: a node or everything is cleared.
LEMMA SwitchClearKeepsRetries ==
    ASSUME TestInv, RetryInv, SwitchClear
    PROVE  RetryInv'
<1>1. UNCHANGED <<modeVars, caller, run, reports, seq, retryMu, tried, giveUp, unsaved, saveVars, crashes>>
    BY DEF SwitchClear
<1>2. NoRetrySchedules' /\ SaverSees' /\ \A n \in Nodes : Asked(n) => Asked(n)'
    BY <1>1 DEF RetryInv, NoRetrySchedules, SaverSees, Asked, modeVars, saveVars
<1>3. giveUp \subseteq Nodes /\ unsaved \in BOOLEAN
    BY DEF RetryInv, RetriesTyped
<1>6. CASE ClearNode
  <2>1. clearSpeedRetry(sw.ids) /\ ~Clearing
      BY <1>6 DEF ClearNode, Clearing
  <2> QED BY <1>1, <1>2, <1>3, <2>1, ClearStep
<1>7. CASE ClearAll
  <2> USE DEF ClearAll, saveVars
  <2>1. /\ entries \in [Entries -> EntryRecord] /\ RetriesTyped /\ EntriesShape
      BY DEF RetryInv, RetriesTyped
  <2>2. ASSUME NEW i \in Entries
        PROVE  /\ entries'[i] \in EntryRecord /\ entries'[i].targets = {}
               /\ entries[i] = NoEntry => entries'[i] = NoEntry
    <3>1. CASE entries[i].timer = "fired"
      <4>1. entries'[i] = [NoEntry EXCEPT !.timer = "fired", !.armed = entries[i].armed]
          BY <1>7, <3>1
      <4>2. entries'[i] = [in |-> FALSE, targets |-> {}, timer |-> "fired", armed |-> entries[i].armed]
          BY <4>1 DEF NoEntry
      <4>3. entries[i].armed \in SUBSET Keys
          BY <2>1 DEF EntryRecord
      <4> QED BY <3>1, <4>2, <4>3, NoEntryFacts DEF EntryRecord
    <3>2. CASE entries[i].timer # "fired"
      <4>1. entries'[i] = NoEntry
          BY <1>7, <3>2
      <4> QED BY <4>1, NoEntryFacts
    <3> QED BY <3>1, <3>2
  <2>3. entries' \in [Entries -> EntryRecord]
      BY <1>7, <2>2
  <2>4. RetriesTyped'
      BY <1>1, <1>7, <2>1, <2>3 DEF RetriesTyped
  <2>5. EntriesShape'
      BY <1>1, <1>7, <2>1, <2>2 DEF EntriesShape
  <2>6. AllAlive' /\ OnDisk'
      BY <1>7, <2>2 DEF AllAlive, OnDisk
  <2>7. Calling' /\ Handed'
      BY <1>1, <1>7 DEF RetryInv, Calling, Handed
  <2> QED BY <1>2, <2>4, <2>5, <2>6, <2>7 DEF RetryInv
<1> QED BY <1>6, <1>7 DEF SwitchClear

\* After a refresh what is not watched any more is cleared.
LEMMA PruneKeepsRetries ==
    ASSUME TestInv, RetryInv, PruneProceeds
    PROVE  RetryInv'
<1>1. UNCHANGED <<speedVars, saveVars, sw, crashes>>
    BY DEF PruneProceeds, PruneReads, PruneCollects, PruneClears
<1>2. /\ NoRetrySchedules' /\ Clearing' = Clearing
      /\ \A n \in Nodes : Asked(n) => Asked(n)'
    BY <1>1 DEF RetryInv, NoRetrySchedules, Clearing, Asked, speedVars, modeVars
<1>3. CASE PruneReads \/ PruneCollects
  <2>1. UNCHANGED <<retryVars, orphaned>>
      BY <1>3 DEF PruneReads, PruneCollects
  <2> QED BY <1>1, <2>1, RunKeepsRetries DEF speedVars, modeVars
<1>4. CASE PruneClears
  <2>1. clearSpeedRetry(prune.ids) /\ UNCHANGED <<seq, retryMu, tried, giveUp, unsaved>>
      BY <1>4 DEF PruneClears
  <2>2. giveUp \subseteq Nodes /\ unsaved \in BOOLEAN
      BY DEF RetryInv, RetriesTyped
  <2> QED BY <1>1, <1>2, <2>1, <2>2, ClearStep DEF speedVars
<1> QED BY <1>3, <1>4 DEF PruneProceeds

\* A restart: every confirmation that comes back from disk has a timer.
LEMMA RestartKeepsRetries ==
    ASSUME TestInv, RetryInv, Restart
    PROVE  RetryInv'
<1> USE DEF Restart
<1>1. RetriesTyped /\ EntriesShape /\ disk \in [Entries -> SUBSET Keys]
    BY DEF RetryInv, RetriesTyped
<1>2. PICK back : /\ back = [i \in Entries |-> IF project THEN {} ELSE Restored(i)]
                  /\ pending' = UNION {back[i] : i \in Entries}
                  /\ entries' = [i \in Entries |-> IF back[i] = {} THEN NoEntry
                                    ELSE [in |-> TRUE, targets |-> back[i], timer |-> "armed",
                                          armed |-> back[i]]]
    OBVIOUS
<1>3. \A i \in Entries : back[i] \subseteq disk[i] /\ back[i] \in SUBSET Keys
    BY <1>1, <1>2 DEF Restored
<1>4. ASSUME NEW i \in Entries
      PROVE  /\ entries'[i] \in EntryRecord /\ entries'[i].targets = back[i]
             /\ entries'[i].targets # {} => entries'[i].in
             /\ back[i] = {} => entries'[i] = NoEntry
             /\ \A k \in back[i] : Timed(entries'[i], k)
  <2>1. CASE back[i] = {}
    <3>1. entries'[i] = NoEntry
        BY <1>2, <2>1
    <3> QED BY <2>1, <3>1, NoEntryFacts
  <2>2. CASE back[i] # {}
    <3>1. entries'[i] = [in |-> TRUE, targets |-> back[i], timer |-> "armed", armed |-> back[i]]
        BY <1>2, <2>2
    <3> HIDE DEF Restart
    <3>2. entries'[i] \in EntryRecord
        BY <1>3, <3>1 DEF EntryRecord
    <3>3. /\ entries'[i].targets = back[i] /\ entries'[i].in
          /\ entries'[i].armed = back[i] /\ entries'[i].timer = "armed"
        BY <3>1
    <3> QED BY <2>2, <3>2, <3>3 DEF Timed
  <2> QED BY <2>1, <2>2
<1>5. entries' \in [Entries -> EntryRecord] /\ pending' \subseteq Keys
    BY <1>2, <1>3, <1>4
<1>6. disk' \in [Entries -> SUBSET Keys] /\ \A i \in Entries : disk[i] = {} => disk'[i] = {}
    BY <1>1
<1>7. RetriesTyped'
  <2>1. unsaved' \in BOOLEAN
      OBVIOUS
  <2>2. retryMu' \in 0..seq' /\ seq' \in 0..MaxEntries /\ crashes' \in Nat
      BY <1>1 DEF RetriesTyped
  <2>3. saver' \in SaverRecord
      BY DEF NoSaver, SaverRecord
  <2> QED BY <1>5, <1>6, <2>1, <2>2, <2>3 DEF RetriesTyped
<1>8. EntriesShape'
    BY <1>1, <1>3, <1>4, <1>6 DEF EntriesShape
<1>9. caller'[Retry] = NoCall
    BY RetryFacts
<1>10. Calling' /\ Handed' /\ NoRetrySchedules' /\ SaverSees'
    BY <1>9 DEF Calling, Handed, NoCall, NoRetrySchedules, SaverSees, NoSaver
<1>11. AllAlive'
  <2> SUFFICES ASSUME NEW k \in pending' PROVE \E i \in Entries : Timed(entries'[i], k)
      BY DEF AllAlive, Alive
  <2>1. PICK i \in Entries : k \in back[i]
      BY <1>2
  <2> QED BY <1>4, <2>1
<1>12. OnDisk'
  <2>1. ASSUME NEW i \in Entries, NEW k \in entries'[i].targets
        PROVE  k \in disk'[i]
    <3>1. k \in back[i] /\ k \in disk[i]
        BY <1>3, <1>4, <2>1
    <3>2. ~project
        BY <1>2, <3>1
    <3> QED BY <3>1, <3>2
  <2> QED BY <2>1 DEF OnDisk
<1> QED BY <1>7, <1>8, <1>10, <1>11, <1>12 DEF RetryInv

-----------------------------------------------------------------------------
(* The theorems. *)

\* RetryInv is inductive, given TestInv.
LEMMA RetryStep ==
    ASSUME TestInv, RetryInv, [Next]_vars
    PROVE  RetryInv'
<1>1. CASE Requests
  <2>1. PICK c \in Sources : \E ids \in RequestsOf(c) : Manage(Run(c, ids))
      BY <1>1 DEF Requests
  <2>2. caller'[Retry] = caller[Retry]
      BY <2>1, RetryFacts DEF Manage, Run, BeginCall, TestInv, CallsTyped
  <2> QED BY <2>1, <2>2, RunKeepsRetries DEF Manage, Run, modeVars, switchVars
<1>2. ASSUME NEW c \in Callers, CallProceeds(c)
      PROVE  RetryInv'
    BY <1>2, TakeGateKeepsRetries
<1>3. CASE Manage(Cancel)
  <2>1. run' = [run EXCEPT !.cancelled = TRUE] /\ run \in RunRecord
      BY <1>3 DEF Manage, Cancel, TestInv, ReadersCounted
  <2>2. run'.on = run.on /\ run'.source = run.source /\ run'.ids = run.ids
      BY <2>1 DEF RunRecord
  <2> QED BY <1>3, <2>2, RunKeepsRetries DEF Manage, Cancel, modeVars, switchVars
<1>4. CASE RunGoesOn
    BY <1>4, RunStepKeepsRetries
<1>5. CASE Save
    BY <1>5, SaveBeginsKeepsRetries, SaveEndsKeepsRetries DEF Save
<1>6. ASSUME NEW r \in reports, Notify(r)
      PROVE  RetryInv'
    BY <1>6, NotifyBeginKeepsRetries, NotifyClearKeepsRetries, NotifyScheduleKeepsRetries DEF Notify
<1>7. ASSUME NEW i \in Entries, RetryProceeds(i)
      PROVE  RetryInv'
    BY <1>7, TimerFiresKeepsRetries, runSpeedRetryKeepsRetries DEF RetryProceeds
<1>8. CASE RetryReturned \/ RetryGivesUp
    BY <1>8, RetryReturnedKeepsRetries, RetryGivesUpKeepsRetries
<1>9. CASE \E who \in {"operator", "refresh"} : SwitchAsk(who)
    BY <1>9, SwitchKeepsRetries
<1>10. CASE SwitchProceeds \/ PruneProceeds
    BY <1>10, SwitchKeepsRetries, SwitchClearKeepsRetries, PruneKeepsRetries DEF SwitchProceeds
<1>11. CASE Restart
    BY <1>11, RestartKeepsRetries
<1>12. CASE UNCHANGED vars
    BY <1>12, RunKeepsRetries DEF vars, speedVars, modeVars, switchVars
<1> QED BY <1>1, <1>2, <1>3, <1>4, <1>5, <1>6, <1>7, <1>8, <1>9, <1>10, <1>11, <1>12 DEF Next

\* The fairness is not needed for safety.
LEMMA SpecIsSafe == Spec => Init /\ [][Next]_vars
BY PTL DEF Spec

\* SpeedInv is an invariant.
THEOREM SpeedInvariant == Spec => []SpeedInv
<1>1. Init => SpeedInv
    BY TestInit, RetryInit DEF SpeedInv
<1>2. SpeedInv /\ [Next]_vars => SpeedInv'
  <2>1. RetryInv => RetriesTyped
      BY DEF RetryInv
  <2> QED BY <2>1, TestStep, RetryStep DEF SpeedInv
<1> QED BY <1>1, <1>2, SpecIsSafe, PTL

\* TypeOK: in particular a run and the ways out of Run release the read side of
\* the lifecycle lock as often as it was taken.
THEOREM SpeedTyped == Spec => []TypeOK
<1>1. SpeedInv => TypeOK
  <2> SUFFICES ASSUME SpeedInv PROVE TypeOK
      OBVIOUS
  <2>1. readers \in Nat
      BY EndingFacts DEF SpeedInv, TestInv, ReadersCounted
  <2>2. \A c \in Callers : caller[c].pc \in {"idle", "gate", "returned"} /\ caller[c].ids \subseteq Nodes
      BY DEF SpeedInv, TestInv, CallsTyped, CallRecord
  <2>3. \A i \in Entries : entries[i].targets \subseteq Keys /\ disk[i] \subseteq Keys
      BY DEF SpeedInv, RetryInv, RetriesTyped, EntryRecord
  <2> QED BY <2>1, <2>2, <2>3 DEF TypeOK, SpeedInv, TestInv, ModesTyped, SwitchShape, RetryInv, RetriesTyped
<1> QED BY <1>1, SpeedInvariant, PTL

\* ProbesOfThisWindow: no probe outlives the maintenance in which it was taken.
THEOREM ProbesStayInTheirWindow == Spec => []ProbesOfThisWindow
<1>1. SpeedInv => ProbesOfThisWindow
    BY DEF SpeedInv, TestInv
<1> QED BY <1>1, SpeedInvariant, PTL

\* StoredIsMeasured: only a measurement that was not broken off, of a node that
\* is watched, replaces the latest result.
THEOREM MeasuredIsStored == Spec => StoredIsMeasured
<1>1. SpeedInv /\ [Next]_vars
         => [\A n \in Nodes : results'[n] # results[n] =>
                \/ crashes' # crashes
                \/ MonitoringEnabled(n) /\ ~project /\ results'[n] = "real"]_vars
    BY TestStep DEF SpeedInv, RetryInv
<1> QED BY <1>1, SpeedInvariant, SpecIsSafe, PTL DEF StoredIsMeasured

\* ConfirmationAlive: whatever waits for its confirmation is on its way to be
\* settled.
THEOREM ConfirmationsAreAlive == Spec => []ConfirmationAlive
<1>1. SpeedInv => ConfirmationAlive
    BY DEF SpeedInv, RetryInv, AllAlive, Alive, Timed, Asked, Clearing, ConfirmationAlive
<1> QED BY <1>1, SpeedInvariant, PTL

\* WaitingIsSaved: a restart loses no confirmation that nobody is about to save.
THEOREM WaitingSurvives == Spec => []WaitingIsSaved
<1>1. SpeedInv => WaitingIsSaved
  <2> SUFFICES ASSUME SpeedInv, ~Saving, NEW i \in Entries, NEW k \in Persisted(entries, Watched)[i],
                      k[1] \notin touched
               PROVE  k \in disk[i]
      BY DEF WaitingIsSaved
  <2>1. k \in entries[i].targets
      BY DEF Persisted
  <2> QED BY <2>1 DEF SpeedInv, RetryInv, OnDisk
<1> QED BY <1>1, SpeedInvariant, PTL
=============================================================================

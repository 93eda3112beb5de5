----------------------------- MODULE SpeedTests -----------------------------
(***************************************************************************)
(* The speed-test manager (speedtest/manager.go, speedtest/fallback.go):   *)
(* four kinds of caller ask for a run, one run at a time measures the      *)
(* selected nodes, and the operator may cancel it at any moment.           *)
(*                                                                         *)
(* A run holds the read side of the Xray lifecycle lock from the selection *)
(* of its nodes until its results are saved; Run takes it and hands it to  *)
(* the goroutine it starts.  A writer that waits keeps new readers out, as *)
(* sync.RWMutex does.  m.mu is never held across a step.                   *)
(*                                                                         *)
(* A measurement is its verdict: "ok"; "low", below the threshold; "late", *)
(* cut short yet not below the threshold; "error"; "deadline", an error    *)
(* that names a deadline; or "aborted", the error of a transfer that the   *)
(* cancellation broke off.  Which reserve endpoints a node has at the      *)
(* moment (its country, the catalogue, the cooldowns) is open.  The        *)
(* schedule fires at any moment: deadlines are not modelled.               *)
(***************************************************************************)
EXTENDS Naturals, FiniteSets

CONSTANTS
    Nodes,          \* StableIDs of the nodes followed; the subscription has others
    Sources,        \* the kinds of caller that ask by themselves
    Verdicts,       \* what a measurement may come to
    Concurrency,    \* TestConfig.Concurrency
    MaxCalls        \* bound: calls of Run per source, confirmation retries not counted

Retry == "speed-retry"              \* ConfirmationRetrySource
Callers == Sources \cup {Retry}

ASSUME SpeedAssumption ==
    /\ Sources \subseteq {"manual", "telegram", "schedule"}
    /\ Verdicts \subseteq {"ok", "low", "late", "error", "deadline"}
    /\ Concurrency \in Nat \ {0}
    /\ MaxCalls \in Nat

VARIABLES
    active,     \* nodes of the subscription (ProxyChecker.GetProxies)
    paused,     \* nodes in maintenance
    project,    \* project maintenance
    switches,   \* switches and refreshes so far
    touched,    \* nodes that were paused, resumed or removed once (history)
    writer,     \* the lifecycle lock: "free" | "waiting" | "held" by a writer
    readers,    \* ... and how many hold the read side
    caller,     \* caller -> its call of Run
    run,        \* the run in progress
    results,    \* node -> the latest result of the fleet: "none", "real" or "broken"
    savedResults,   \* ... as last persisted
    probeResults,   \* node -> the latest result taken in maintenance
    reports,    \* runs that are over, until NotifySpeedTest has dealt with them
    calls

modeVars == <<active, paused, project, switches, touched>>
gateVars == <<writer, readers>>
resultVars == <<results, savedResults, probeResults>>
speedVars == <<modeVars, gateVars, caller, run, resultVars, reports, calls>>

Failures == {"error", "deadline", "aborted"}    \* Result.Error is not empty
None == "none"
Stored(v) == IF v = "aborted" THEN "broken" ELSE "real"
NoProbe == "none"           \* else "node" or "project": the mode it was taken in
NoCall == [pc |-> "idle", ids |-> {}, out |-> "none"]
NoRun == [on |-> FALSE, source |-> Retry, ids |-> {}, cancelled |-> FALSE, probes |-> {},
          project |-> FALSE, stage |-> [n \in Nodes |-> "out"], value |-> [n \in Nodes |-> None]]

MonitoringEnabled(n) == n \notin paused

SpeedInit ==
    /\ active = Nodes
    /\ paused = {}
    /\ project = FALSE
    /\ switches = 0
    /\ touched = {}
    /\ writer = "free"
    /\ readers = 0
    /\ caller = [c \in Callers |-> NoCall]
    /\ run = NoRun
    /\ results = [n \in Nodes |-> "none"]
    /\ savedResults = results
    /\ probeResults = [n \in Nodes |-> NoProbe]
    /\ reports = {}
    /\ calls = [c \in Sources |-> 0]

-----------------------------------------------------------------------------
(* Run *)

\* Up to the gate: settings, the reserve catalogue, for a run asked from
\* Telegram an availability check, and AwaitIdleNodes, which returns when no
\* agent measures these nodes or the wait is over.
BeginCall(c, ids) ==
    /\ caller[c].pc = "idle"
    /\ caller' = [caller EXCEPT ![c] = [pc |-> "gate", ids |-> ids, out |-> "none"]]

Run(c, ids) ==
    /\ calls[c] < MaxCalls
    /\ calls' = [calls EXCEPT ![c] = @ + 1]
    /\ BeginCall(c, ids)
    /\ UNCHANGED <<modeVars, gateVars, run, resultVars, reports>>

\* The outcomes of selectProxies.  Every caller asks for nodes that are online
\* (OnlyOnline); which ones are is open.  Only a manual run takes paused nodes.
Selections(c, ids) ==
    SUBSET {n \in active : (ids = {} \/ n \in ids) /\ (c = "manual" \/ MonitoringEnabled(n))}

\* A run of all nodes may find others than those followed.
Answers(c, sel) ==
    IF project /\ c # "manual" THEN {"refused"}
    ELSE (IF sel = {} THEN {"refused"} ELSE {})
         \cup (IF sel # {} \/ caller[c].ids = {} THEN {IF run.on THEN "busy" ELSE "started"} ELSE {})

\* The web handler, the bot and the scheduler only tell or log an error; the
\* confirmation retry looks at it.
Answered(c, out) ==
    IF c = Retry THEN [caller[c] EXCEPT !.pc = "returned", !.out = out] ELSE NoCall

\* The gate is released on every way out ...
Refuse(c, sel) ==
    /\ \E out \in Answers(c, sel) \ {"started"} : caller' = [caller EXCEPT ![c] = Answered(c, out)]
    /\ UNCHANGED <<readers, run>>

\* ... but this one: it stays with the goroutine that Run starts.
Start(c, sel) ==
    /\ "started" \in Answers(c, sel)
    /\ run' = [on |-> TRUE, source |-> c, ids |-> caller[c].ids, cancelled |-> FALSE,
               probes |-> {n \in sel : project \/ ~MonitoringEnabled(n)}, project |-> project,
               stage |-> [n \in Nodes |-> IF n \in sel THEN "queued" ELSE "out"],
               value |-> [n \in Nodes |-> None]]
    /\ caller' = [caller EXCEPT ![c] = Answered(c, "started")]
    /\ readers' = readers + 1

\* The read lock is taken, the nodes are selected and the run is registered.
TakeGate(c) ==
    /\ caller[c].pc = "gate"
    /\ writer = "free"
    /\ \E sel \in Selections(c, caller[c].ids) : Refuse(c, sel) \/ Start(c, sel)
    /\ UNCHANGED <<modeVars, writer, resultVars, reports, calls>>

Cancel ==
    /\ run.on
    /\ ~run.cancelled
    /\ run' = [run EXCEPT !.cancelled = TRUE]
    /\ UNCHANGED <<modeVars, gateVars, caller, resultVars, reports, calls>>

-----------------------------------------------------------------------------
(* run: the stages of a node are queued, primary, primed (the primary      *)
(* result waits to be read), waiting (for the reserve phase), reserve,     *)
(* ended (the final result waits to be read) and over.                     *)

usesSequencedFallback(source) == source # "schedule"

SlotFree == Cardinality({n \in Nodes : run.stage[n] \in {"primary", "reserve"}}) < Concurrency

shouldAttemptFallback(m) == m # "ok"

\* What an attempt may come back with; "aborted" once the run is cancelled.
Outcomes == IF run.cancelled THEN Verdicts \cup {"aborted"} ELSE Verdicts

\* A node that is not online any more when its turn comes is skipped.
StartPrimary(n) ==
    /\ run.stage[n] = "queued"
    /\ SlotFree
    /\ \E next \in {"primary", "over"} :
          /\ run.cancelled => next = "over"
          /\ run' = [run EXCEPT !.stage[n] = next]
    /\ UNCHANGED <<modeVars, gateVars, caller, resultVars, reports, calls>>

\* A scheduled run goes on to the reserve endpoints at once.
EndPrimary(n) ==
    /\ run.stage[n] = "primary"
    /\ \E v \in Outcomes :
          run' = [run EXCEPT !.value[n] = v,
                             !.stage[n] = IF usesSequencedFallback(run.source) THEN "primed"
                                          ELSE IF shouldAttemptFallback(v) THEN "reserve"
                                          ELSE "ended"]
    /\ UNCHANGED <<modeVars, gateVars, caller, resultVars, reports, calls>>

\* Mutant: what the cancellation broke off is stored.
recordAnyResult(n) ==
    /\ run' = [run EXCEPT !.stage[n] = "over"]
    /\ IF n \in run.probes
       THEN /\ probeResults' = [probeResults EXCEPT ![n] = IF run.project THEN "project" ELSE "node"]
            /\ UNCHANGED results
       ELSE /\ probeResults' = [probeResults EXCEPT ![n] = NoProbe]
            /\ results' = [results EXCEPT ![n] = Stored(run.value[n])]
    /\ UNCHANGED savedResults

\* A probe of a node in maintenance stays apart from the results of the fleet.
recordResult(n) ==
    /\ IF run.cancelled /\ run.value[n] \in Failures
       THEN /\ run' = [run EXCEPT !.stage[n] = "over", !.value[n] = None]
            /\ UNCHANGED <<results, probeResults>>
       ELSE /\ run' = [run EXCEPT !.stage[n] = "over"]
            /\ IF n \in run.probes
               THEN /\ probeResults' = [probeResults EXCEPT ![n] =
                            IF run.project THEN "project" ELSE "node"]
                    /\ UNCHANGED results
               ELSE /\ probeResults' = [probeResults EXCEPT ![n] = NoProbe]
                    /\ results' = [results EXCEPT ![n] = Stored(run.value[n])]
    /\ UNCHANGED savedResults

ReadPrimary(n) ==
    /\ run.stage[n] = "primed"
    /\ IF ~run.cancelled /\ shouldAttemptFallback(run.value[n])
       THEN run' = [run EXCEPT !.stage[n] = "waiting"] /\ UNCHANGED resultVars
       ELSE recordResult(n)
    /\ UNCHANGED <<modeVars, gateVars, caller, reports, calls>>

\* The reserve phase of a sequenced run begins when all primaries are read.
StartReserve(n) ==
    /\ run.stage[n] = "waiting"
    /\ \A m \in Nodes : run.stage[m] \notin {"queued", "primary", "primed"}
    /\ SlotFree
    /\ run' = [run EXCEPT !.stage[n] = IF run.cancelled THEN "ended" ELSE "reserve"]
    /\ UNCHANGED <<modeVars, gateVars, caller, resultVars, reports, calls>>

\* No candidate at all; or one that succeeds and replaces the primary result;
\* or none of those tried succeeds, aborted attempts included.
testFallbackForPrimary(n) ==
    /\ run.stage[n] = "reserve"
    /\ \E v \in {run.value[n]} \cup (Verdicts \cap {"ok", "low"}) :
          run' = [run EXCEPT !.stage[n] = "ended", !.value[n] = v]
    /\ UNCHANGED <<modeVars, gateVars, caller, resultVars, reports, calls>>

ReadResult(n) ==
    /\ run.stage[n] = "ended"
    /\ recordResult(n)
    /\ UNCHANGED <<modeVars, gateVars, caller, reports, calls>>

FreshReport(c) ==
    CHOOSE k \in 1..(Cardinality(reports) + 1) : \A r \in reports : r.source = c => r.no # k

\* Under m.mu: from here the manager takes another run, while the goroutine of
\* this one still holds the read side of the lifecycle lock.
EndRun ==
    /\ run.on
    /\ \A n \in Nodes : run.stage[n] \in {"out", "over"}
    /\ run' = NoRun
    /\ reports' = reports \cup {[no |-> FreshReport(run.source), source |-> run.source, ids |-> run.ids,
                                  res |-> run.value, probes |-> run.probes,
                                  cancelled |-> run.cancelled, pc |-> "persist"]}
    /\ UNCHANGED <<modeVars, gateVars, caller, resultVars, calls>>

Advance(r, s) == reports' = (reports \ {r}) \cup {s}

\* It saves what the manager has by now, results of a later run included.
persistResults(r) ==
    /\ r.pc = "persist"
    /\ savedResults' = results
    /\ Advance(r, [r EXCEPT !.pc = "report"])
    /\ UNCHANGED <<modeVars, gateVars, caller, run, results, probeResults, calls>>

\* A cancelled run is neither reported nor diagnosed; the gate is released.
ReportRun(r) ==
    /\ r.pc = "report"
    /\ readers' = readers - 1
    /\ IF r.cancelled THEN reports' = reports \ {r} ELSE Advance(r, [r EXCEPT !.pc = "begin"])
    /\ UNCHANGED <<modeVars, writer, caller, run, resultVars, calls>>

RunStep ==
    \/ \E n \in Nodes : \/ StartPrimary(n) \/ EndPrimary(n) \/ ReadPrimary(n)
                        \/ StartReserve(n) \/ testFallbackForPrimary(n) \/ ReadResult(n)
    \/ EndRun
    \/ \E r \in reports : persistResults(r) \/ ReportRun(r)

=============================================================================

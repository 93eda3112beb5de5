------------------------- MODULE SpeedConfirmation -------------------------
(***************************************************************************)
(* What follows a speed test: Telegram's report of it and the delayed      *)
(* confirmation of a slow or unfinished measurement                        *)
(* (telegram/speedalerts.go), together with the operator's switches and    *)
(* the subscription refresh (main.go), which take the write side of the    *)
(* Xray lifecycle lock and clear the confirmations that no longer apply.   *)
(*                                                                         *)
(* speedRetryMu guards the confirmations.  Everyone holds it for one step, *)
(* except the goroutine of a confirmation timer, which keeps it while it   *)
(* calls Manager.Run.  stateSaveMu is held while the state file is saved.  *)
(* Speed reports are on, no node is muted, and the state file can be       *)
(* written.  Delays are not modelled: an armed timer fires at any moment.  *)
(***************************************************************************)
EXTENDS SpeedTests

CONSTANTS
    Switches,       \* the kinds of switch the operator uses
    MaxSwitches,    \* bound: switches and refreshes
    MaxEntries,     \* bound: confirmations scheduled
    MaxCrashes      \* bound: restarts of the process

Reasons == {"low", "technical"}
Keys == Nodes \X Reasons            \* speedRetryKey
Entries == 1..MaxEntries            \* timer ids

ASSUME ConfirmationAssumption ==
    /\ Switches \subseteq {"pause", "resume", "project", "unproject", "refresh"}
    /\ MaxSwitches \in Nat
    /\ MaxEntries \in Nat \ {0}
    /\ MaxCrashes \in Nat

VARIABLES
    pending,    \* speedRetryPending
    entries,    \* timer id -> its entry and its timer
    seq,        \* speedRetrySeq
    retryMu,    \* the timer id whose goroutine holds speedRetryMu, 0 for none
    tried,      \* the confirmations that goroutine runs for
    giveUp,     \* nodes whose confirmations a failed call is about to drop
    unsaved,    \* a goroutine is about to save the confirmations
    saver,      \* the holder of stateSaveMu and the nodes it has found active
    disk,       \* timer id -> the confirmations in node_alert_state.json
    sw,         \* the operator's switch or the refresh under way
    prune,      \* what the refresh does after it has released the lock
    orphaned,   \* nodes whose confirmation run was cancelled (history)
    crashes

retryVars == <<pending, entries, seq, retryMu, tried, giveUp, unsaved>>
saveVars == <<saver, disk>>
switchVars == <<sw, prune>>
vars == <<speedVars, retryVars, saveVars, switchVars, orphaned, crashes>>

NoEntry == [in |-> FALSE, targets |-> {}, timer |-> "none", armed |-> {}]
NoSwitch == [pc |-> "idle", kind |-> "none", ids |-> {}]
NoPrune == [pc |-> "idle", ids |-> {}]
NoSaver == [on |-> FALSE, active |-> {}]

NodesOf(keys) == {k[1] : k \in keys}
KeysOf(ids) == ids \X Reasons
AvailabilityAccounted(n) == n \in active /\ MonitoringEnabled(n)

Init ==
    /\ SpeedInit
    /\ pending = {}
    /\ entries = [i \in Entries |-> NoEntry]
    /\ seq = 0
    /\ retryMu = 0
    /\ tried = {}
    /\ giveUp = {}
    /\ unsaved = FALSE
    /\ saver = NoSaver
    /\ disk = [i \in Entries |-> {}]
    /\ sw = NoSwitch
    /\ prune = NoPrune
    /\ orphaned = {}
    /\ crashes = 0

-----------------------------------------------------------------------------
(* The confirmations, under speedRetryMu *)

\* An entry left without targets goes, and its timer is stopped; a goroutine
\* that has already fired goes on with the targets it was armed with.
Without(e, ids) ==
    LET left == {k \in e.targets : k[1] \notin ids} IN
    IF left = e.targets THEN e
    ELSE [e EXCEPT !.in = left # {}, !.targets = left,
                   !.timer = IF left = {} /\ e.timer = "armed" THEN "none" ELSE e.timer]

Affects(ids) == pending \cap KeysOf(ids) # {} \/ \E i \in Entries : Without(entries[i], ids) # entries[i]

clearSpeedRetry(ids) ==
    /\ retryMu = 0
    /\ pending' = pending \ KeysOf(ids)
    /\ entries' = [i \in Entries |-> Without(entries[i], ids)]
    /\ orphaned' = orphaned \ ids

\* scheduleSpeedRetryLocked and armSpeedRetryLocked, in the table es
Scheduled(es, keys) ==
    [es EXCEPT ![seq + 1] = [in |-> TRUE, targets |-> keys, timer |-> "armed", armed |-> keys]]

-----------------------------------------------------------------------------
(* saveAlertState, for a goroutine that has changed the confirmations, a   *)
(* report, the switch or the prune                                         *)

Watched == {n \in Nodes : AvailabilityAccounted(n)}

\* What is written of the table es when the nodes ids were found active
Persisted(es, ids) ==
    [i \in Entries |-> IF es[i].in THEN {k \in es[i].targets : k[1] \in ids} ELSE {}]

\* The switch is over and releases the lifecycle lock.
Release == writer' = "free" /\ sw' = NoSwitch

\* stateSaveMu is taken, and the active nodes are read ...
SaveBegins ==
    /\ ~saver.on
    /\ saver' = [on |-> TRUE, active |-> Watched]
    /\ \/ /\ unsaved
          /\ unsaved' = FALSE
          /\ UNCHANGED <<reports, switchVars>>
       \/ /\ \E r \in reports : r.pc = "save" /\ reports' = reports \ {r}
          /\ UNCHANGED <<unsaved, switchVars>>
       \/ /\ sw.pc = "save"
          /\ sw' = [sw EXCEPT !.pc = "saving"]
          /\ UNCHANGED <<unsaved, reports, prune>>
       \/ /\ prune.pc = "save"
          /\ prune' = [prune EXCEPT !.pc = "saving"]
          /\ UNCHANGED <<unsaved, reports, sw>>
    /\ UNCHANGED <<modeVars, gateVars, caller, run, resultVars, calls, pending, entries, seq, retryMu,
                   tried, giveUp, disk, orphaned, crashes>>

\* ... before the confirmations are read under speedRetryMu and written.  A
\* switch releases the lifecycle lock afterwards.
SaveEnds ==
    /\ saver.on
    /\ retryMu = 0
    /\ saver' = NoSaver
    /\ disk' = Persisted(entries, saver.active)
    /\ IF sw.pc = "saving" THEN Release ELSE UNCHANGED <<writer, sw>>
    /\ prune' = IF prune.pc = "saving" THEN NoPrune ELSE prune
    /\ UNCHANGED <<modeVars, readers, caller, run, resultVars, reports, calls, retryVars, orphaned, crashes>>

Save == SaveBegins \/ SaveEnds

-----------------------------------------------------------------------------
(* NotifySpeedTest, in a goroutine of its own per report *)

speedConfirmationRetryTargets(res) ==
    {<<n, "low">> : n \in {m \in Nodes : res[m] = "low"}}
    \cup {<<n, "technical">> : n \in {m \in Nodes : res[m] \in {"late", "deadline"}}}

successfulSpeedResultIDs(res) == {n \in Nodes : res[n] = "ok"}

\* excludeUnreportableSpeedResults
Reportable(r) ==
    [n \in Nodes |-> IF n \in r.probes \/ ~MonitoringEnabled(n) THEN None ELSE r.res[n]]

\* A report in project maintenance is dropped; one asked for in Telegram is
\* answered at once.
NotifyBegin(r) ==
    /\ r.pc = "begin"
    /\ IF project \/ r.source = "telegram" THEN reports' = reports \ {r}
       ELSE Advance(r, CASE r.source = "manual" -> [r EXCEPT !.pc = "clear", !.res = Reportable(r)]
                         [] r.source = Retry -> [r EXCEPT !.pc = "clear"]
                         [] OTHER -> [r EXCEPT !.pc = "schedule"])
    /\ UNCHANGED <<modeVars, gateVars, caller, run, resultVars, calls, retryVars, saveVars, switchVars,
                   orphaned, crashes>>

\* A good manual result settles what its node waited for; a confirmation run
\* settles all it was asked for, measured or not, and schedules nothing.
NotifyClear(r) ==
    /\ r.pc = "clear"
    /\ \E ids \in {IF r.source = "manual" THEN successfulSpeedResultIDs(r.res)
                   ELSE r.ids \cup {n \in Nodes : r.res[n] # None}} :
          /\ clearSpeedRetry(ids)
          /\ unsaved' = (unsaved \/ r.source = Retry \/ Affects(ids))
    /\ IF r.source = Retry THEN reports' = reports \ {r}
       ELSE Advance(r, [r EXCEPT !.pc = "schedule"])
    /\ UNCHANGED <<modeVars, gateVars, caller, run, resultVars, calls, seq, retryMu, tried, giveUp,
                   saveVars, switchVars, crashes>>

\* Mutant: a new confirmation is not saved.
NotifyScheduleUnsaved(r) ==
    /\ r.pc = "schedule"
    /\ retryMu = 0
    /\ \E keys \in {speedConfirmationRetryTargets(r.res)} :
          IF keys \subseteq pending
          THEN reports' = reports \ {r} /\ UNCHANGED <<pending, entries, seq>>
          ELSE /\ seq < MaxEntries
               /\ seq' = seq + 1
               /\ pending' = pending \cup keys
               /\ entries' = Scheduled(entries, keys \ pending)
               /\ reports' = reports \ {r}
    /\ UNCHANGED <<modeVars, gateVars, caller, run, resultVars, calls, retryMu, tried, giveUp, unsaved,
                   saveVars, switchVars, orphaned, crashes>>

\* scheduleSpeedRetry: a node waits once per reason.  The report itself, sent
\* when this is saved, leaves out the nodes that wait.
NotifySchedule(r) ==
    /\ r.pc = "schedule"
    /\ retryMu = 0
    /\ \E keys \in {speedConfirmationRetryTargets(r.res)} :
          IF keys \subseteq pending
          THEN reports' = reports \ {r} /\ UNCHANGED <<pending, entries, seq>>
          ELSE /\ seq < MaxEntries
               /\ seq' = seq + 1
               /\ pending' = pending \cup keys
               /\ entries' = Scheduled(entries, keys \ pending)
               /\ Advance(r, [r EXCEPT !.pc = "save"])
    /\ UNCHANGED <<modeVars, gateVars, caller, run, resultVars, calls, retryMu, tried, giveUp, unsaved,
                   saveVars, switchVars, orphaned, crashes>>

Notify(r) == NotifyBegin(r) \/ NotifyClear(r) \/ NotifySchedule(r)

-----------------------------------------------------------------------------
(* runSpeedRetry, in the goroutine of a timer *)

TimerFires(i) ==
    /\ entries[i].timer = "armed"
    /\ entries' = [entries EXCEPT ![i].timer = "fired"]
    /\ UNCHANGED <<speedVars, pending, seq, retryMu, tried, giveUp, unsaved, saveVars, switchVars,
                   orphaned, crashes>>

\* From here the goroutine keeps the lock until Run returns.
runSpeedRetry(i) ==
    /\ entries[i].timer = "fired"
    /\ retryMu = 0
    /\ \E keys \in {entries[i].armed \cap pending} :
          IF keys = {}
          THEN /\ entries' = [entries EXCEPT ![i] = NoEntry]
               /\ unsaved' = TRUE
               /\ UNCHANGED <<caller, retryMu, tried>>
          ELSE /\ entries' = [entries EXCEPT ![i].timer = "none", ![i].armed = {}]
               /\ retryMu' = i
               /\ tried' = keys
               /\ BeginCall(Retry, NodesOf(keys))
               /\ UNCHANGED unsaved
    /\ UNCHANGED <<modeVars, gateVars, run, resultVars, reports, calls, pending, seq, giveUp, saveVars,
                   switchVars, orphaned, crashes>>

\* Mutant: a busy manager is taken for a started run.
RetryReturnedBusyIgnored ==
    /\ caller[Retry].pc = "returned"
    /\ caller' = [caller EXCEPT ![Retry] = NoCall]
    /\ retryMu' = 0
    /\ tried' = {}
    /\ giveUp' = IF caller[Retry].out = "refused" THEN giveUp \cup NodesOf(tried) ELSE giveUp
    /\ UNCHANGED <<modeVars, gateVars, run, resultVars, reports, calls, pending, entries, seq, unsaved,
                   saveVars, switchVars, orphaned, crashes>>

\* A busy manager postpones the confirmation, any other error drops it.
RetryReturned ==
    /\ caller[Retry].pc = "returned"
    /\ caller' = [caller EXCEPT ![Retry] = NoCall]
    /\ retryMu' = 0
    /\ tried' = {}
    /\ \/ /\ caller[Retry].out = "started"
          /\ UNCHANGED <<entries, seq, giveUp, unsaved>>
       \/ /\ caller[Retry].out = "busy"
          /\ seq < MaxEntries
          /\ seq' = seq + 1
          /\ entries' = Scheduled([entries EXCEPT ![retryMu] = NoEntry], tried)
          /\ unsaved' = TRUE
          /\ UNCHANGED giveUp
       \/ /\ caller[Retry].out = "refused"
          /\ giveUp' = giveUp \cup NodesOf(tried)
          /\ UNCHANGED <<entries, seq, unsaved>>
    /\ UNCHANGED <<modeVars, gateVars, run, resultVars, reports, calls, pending, saveVars, switchVars,
                   orphaned, crashes>>

RetryGivesUp ==
    /\ giveUp # {}
    /\ clearSpeedRetry(giveUp)
    /\ giveUp' = {}
    /\ unsaved' = TRUE
    /\ UNCHANGED <<speedVars, seq, retryMu, tried, saveVars, switchVars, crashes>>

-----------------------------------------------------------------------------
(* The operator's switches and the refresh *)

\* A node, nothing, or the followed nodes of the new subscription
Subjects(kind) ==
    CASE kind \in {"pause", "resume"} -> {{n} : n \in Nodes}
      [] kind = "refresh" -> SUBSET Nodes
      [] OTHER -> {{}}

\* The operator, or the refresh, which runs one at a time to its end
\* (subscriptionRefreshLock), waits for the lifecycle lock.
SwitchAsk(who) ==
    /\ sw.pc = "idle"
    /\ who = "refresh" => who \in Switches /\ prune.pc = "idle"
    /\ switches < MaxSwitches
    /\ sw' = [NoSwitch EXCEPT !.pc = "lock", !.kind = who]
    /\ writer' = "waiting"
    /\ UNCHANGED <<modeVars, readers, caller, run, resultVars, reports, calls, retryVars, saveVars, prune,
                   orphaned, crashes>>

\* What the operator has asked for shows when the lock is his.
Wanted == IF sw.kind = "refresh" THEN {"refresh"} ELSE Switches \ {"refresh"}

\* A switch goes on to Telegram with the lock held.
HoldOn(kind, ids) == writer' = "held" /\ sw' = [pc |-> "clear", kind |-> kind, ids |-> ids]

\* An early return: the node has left, the project is in that mode already, the
\* mode cannot be saved, a scheduled refresh meets project maintenance, or Xray
\* does not take the new configuration.
NothingToSwitch == Release /\ UNCHANGED <<modeVars, probeResults, prune>>

\* Mutant: the probe of the node is kept.
SetNodeMaintenanceOnly(kind, ids) ==
    /\ kind \in {"pause", "resume"}
    /\ ids \subseteq active
    /\ paused' = IF kind = "pause" THEN paused \cup ids ELSE paused \ ids
    /\ switches' = switches + 1
    /\ touched' = touched \cup ids
    /\ IF kind = "pause" THEN HoldOn(kind, ids) ELSE Release
    /\ UNCHANGED <<active, project, probeResults, prune>>

\* setNodeMaintenance up to the point where it turns to Telegram
SetNodeMaintenance(kind, ids) ==
    /\ kind \in {"pause", "resume"}
    /\ ids \subseteq active
    /\ paused' = IF kind = "pause" THEN paused \cup ids ELSE paused \ ids
    /\ switches' = switches + 1
    /\ touched' = touched \cup ids
    /\ probeResults' = [n \in Nodes |-> IF n \in ids THEN NoProbe ELSE probeResults[n]]
    /\ IF kind = "pause" THEN HoldOn(kind, ids) ELSE Release
    /\ UNCHANGED <<active, project, prune>>

\* setProjectMaintenance, likewise
SetProjectMaintenance(kind, ids) ==
    /\ kind \in {"project", "unproject"}
    /\ project # (kind = "project")
    /\ project' = ~project
    /\ switches' = switches + 1
    /\ probeResults' = [n \in Nodes |-> IF probeResults[n] = "project" THEN NoProbe ELSE probeResults[n]]
    /\ IF kind = "project" THEN HoldOn(kind, ids) ELSE Release
    /\ UNCHANGED <<active, paused, touched, prune>>

\* refreshSubscription, its part under the lock
Refresh(kind, ids) ==
    /\ kind = "refresh"
    /\ active' = ids
    /\ switches' = switches + 1
    /\ touched' = touched \cup (Nodes \ ids)
    /\ Release
    /\ prune' = [NoPrune EXCEPT !.pc = "begin"]
    /\ UNCHANGED <<paused, project, probeResults>>

SwitchApply ==
    /\ sw.pc = "lock"
    /\ readers = 0
    /\ \/ NothingToSwitch
       \/ \E kind \in Wanted : \E ids \in Subjects(kind) :
             SetNodeMaintenance(kind, ids) \/ SetProjectMaintenance(kind, ids) \/ Refresh(kind, ids)
    /\ UNCHANGED <<readers, caller, run, results, savedResults, reports, calls, retryVars, saveVars,
                   orphaned, crashes>>

\* ClearMonitoringState, with the lifecycle lock held.  The state is saved if
\* an alert of the node or a confirmation went.
ClearNode ==
    /\ sw.kind = "pause"
    /\ clearSpeedRetry(sw.ids)
    /\ \/ sw' = [sw EXCEPT !.pc = "save"] /\ UNCHANGED writer
       \/ ~Affects(sw.ids) /\ Release

\* ClearAllMonitoringState, likewise
ClearAll ==
    /\ sw.kind = "project"
    /\ retryMu = 0
    /\ pending' = {}
    /\ entries' = [i \in Entries |-> IF entries[i].timer = "fired"
                                     THEN [NoEntry EXCEPT !.timer = "fired", !.armed = entries[i].armed]
                                     ELSE NoEntry]
    /\ orphaned' = {}
    /\ sw' = [sw EXCEPT !.pc = "save"]
    /\ UNCHANGED writer

SwitchClear ==
    /\ sw.pc = "clear"
    /\ ClearNode \/ ClearAll
    /\ UNCHANGED <<modeVars, readers, caller, run, resultVars, reports, calls, seq, retryMu, tried, giveUp,
                   unsaved, saveVars, prune, crashes>>

\* PruneInactiveMutedNodes, when the refresh has released the lifecycle lock: it
\* gives up if the muted nodes cannot be saved, else the active nodes are read ...
PruneReads ==
    /\ prune.pc = "begin"
    /\ prune' \in {NoPrune, [pc |-> "collect", ids |-> Watched]}
    /\ UNCHANGED <<speedVars, retryVars, saveVars, sw, orphaned, crashes>>

\* ... the nodes that wait and are not among them collected under speedRetryMu
\* (expired mutes, and the saves they cause, are left out) ...
PruneCollects ==
    /\ prune.pc = "collect"
    /\ retryMu = 0
    /\ \E inactive \in {NodesOf(pending) \ prune.ids} :
          prune' = IF inactive = {} THEN NoPrune ELSE [pc |-> "clear", ids |-> inactive]
    /\ UNCHANGED <<speedVars, retryVars, saveVars, sw, orphaned, crashes>>

\* ... and cleared when it is taken again.
PruneClears ==
    /\ prune.pc = "clear"
    /\ clearSpeedRetry(prune.ids)
    /\ prune' = [NoPrune EXCEPT !.pc = "save"]
    /\ UNCHANGED <<speedVars, seq, retryMu, tried, giveUp, unsaved, saveVars, sw, crashes>>

-----------------------------------------------------------------------------
(* A crash and the next start: modes, results and confirmations come back  *)
(* from disk; the timers of those that are overdue fire at once.           *)

Restored(i) == {k \in disk[i] : AvailabilityAccounted(k[1]) /\ \A j \in 1..(i - 1) : k \notin disk[j]}

Restart ==
    /\ crashes < MaxCrashes
    /\ crashes' = crashes + 1
    /\ writer' = "free"
    /\ readers' = 0
    /\ caller' = [c \in Callers |-> NoCall]
    /\ run' = NoRun
    /\ results' = savedResults
    /\ probeResults' = [n \in Nodes |-> NoProbe]
    /\ reports' = {}
    /\ sw' = NoSwitch
    /\ prune' = NoPrune
    /\ saver' = NoSaver
    /\ retryMu' = 0
    /\ tried' = {}
    /\ giveUp' = {}
    /\ unsaved' = FALSE
    /\ \E back \in {[i \in Entries |-> IF project THEN {} ELSE Restored(i)]} :
          /\ pending' = UNION {back[i] : i \in Entries}
          /\ entries' = [i \in Entries |-> IF back[i] = {} THEN NoEntry
                            ELSE [in |-> TRUE, targets |-> back[i], timer |-> "armed", armed |-> back[i]]]
    /\ disk' = IF project THEN [i \in Entries |-> {}] ELSE disk
    /\ orphaned' = {}
    /\ UNCHANGED <<modeVars, savedResults, calls, seq>>

-----------------------------------------------------------------------------
Orphans == IF run.on /\ ~run'.on /\ run.cancelled /\ run.source = Retry THEN run.ids ELSE {}

Manage(A) == A /\ UNCHANGED <<retryVars, saveVars, switchVars, orphaned, crashes>>

RunGoesOn ==
    /\ RunStep
    /\ orphaned' = orphaned \cup Orphans
    /\ UNCHANGED <<retryVars, saveVars, switchVars, crashes>>

RequestsOf(c) == IF c = "schedule" THEN {{}} ELSE {{n} : n \in Nodes}

Requests == \E c \in Sources : \E ids \in RequestsOf(c) : Manage(Run(c, ids))
CallProceeds(c) == Manage(TakeGate(c))
SwitchProceeds == SwitchApply \/ SwitchClear
PruneProceeds == PruneReads \/ PruneCollects \/ PruneClears
RetryProceeds(i) == TimerFires(i) \/ runSpeedRetry(i)

Next ==
    \/ Requests
    \/ \E c \in Callers : CallProceeds(c)
    \/ Manage(Cancel)
    \/ RunGoesOn
    \/ Save
    \/ \E r \in reports : Notify(r)
    \/ \E i \in Entries : RetryProceeds(i)
    \/ RetryReturned
    \/ RetryGivesUp
    \/ \E who \in {"operator", "refresh"} : SwitchAsk(who)
    \/ SwitchProceeds
    \/ PruneProceeds
    \/ Restart

\* The scheduler of the Go runtime runs every goroutine that can go on, Go's
\* locks admit everyone in the end, and a measurement ends by its timeout.
\* Nobody has to ask for anything, cancel or crash.
Spec ==
    /\ Init
    /\ [][Next]_vars
    /\ WF_vars(RunGoesOn)
    /\ \A c \in Callers : WF_vars(CallProceeds(c))
    /\ WF_vars(\E r \in reports : Notify(r))
    /\ WF_vars(\E i \in Entries : RetryProceeds(i))
    /\ WF_vars(RetryReturned \/ RetryGivesUp)
    /\ WF_vars(Save)
    /\ WF_vars(SwitchProceeds)
    /\ WF_vars(PruneProceeds)

-----------------------------------------------------------------------------
\* Type invariant.  In particular the read side of the lifecycle lock is
\* released no more often than taken, on every way out of Run and run.
TypeOK ==
    /\ active \subseteq Nodes /\ paused \subseteq Nodes /\ project \in BOOLEAN
    /\ switches \in 0..MaxSwitches /\ touched \subseteq Nodes
    /\ writer \in {"free", "waiting", "held"} /\ readers \in Nat
    /\ \A c \in Callers : /\ caller[c].pc \in {"idle", "gate", "returned"}
                          /\ caller[c].ids \subseteq Nodes
    /\ pending \subseteq Keys /\ tried \subseteq Keys
    /\ giveUp \subseteq Nodes /\ orphaned \subseteq Nodes
    /\ seq \in 0..MaxEntries /\ retryMu \in 0..seq
    /\ \A i \in Entries : entries[i].targets \subseteq Keys /\ disk[i] \subseteq Keys

\* A probe taken in maintenance does not outlive the window it was taken in:
\* a run that the switch waits for records it before the switch clears it, and
\* no run classified before a switch records after it (recordResult,
\* ClearMaintenanceProbe, ClearProjectMaintenanceProbes).
ProbesOfThisWindow ==
    \A n \in Nodes : /\ probeResults[n] = "project" => project
                     /\ probeResults[n] = "node" => n \in paused

\* The latest result of a node is never replaced by a measurement that a
\* cancellation broke off, nor by one taken while the node or the project is in
\* maintenance (recordResult), whichever run, cancel and switch come together.
StoredIsMeasured ==
    [][\A n \in Nodes : results'[n] # results[n] =>
          \/ crashes' # crashes
          \/ MonitoringEnabled(n) /\ ~project /\ results'[n] = "real"]_vars

\* Whatever waits for its confirmation, something is on its way to settle it: a
\* timer, the goroutine that calls Run, a run asked for it, the report of that
\* run, or a switch that clears it (scheduleSpeedRetry, runSpeedRetry,
\* completeSpeedRetry).  Otherwise its later slow results would be withheld for
\* good.  The one exception is a confirmation run that was cancelled: it sends
\* no report, and what it was asked for waits until a restart (orphaned).
ConfirmationAlive ==
    \A k \in pending :
        \/ \E i \in Entries : k \in entries[i].armed /\ entries[i].timer \in {"armed", "fired"}
        \/ k \in tried \/ k[1] \in giveUp
        \/ run.on /\ run.source = Retry /\ k[1] \in run.ids
        \/ \E r \in reports : r.source = Retry /\ ~r.cancelled /\ k[1] \in r.ids
        \/ sw.kind = "project" /\ sw.pc = "clear"
        \/ k[1] \in orphaned

Saving == unsaved \/ saver.on \/ \E r \in reports : r.pc = "save"

\* Unless someone saves it or is about to, a confirmation that waits is on disk, so
\* a restart does not lose an alert that was held back for it (saveAlertState).
\* Not for a node that was switched meanwhile: a report that overtakes the
\* switch schedules its confirmation, which is not saved while it is paused.
WaitingIsSaved ==
    ~Saving => \A i \in Entries : \A k \in Persisted(entries, Watched)[i] :
                  k[1] \notin touched => k \in disk[i]

\* An operator's switch and a refresh come to an end, as the waits are placed
\* before the run gate so as not to block the Xray lifecycle (the comment at
\* AwaitIdleNodes in Manager.Run, PROJECT_CONTEXT.md:125).
SwitchesEnd == sw.pc # "idle" ~> sw.pc = "idle"

=============================================================================

---------------------------- MODULE Availability ----------------------------
(***************************************************************************)
(* How a probe of a node becomes a status, and a status becomes downtime   *)
(* and an incident: the check runs of checker.ProxyChecker, the node       *)
(* archive that accounts what they found, and the three workflows of       *)
(* main.go that change the ground under them (per-node maintenance,        *)
(* project maintenance, subscription refresh), which exclude the runs by   *)
(* the Xray lifecycle lock.  Archive accounting and Telegram's own host    *)
(* diagnostics take no such lock.                                          *)
(*                                                                         *)
(* Times are small numbers, 0 the zero time; latency, failure causes and   *)
(* history samples are left out.  The generation counter of the checker is *)
(* left out too: RunSeesOneConfiguration shows that it cannot change       *)
(* inside a run.                                                           *)
(***************************************************************************)
EXTENDS Naturals

CONSTANTS
    Nodes,          \* StableIDs
    AlwaysUp,       \* nodes whose host answers TCP whenever it is asked
    MaxRuns,        \* bound: check runs asked for
    MaxEvents       \* bound: everything asked for, by the clock or by an operator

ASSUME NodesAssumption == AlwaysUp \subseteq Nodes

ASSUME BoundsAssumption == MaxRuns \in Nat /\ MaxEvents \in Nat

Runs == {"iteration", "recovery", "admin"}
Writers == {"maintenance", "project", "refresh"}
None == "none"
States == {"none", "online", "proxy_failure", "offline"}
Modes == {"live", "paused", "project"}

VARIABLES
    \* main.go
    project,        \* projectMaintenance.Enabled()
    lock,           \* xrayLifecycle
    at,             \* where the writer is under the lock
    arg,            \* what the writer at work was asked for
    events,         \* what was asked for so far
    \* checker.ProxyChecker
    proxies,
    maintenance,    \* the paused nodes
    checkerProject, \* the checker's copy of the project flag
    panel,          \* nodes of a source added from the panel
    unaccounted,    \* nodes whose source accounts no availability
    status,         \* node -> ProxyStatusDetails
    pc,             \* run -> where the run is
    request,        \* run -> [nodes, allow]: what it was asked for
    began,          \* run -> project maintenance was on when it was asked for
    cancelled,      \* runs whose context is cancelled
    completed,      \* runs that leave their caller something to account
    activeRun,
    work,           \* node -> what the active run has still to do with it
    mode,           \* the mode of every node when the active run began
    started,        \* runs asked for so far
    diag,           \* Telegram's RefreshHostDiagnosticsByStableID
    \* nodearchive.Store
    list,           \* run -> the proxies RecordAvailability has read
    record,         \* node -> NodeRecord
    incidents       \* nodes with an active incident

lifecycle == <<project, lock, at, arg>>
control == <<lifecycle, events>>
sources == <<panel, unaccounted>>
ground == <<proxies, maintenance, checkerProject, sources>>
running == <<pc, request, began, cancelled, completed, activeRun, work, mode, started>>
archive == <<record, incidents>>
vars == <<control, ground, status, running, diag, list, archive>>

Time == 0..MaxRuns + 1

\* The clock: it moves on whenever a run is asked for.
now == started + 1

NoStatus == [state |-> "none", down |-> 0, proxyFailure |-> 0, failing |-> 0, mode |-> "live"]

TypeOK ==
    /\ project \in BOOLEAN /\ checkerProject \in BOOLEAN
    /\ lock \in [readers : SUBSET Runs, pending : Writers \cup {None}, writing : BOOLEAN]
    /\ at \in {None, "set", "checker", "account", "clear", "pause", "update", "sync", "modes"}
    /\ lock.writing = (at # None)
    /\ lock.readers = {r \in Runs : pc[r] \in {"gated", "active"}}
    /\ arg \in [nodes : SUBSET Nodes, on : BOOLEAN]
    /\ events \in 0..MaxEvents /\ started \in 0..MaxRuns
    /\ proxies \subseteq Nodes /\ maintenance \subseteq Nodes
    /\ panel \subseteq Nodes /\ unaccounted \subseteq panel
    /\ status \in [Nodes -> [state : States, down : Time, proxyFailure : Time,
                             failing : Time, mode : Modes]]
    /\ pc \in [Runs -> {"idle", "queued", "blocked", "gated", "active", "returned", "recording"}]
    /\ request \in [Runs -> [nodes : SUBSET Nodes, allow : BOOLEAN]]
    /\ began \subseteq Runs /\ cancelled \subseteq Runs /\ completed \subseteq Runs
    /\ activeRun \in Runs \cup {None}
    /\ work \in [Nodes -> {"none", "host", "ready", "probe", "diagnose"}]
    /\ mode \in [Nodes -> Modes]
    /\ diag \in [node : Nodes \cup {None}, ctx : Runs \cup {None}, dead : BOOLEAN]
    /\ list \in [Runs -> SUBSET Nodes]
    /\ record \in [Nodes -> [active : BOOLEAN, maint : BOOLEAN, down : Time, proxyFailure : Time]]
    /\ incidents \subseteq Nodes

-----------------------------------------------------------------------------
(* Statuses. *)

Failing(s) == s.state \in {"proxy_failure", "offline"}
MonitoringEnabled(n) == n \notin maintenance
AvailabilityAccounted(n) == MonitoringEnabled(n) /\ n \notin unaccounted

\* What the mode of a status must be.
Mode(n) == IF checkerProject THEN "project" ELSE IF n \in maintenance THEN "paused" ELSE "live"

\* The outcomes of tcpCheckHost and pingHost: TCP answers, only the ping does,
\* neither does.  A context that ends early makes both report a failure.
Diagnostics(n, interrupted) ==
    IF n \in AlwaysUp /\ ~interrupted THEN {"tcp"} ELSE {"tcp", "ping", "down"}

classifyAvailabilityState(online, d) ==
    IF online THEN "online" ELSE IF d = "down" THEN "offline" ELSE "proxy_failure"

ServiceFailureSince(s) ==
    IF ~Failing(s) THEN 0
    ELSE IF s.failing # 0 THEN s.failing
    ELSE IF s.state = "proxy_failure" THEN s.proxyFailure
    ELSE s.down

\* Mutant: the failure clock restarts with every reclassification.
StoredRestarting(previous, online, d, m) ==
    LET state == IF ~online /\ d = None /\ previous.state = "offline"
                 THEN "offline" ELSE classifyAvailabilityState(online, d)
        Kept(timer, s) == IF state # s THEN 0
                          ELSE IF previous.state = s /\ timer # 0 THEN timer ELSE now
    IN [state |-> state,
        down |-> Kept(previous.down, "offline"),
        proxyFailure |-> Kept(previous.proxyFailure, "proxy_failure"),
        failing |-> IF online THEN 0
                    ELSE IF previous.state = state THEN ServiceFailureSince(previous) ELSE now,
        mode |-> m]

(***************************************************************************)
(* storeStatusDetailsLockedMode: the status that replaces previous.  d is  *)
(* None while no host diagnostics were made; a failure then leaves an      *)
(* offline node offline.                                                   *)
(***************************************************************************)
Stored(previous, online, d, m) ==
    LET state == IF ~online /\ d = None /\ previous.state = "offline"
                 THEN "offline" ELSE classifyAvailabilityState(online, d)
        Kept(timer, s) == IF state # s THEN 0
                          ELSE IF previous.state = s /\ timer # 0 THEN timer ELSE now
    IN [state |-> state,
        down |-> Kept(previous.down, "offline"),
        proxyFailure |-> Kept(previous.proxyFailure, "proxy_failure"),
        failing |-> IF online THEN 0
                    ELSE IF Failing(previous) THEN ServiceFailureSince(previous) ELSE now,
        mode |-> m]

\* Mutant: the timer of the state that was left keeps running.
DiagnosedKeepingTimers(s, d) ==
    IF ~Failing(s) THEN s
    ELSE LET state == classifyAvailabilityState(FALSE, d)
             Since(t) == IF t = 0 THEN now ELSE t
         IN [s EXCEPT !.state = state,
                      !.down = IF state = "offline" THEN Since(@) ELSE @,
                      !.proxyFailure = IF state = "offline" THEN @ ELSE Since(@)]

\* storeOfflineDiagnostics: the diagnostics of a failed check reclassify it.
Diagnosed(s, d) ==
    IF ~Failing(s) THEN s
    ELSE LET state == classifyAvailabilityState(FALSE, d)
             Since(t) == IF t = 0 THEN now ELSE t
         IN [s EXCEPT !.state = state,
                      !.down = IF state = "offline" THEN Since(@) ELSE 0,
                      !.proxyFailure = IF state = "offline" THEN 0 ELSE Since(@)]

-----------------------------------------------------------------------------
(* The node archive. *)

Closed(r) == [r EXCEPT !.down = 0, !.proxyFailure = 0]

Opened(r, s) ==
    CASE s.state = "proxy_failure" ->
           [r EXCEPT !.down = 0, !.proxyFailure = IF @ = 0 THEN s.proxyFailure ELSE @]
      [] s.state = "offline" ->
           [r EXCEPT !.proxyFailure = 0, !.down = IF @ = 0 THEN s.down ELSE @]
      [] s.state = "online" -> Closed(r)
      [] OTHER -> r

\* GetProxyStatusDetailsByStableID: the status, if the node is monitored.
Visible(n) == IF n \in proxies /\ MonitoringEnabled(n) THEN status[n] ELSE NoStatus

\* Mutant: only the checker's own flag is asked whether a node is paused.
AccountsByChecker(n) == AvailabilityAccounted(n)

\* recordAvailability accounts a node unless it is paused or unwatched.
Accounts(n) == ~record[n].maint /\ AvailabilityAccounted(n)

\* recordAvailability over the proxies it has read before it took its lock.
RecordAvailability(read) ==
    /\ record' = [n \in Nodes |->
           IF n \in read
           THEN LET r == [record[n] EXCEPT !.active = TRUE]
                IN IF Accounts(n) THEN Opened(r, Visible(n)) ELSE Closed(r)
           ELSE IF record[n].active THEN [Closed(record[n]) EXCEPT !.active = FALSE]
           ELSE record[n]]
    /\ incidents' =
           (incidents \ {n \in read : \/ ~Accounts(n)
                                      \/ n \in panel
                                      \/ Visible(n).state \in {"online", "proxy_failure"}})
           \cup {n \in read \ panel : Accounts(n) /\ Visible(n).state = "offline"}

-----------------------------------------------------------------------------
(***************************************************************************)
(* Startup has synchronised the archive, and Telegram's state, which knows *)
(* the deployment's own nodes only, may have restored true failures, that  *)
(* ReconcileAvailabilityState accounts.                                    *)
(***************************************************************************)
Restored == {NoStatus, Stored(NoStatus, FALSE, "down", "live"),
             Stored(NoStatus, FALSE, "tcp", "live")}

Init ==
    /\ project = FALSE /\ checkerProject = FALSE
    /\ lock = [readers |-> {}, pending |-> None, writing |-> FALSE]
    /\ at = None
    /\ arg = [nodes |-> {}, on |-> FALSE]
    /\ events = 0 /\ started = 0
    /\ proxies = Nodes /\ maintenance = {}
    /\ panel \in SUBSET Nodes /\ unaccounted \in SUBSET panel
    /\ status \in [Nodes -> Restored]
    /\ \A n \in AlwaysUp : status[n].state # "offline"
    /\ \A n \in panel : status[n] = NoStatus
    /\ pc = [r \in Runs |-> "idle"]
    /\ request = [r \in Runs |-> [nodes |-> {}, allow |-> FALSE]]
    /\ began = {} /\ cancelled = {} /\ completed = {}
    /\ activeRun = None
    /\ work = [n \in Nodes |-> "none"]
    /\ mode = [n \in Nodes |-> "live"]
    /\ diag = [node |-> None, ctx |-> None, dead |-> FALSE]
    /\ list = [r \in Runs |-> {}]
    /\ record = [n \in Nodes |->
           Opened([active |-> TRUE, maint |-> FALSE, down |-> 0, proxyFailure |-> 0], status[n])]
    /\ incidents = {n \in Nodes : status[n].state = "offline"}

-----------------------------------------------------------------------------
\* Something is asked of the service.
Asked == events < MaxEvents /\ events' = events + 1

(* Check runs: withCheckRun and the callers in main.go. *)

Registered(r) == pc[r] \in {"queued", "blocked", "gated", "active"}

\* A run is asked for and registered; the automatic ones respect the project flag.
Start(r, nodes, allow) ==
    /\ pc[r] = "idle"
    /\ r # "admin" => ~project
    /\ (r = "admin") = (nodes # {})
    /\ allow => r = "admin"
    /\ pc' = [pc EXCEPT ![r] = "queued"]
    /\ request' = [request EXCEPT ![r] = [nodes |-> nodes, allow |-> allow]]
    /\ Asked
    /\ started < MaxRuns
    /\ started' = started + 1
    /\ began' = IF project THEN began \cup {r} ELSE began
    /\ UNCHANGED <<lifecycle, ground, status, cancelled, completed, activeRun, work,
                   mode, diag, list, archive>>

\* Mutant: a run does not take the gate.
TakeGateFreely(r) ==
    /\ pc[r] = "queued"
    /\ pc' = [pc EXCEPT ![r] = "gated"]
    /\ UNCHANGED <<control, ground, status, request, began, cancelled, completed,
                   activeRun, work, mode, started, diag, list, archive>>

\* RLock of the gate: a writer that waits already holds new readers back.
TakeGate(r) ==
    /\ pc[r] = "queued"
    /\ IF lock.pending = None
       THEN /\ lock' = [lock EXCEPT !.readers = @ \cup {r}]
            /\ pc' = [pc EXCEPT ![r] = "gated"]
       ELSE /\ pc' = [pc EXCEPT ![r] = "blocked"]
            /\ UNCHANGED lock
    /\ UNCHANGED <<project, at, arg, events, ground, status, request, began,
                   cancelled, completed, activeRun, work, mode, started, diag, list, archive>>

\* releaseRun ends the run's context, whoever has borrowed it.
Ended(r) == diag' = [diag EXCEPT !.dead = @ \/ diag.ctx = r]

\* The gate is released and the run returns to its caller.
Return(r, ok) ==
    /\ lock' = [lock EXCEPT !.readers = @ \ {r}]
    /\ pc' = [pc EXCEPT ![r] = "returned"]
    /\ request' = [request EXCEPT ![r] = [nodes |-> {}, allow |-> FALSE]]
    /\ cancelled' = cancelled \ {r}
    /\ completed' = IF ok THEN completed \cup {r} ELSE completed
    /\ Ended(r)

\* ErrEnabled: an automatic run queued before the project was paused.
Refuse(r) ==
    /\ pc[r] = "gated"
    /\ checkerProject /\ ~request[r].allow
    /\ Return(r, FALSE)
    /\ UNCHANGED <<project, at, arg, events, ground, status, began,
                   activeRun, work, mode, started, list, archive>>

\* The nodes of a run and what it begins with on each: nil when it is refused.
WorkOf(r) ==
    [n \in Nodes |->
        CASE r = "iteration" /\ n \in proxies -> "probe"
          [] r = "recovery" /\ n \in proxies \ maintenance /\ Failing(status[n]) -> "host"
          [] r = "admin" /\ n \in request[r].nodes ->
                 IF Failing(status[n]) THEN "host" ELSE "ready"
          [] OTHER -> "none"]

\* availabilityCheckCandidates rejects unknown nodes, and paused ones unless allowed.
Rejected(r) ==
    \/ ~ request[r].nodes \subseteq proxies
    \/ ~request[r].allow /\ request[r].nodes \cap maintenance # {}

\* checkMu is taken: the run becomes the active one and picks its candidates.
Begin(r) ==
    /\ pc[r] = "gated"
    /\ request[r].allow \/ ~checkerProject
    /\ activeRun = None
    /\ IF r \in cancelled \/ Rejected(r)
       THEN /\ Return(r, FALSE)
            /\ UNCHANGED <<activeRun, work, mode>>
       ELSE /\ activeRun' = r
            /\ pc' = [pc EXCEPT ![r] = "active"]
            /\ work' = WorkOf(r)
            /\ mode' = [n \in Nodes |-> Mode(n)]
            /\ completed' = IF r = "recovery" /\ \E n \in Nodes : WorkOf(r)[n] # "none"
                            THEN completed \cup {r} ELSE completed
            /\ UNCHANGED <<lock, diag, request, cancelled>>
    /\ UNCHANGED <<project, at, arg, events, ground, status, began,
                   started, list, archive>>

Interrupted == activeRun \in cancelled

\* The active run leaves its work on nodes and stores what it found.
Progress(n, next, s) ==
    /\ work' = [work EXCEPT ![n] = next]
    /\ status' = [status EXCEPT ![n] = s]
    /\ UNCHANGED <<control, ground, pc, request, began, cancelled, completed,
                   activeRun, mode, started, diag, list, archive>>

\* checkAvailabilityCandidates, first phase: TCP and ping of a failing node.
HostCheck(n) ==
    /\ work[n] = "host"
    /\ IF Interrupted
       THEN Progress(n, "none", status[n])
       ELSE \E d \in Diagnostics(n, FALSE) :
              Progress(n, IF d = "tcp" THEN "ready" ELSE "none",
                       Stored(status[n], FALSE, d, mode[n]))

\* Second phase: the nodes that answered, and those that were not failing.
ProbePhase ==
    /\ activeRun # None
    /\ \A n \in Nodes : work[n] \in {"none", "ready"}
    /\ \E n \in Nodes : work[n] = "ready"
    /\ work' = [n \in Nodes |-> IF work[n] = "ready" /\ ~Interrupted THEN "probe" ELSE "none"]
    /\ UNCHANGED <<control, ground, status, pc, request, began, cancelled, completed,
                   activeRun, mode, started, diag, list, archive>>

\* checkProxyInternal: the proxy check itself; an aborted one is no verdict.
Probe(n) ==
    /\ work[n] = "probe"
    /\ IF Interrupted
       THEN Progress(n, "none", status[n])
       ELSE \/ Progress(n, "none", Stored(status[n], TRUE, None, mode[n]))
            \/ Progress(n, "diagnose", Stored(status[n], FALSE, None, mode[n]))

\* The diagnostics of a failed check, stored whether or not they were aborted.
Diagnose(n) ==
    /\ work[n] = "diagnose"
    /\ \E d \in Diagnostics(n, Interrupted) :
           Progress(n, "none", Diagnosed(status[n], d))

\* The run is over; GetCurrentIP may have failed it before the probes.
Finish ==
    /\ activeRun # None
    /\ \A n \in Nodes : work[n] = "none"
    /\ activeRun' = None
    /\ mode' = [n \in Nodes |-> "live"]
    /\ Return(activeRun, activeRun # "recovery" /\ ~Interrupted)
    /\ UNCHANGED <<project, at, arg, events, ground, status, began,
                   work, started, list, archive>>

NoCurrentIP ==
    /\ activeRun # None
    /\ \E n \in Nodes : work[n] # "none"
    /\ \A n \in Nodes : work[n] \in {"none", IF activeRun = "iteration" THEN "probe" ELSE "ready"}
    /\ activeRun = "iteration" => \A n \in proxies : work[n] = "probe"
    /\ work' = [n \in Nodes |-> "none"]
    /\ activeRun' = None
    /\ mode' = [n \in Nodes |-> "live"]
    /\ Return(activeRun, FALSE)
    /\ UNCHANGED <<project, at, arg, events, ground, status, began,
                   started, list, archive>>

(***************************************************************************)
(* Back in main.go: a failed run, and one that touched a project window,   *)
(* is not accounted; the recovery loop accounts whenever it had nodes to   *)
(* look at, even if it was cancelled.                                      *)
(***************************************************************************)
Accountable(r) ==
    r \in completed /\ (r # "recovery" => r \notin began /\ ~project)

AfterRun(r) ==
    /\ pc[r] = "returned"
    /\ IF Accountable(r)
       THEN /\ pc' = [pc EXCEPT ![r] = "recording"]
            /\ list' = [list EXCEPT ![r] = proxies]
       ELSE /\ pc' = [pc EXCEPT ![r] = "idle"]
            /\ UNCHANGED list
    /\ began' = began \ {r}
    /\ completed' = completed \ {r}
    /\ UNCHANGED <<control, ground, status, request, cancelled,
                   activeRun, work, mode, started, diag, archive>>

Record(r) ==
    /\ pc[r] = "recording"
    /\ RecordAvailability(list[r])
    /\ pc' = [pc EXCEPT ![r] = "idle"]
    /\ list' = [list EXCEPT ![r] = {}]
    /\ UNCHANGED <<control, ground, status, request, began, cancelled, completed,
                   activeRun, work, mode, started, diag>>

\* CancelCheck: every registered run, the queued ones included.
CancelCheck ==
    /\ Asked
    /\ \E r \in Runs : Registered(r)
    /\ cancelled' = cancelled \cup {r \in Runs : Registered(r)}
    /\ diag' = [diag EXCEPT !.dead = @ \/ (diag.ctx # None /\ Registered(diag.ctx))]
    /\ UNCHANGED <<lifecycle, ground, status, pc, request, began, completed,
                   activeRun, work, mode, started, list, archive>>

-----------------------------------------------------------------------------
(* Telegram's own diagnostics of a failing node: outside the gate, in the  *)
(* context of whichever run is active.  They reclassify a failure that a   *)
(* check has found, in whose mode the status stays.                        *)

RefreshBegins(n) ==
    /\ diag.node = None
    /\ n \in proxies \ panel /\ MonitoringEnabled(n)
    /\ Failing(status[n])
    /\ Asked
    /\ diag' = [node |-> n, ctx |-> activeRun, dead |-> activeRun \in cancelled]
    /\ UNCHANGED <<lifecycle, ground, status, running, list, archive>>

RefreshEnds ==
    /\ diag.node # None
    /\ LET n == diag.node IN
       \E d \in Diagnostics(n, diag.dead) :
         status' = IF Failing(status[n]) /\ MonitoringEnabled(n)
                   THEN [status EXCEPT ![n] = Stored(@, FALSE, d, @.mode)]
                   ELSE status
    /\ diag' = [node |-> None, ctx |-> None, dead |-> FALSE]
    /\ UNCHANGED <<control, ground, running, list, archive>>

-----------------------------------------------------------------------------
(* The writers of the lifecycle lock. *)

\* Lock: from now on new readers wait.
Announce(w) ==
    /\ lock.pending = None
    /\ Asked
    /\ lock' = [lock EXCEPT !.pending = w]
    /\ UNCHANGED <<project, at, arg, ground, status, running, diag, list, archive>>

\* Mutant: the writer does not wait for the readers.
EnterAtOnce(w, nodes, on) ==
    /\ lock.pending = w /\ ~lock.writing
    /\ w = "maintenance" => \E n \in Nodes : nodes = {n}
    /\ w = "project" => nodes = {} /\ ~on
    /\ lock' = [lock EXCEPT !.writing = TRUE]
    /\ arg' = [nodes |-> nodes, on |-> on]
    /\ at' = IF w = "refresh" THEN "update" ELSE "set"
    /\ UNCHANGED <<project, events, ground, status, running, diag, list, archive>>

\* The readers are gone: the writer sets to work on what it was asked for.
Enter(w, nodes, on) ==
    /\ lock.pending = w /\ ~lock.writing
    /\ w = "maintenance" => \E n \in Nodes : nodes = {n}
    /\ w = "project" => nodes = {} /\ ~on
    /\ lock.readers = {}
    /\ lock' = [lock EXCEPT !.writing = TRUE]
    /\ arg' = [nodes |-> nodes, on |-> on]
    /\ at' = IF w = "refresh" THEN "update" ELSE "set"
    /\ UNCHANGED <<project, events, ground, status, running, diag, list, archive>>

\* Unlock lets in every reader that waits.
Unlock ==
    /\ at' = None
    /\ arg' = [nodes |-> {}, on |-> FALSE]
    /\ lock' = [readers |-> {r \in Runs : pc[r] = "blocked"}, pending |-> None, writing |-> FALSE]
    /\ pc' = [r \in Runs |-> IF pc[r] = "blocked" THEN "gated" ELSE pc[r]]

\* The writer goes on to its next step.
Goto(step) == at' = step /\ UNCHANGED <<lock, arg, pc>>

rest == <<events, request, began, cancelled, completed, activeRun, work, mode,
          started, diag, list>>

\* Store.SetMaintenance: the archive first; it may refuse, or fail to save.
SetMaintenanceRefused ==
    /\ lock.pending = "maintenance" /\ at = "set"
    /\ Unlock
    /\ UNCHANGED <<rest, project, ground, status, archive>>

SetMaintenance(n) ==
    /\ lock.pending = "maintenance" /\ at = "set"
    /\ arg.nodes = {n} /\ n \in proxies
    /\ record[n].active
    /\ LET r == [record[n] EXCEPT !.maint = arg.on] IN
       IF record[n].maint = arg.on
       THEN UNCHANGED archive
       ELSE /\ record' = [record EXCEPT ![n] = IF arg.on THEN Closed(r) ELSE r]
            /\ incidents' = IF arg.on THEN incidents \ {n} ELSE incidents
    /\ Goto("checker")
    /\ UNCHANGED <<rest, project, ground, status>>

\* Mutant: switching the flag keeps the status.
SwitchKeepingStatus(paused) ==
    /\ maintenance' = paused
    /\ UNCHANGED status

\* setMaintenanceModeLocked on the nodes whose flag changes.
SwitchMaintenance(paused) ==
    /\ maintenance' = paused
    /\ status' = [n \in Nodes |-> IF (n \in paused) # (n \in maintenance)
                                  THEN NoStatus ELSE status[n]]

SetMaintenanceMode ==
    /\ at = "checker"
    /\ SwitchMaintenance(IF arg.on THEN maintenance \cup arg.nodes ELSE maintenance \ arg.nodes)
    /\ Goto("account")
    /\ UNCHANGED <<rest, project, proxies, checkerProject, sources, archive>>

\* The registry is reconciled before the lock is released.
AccountMaintenance ==
    /\ at = "account"
    /\ RecordAvailability(proxies)
    /\ Unlock
    /\ UNCHANGED <<rest, project, ground, status>>

\* setProjectMaintenance: the persisted flag, or an error when it cannot be written.
SetProject ==
    /\ lock.pending = "project" /\ at = "set"
    /\ project' = ~project
    /\ Goto("clear")
    /\ UNCHANGED <<rest, ground, status, archive>>

SetProjectFails ==
    /\ lock.pending = "project" /\ at = "set"
    /\ Unlock
    /\ UNCHANGED <<rest, project, ground, status, archive>>

\* The checker's flag and ClearProjectMonitoringState, on both sides of the window.
ClearProject ==
    /\ at = "clear"
    /\ checkerProject' = project
    /\ status' = [n \in Nodes |-> IF n \in proxies THEN NoStatus ELSE status[n]]
    /\ IF project THEN Goto("pause") ELSE Unlock
    /\ UNCHANGED <<rest, project, proxies, maintenance, sources, archive>>

\* PauseProjectMonitoring closes the accounting; unsaved, it is left as it was.
PauseProject ==
    /\ at = "pause"
    /\ \/ /\ record' = [n \in Nodes |-> IF record[n].active THEN Closed(record[n]) ELSE record[n]]
          /\ incidents' = {}
       \/ UNCHANGED archive
    /\ Unlock
    /\ UNCHANGED <<rest, project, ground, status>>

\* Mutant: an early return that does not release the lock.
RefreshFailsLocked ==
    /\ at = "update"
    /\ at' = None
    /\ UNCHANGED <<lock, arg, pc, rest, project, ground, status, archive>>

\* refreshSubscription gives up: project maintenance began, or Xray did not restart.
RefreshFails ==
    /\ at = "update"
    /\ Unlock
    /\ UNCHANGED <<rest, project, ground, status, archive>>

\* UpdateProxies; arg.on is a manual refresh, which project maintenance allows.
UpdateProxies ==
    /\ at = "update"
    /\ arg.on \/ ~project
    /\ arg.nodes = {} => arg.on
    /\ proxies' = arg.nodes
    /\ maintenance' = maintenance \cap arg.nodes
    /\ status' = [n \in Nodes |-> IF n \in arg.nodes THEN status[n] ELSE NoStatus]
    /\ Goto("sync")
    /\ UNCHANGED <<rest, project, checkerProject, sources, archive>>

\* Mutant: a node that leaves keeps its downtime open.
SyncProxiesKeepingDowntime ==
    /\ at = "sync"
    /\ record' = [n \in Nodes |-> [record[n] EXCEPT !.active = n \in proxies]]
    /\ incidents' = incidents \ {n \in Nodes \ proxies : record[n].active}
    /\ Goto("modes")
    /\ UNCHANGED <<rest, project, ground, status>>

\* SyncProxies: nodes come and go in the archive, closing what is open.
SyncProxies ==
    /\ at = "sync"
    /\ record' = [n \in Nodes |->
           IF n \in proxies THEN [record[n] EXCEPT !.active = TRUE]
           ELSE IF record[n].active THEN [Closed(record[n]) EXCEPT !.active = FALSE]
           ELSE record[n]]
    /\ incidents' = incidents \ {n \in Nodes \ proxies : record[n].active}
    /\ Goto("modes")
    /\ UNCHANGED <<rest, project, ground, status>>

\* ReplaceMaintenanceModes(ActiveMaintenanceStableIDs()).
ReplaceMaintenanceModes ==
    /\ at = "modes"
    /\ SwitchMaintenance({n \in Nodes : record[n].active /\ record[n].maint})
    /\ Unlock
    /\ UNCHANGED <<rest, project, proxies, checkerProject, sources, archive>>

\* SetSourcePolicies: the operator watches a panel source, or stops; no lock.
SetSourcePolicies(nodes) ==
    /\ Asked
    /\ unaccounted # nodes
    /\ unaccounted' = nodes
    /\ UNCHANGED <<lifecycle, panel, proxies, maintenance, checkerProject, status, running,
                   diag, list, archive>>

-----------------------------------------------------------------------------
RunStep ==
    \/ \E r \in Runs : TakeGate(r) \/ Refuse(r) \/ Begin(r) \/ AfterRun(r) \/ Record(r)
    \/ \E n \in Nodes : HostCheck(n) \/ Probe(n) \/ Diagnose(n)
    \/ ProbePhase
    \/ Finish
    \/ NoCurrentIP

WriterStep ==
    \/ \E w \in Writers, nodes \in SUBSET Nodes, on \in BOOLEAN : Enter(w, nodes, on)
    \/ SetMaintenanceRefused
    \/ \E n \in Nodes : SetMaintenance(n)
    \/ SetMaintenanceMode
    \/ AccountMaintenance
    \/ SetProject
    \/ SetProjectFails
    \/ ClearProject
    \/ PauseProject
    \/ RefreshFails
    \/ UpdateProxies
    \/ SyncProxies
    \/ ReplaceMaintenanceModes

Environment ==
    \/ \E r \in Runs, nodes \in SUBSET Nodes, allow \in BOOLEAN : Start(r, nodes, allow)
    \/ CancelCheck
    \/ \E n \in Nodes : RefreshBegins(n)
    \/ RefreshEnds
    \/ \E w \in Writers : Announce(w)
    \/ \E nodes \in SUBSET panel : SetSourcePolicies(nodes)

\* Nothing is under way and nothing more is asked for.
Quiet ==
    /\ \A r \in Runs : pc[r] = "idle"
    /\ lock.pending = None /\ diag.node = None
    /\ UNCHANGED vars

Next == RunStep \/ WriterStep \/ Environment \/ Quiet

Spec == Init /\ [][Next]_vars

-----------------------------------------------------------------------------
(* What must hold. *)

(***************************************************************************)
(* PROJECT_CONTEXT.md: a check under way cannot cross the boundary of a    *)
(* mode.  Whenever no writer is at work, the status of a node comes from a *)
(* check made in the mode the node is in now: a status found before a      *)
(* pause, inside a project window or before it never outlives the switch.  *)
(***************************************************************************)
ModeBoundary ==
    ~lock.writing => \A n \in Nodes : status[n].state # "none" => status[n].mode = Mode(n)

(***************************************************************************)
(* A run checks one configuration: the proxies and the paused nodes do not *)
(* change between Begin and Finish, so that the generation a run compares  *)
(* with never differs.                                                     *)
(***************************************************************************)
RunSeesOneConfiguration ==
    [][activeRun # None => UNCHANGED <<proxies, maintenance, checkerProject>>]_vars

(***************************************************************************)
(* DownSince runs exactly while a node is offline, ProxyFailureSince       *)
(* exactly while it is in proxy_failure, FailingSince in both, whichever   *)
(* of the three writers of a status was last.                              *)
(***************************************************************************)
TimersMatchState ==
    \A n \in Nodes :
        /\ (status[n].down # 0) = (status[n].state = "offline")
        /\ (status[n].proxyFailure # 0) = (status[n].state = "proxy_failure")
        /\ (status[n].failing # 0) = Failing(status[n])

(***************************************************************************)
(* ServiceFailureSince, which Remnawave announces by, never moves while a  *)
(* node keeps failing, however often it is reclassified.                   *)
(***************************************************************************)
FailureClockKept ==
    [][\A n \in Nodes : Failing(status[n]) /\ Failing(status'[n])
           => ServiceFailureSince(status'[n]) = ServiceFailureSince(status[n])]_vars

(***************************************************************************)
(* A node the operator has paused has no open downtime, no open proxy      *)
(* failure and no active incident, whatever checks and accounting passes   *)
(* are in flight while it leaves and comes back.                           *)
(***************************************************************************)
PausedNotAccounted ==
    \A n \in Nodes : record[n].maint => record[n] = Closed(record[n]) /\ n \notin incidents

(***************************************************************************)
(* The registry agrees with the journal: a node of the deployment's own    *)
(* with open downtime has an active incident, downtime and proxy failure   *)
(* are never both open, and a retired node has neither.                    *)
(***************************************************************************)
AccountingAgrees ==
    \A n \in Nodes :
        /\ record[n].down # 0 => n \in incidents \cup panel /\ record[n].proxyFailure = 0
        /\ ~record[n].active => record[n] = Closed(record[n])

(***************************************************************************)
(* PROJECT_CONTEXT.md: offline means that the proxy check, TCP and ping    *)
(* have all failed.  A node whose host answers TCP at all times is never   *)
(* found offline.                                                          *)
(***************************************************************************)
OfflineMeansNoAnswer == \A n \in AlwaysUp : status[n].state # "offline"
=============================================================================

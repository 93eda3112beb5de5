------------------------ MODULE AvailabilityProofs -------------------------
(***************************************************************************)
(* Proofs about availability, for any set of nodes and any number of runs  *)
(* and requests.                                                           *)
(***************************************************************************)
EXTENDS Availability, TLAPS

StatusRecord == [state : States, down : Time, proxyFailure : Time, failing : Time, mode : Modes]
ArchiveRecord == [active : BOOLEAN, maint : BOOLEAN, down : Time, proxyFailure : Time]

\* TypeOK by parts.
ControlTyped ==
    /\ project \in BOOLEAN
    /\ lock \in [readers : SUBSET Runs, pending : Writers \cup {None}, writing : BOOLEAN]
    /\ at \in {None, "set", "checker", "account", "clear", "pause", "update", "sync", "modes"}
    /\ arg \in [nodes : SUBSET Nodes, on : BOOLEAN]
    /\ events \in 0..MaxEvents
    /\ started \in 0..MaxRuns

GroundTyped ==
    /\ checkerProject \in BOOLEAN
    /\ proxies \subseteq Nodes /\ maintenance \subseteq Nodes
    /\ panel \subseteq Nodes /\ unaccounted \subseteq panel

RunsTyped ==
    /\ pc \in [Runs -> {"idle", "queued", "blocked", "gated", "active", "returned", "recording"}]
    /\ request \in [Runs -> [nodes : SUBSET Nodes, allow : BOOLEAN]]
    /\ began \subseteq Runs /\ cancelled \subseteq Runs /\ completed \subseteq Runs
    /\ activeRun \in Runs \cup {None}
    /\ work \in [Nodes -> {"none", "host", "ready", "probe", "diagnose"}]
    /\ mode \in [Nodes -> Modes]
    /\ diag \in [node : Nodes \cup {None}, ctx : Runs \cup {None}, dead : BOOLEAN]
    /\ list \in [Runs -> SUBSET Nodes]

ArchiveTyped == record \in [Nodes -> ArchiveRecord] /\ incidents \subseteq Nodes

StatusTyped == status \in [Nodes -> StatusRecord]

\* The lifecycle lock: its readers are the runs past the gate, a writer at
\* work is alone, and checkMu lets one run be active.
LockShape ==
    /\ lock.writing = (at # None)
    /\ lock.readers = {r \in Runs : pc[r] \in {"gated", "active"}}
    /\ lock.writing => lock.readers = {} /\ lock.pending # None

OneActiveRun ==
    /\ activeRun # None => pc[activeRun] = "active"
    /\ \A r \in Runs : pc[r] = "active" => activeRun = r

\* Only the active run works, on nodes there are, in the mode they are in.
WorkIsCurrent ==
    /\ \A n \in Nodes : work[n] # "none" => activeRun # None /\ n \in proxies
    /\ activeRun # None => \A n \in Nodes : mode[n] = Mode(n)

\* The lock, the runs and the ground they stand on.
GateInv ==
    /\ ControlTyped /\ GroundTyped /\ RunsTyped
    /\ LockShape /\ OneActiveRun /\ WorkIsCurrent

\* Each timer of a status runs exactly in its state.
Timed(s) ==
    /\ s.down # 0 <=> s.state = "offline"
    /\ s.proxyFailure # 0 <=> s.state = "proxy_failure"
    /\ s.failing # 0 <=> Failing(s)

\* ModeBoundary even while a writer is at work: every step that changes the
\* mode of a node also takes its status.
Current(n, s) == s.state # "none" => n \in proxies /\ s.mode = Mode(n)

StatusInv == StatusTyped /\ \A n \in Nodes : Timed(status[n]) /\ Current(n, status[n])

\* A record with nothing open.
NothingOpen(r) == r.down = 0 /\ r.proxyFailure = 0

\* What is true of one record, its incident and its source.
Accounted(r, incident, own) ==
    /\ r.maint => NothingOpen(r) /\ ~incident
    /\ r.down # 0 => (incident \/ ~own) /\ r.proxyFailure = 0
    /\ ~r.active => NothingOpen(r)

ArchiveInv ==
    /\ ArchiveTyped
    /\ \A n \in Nodes : Accounted(record[n], n \in incidents, n \notin panel)

\* The inductive invariant.
AvailabilityInv == GateInv /\ StatusInv /\ ArchiveInv

-----------------------------------------------------------------------------
(* Statuses. *)

\* s follows p in a failure that goes on.
SameFailure(p, s) ==
    Failing(p) /\ Failing(s) => ServiceFailureSince(s) = ServiceFailureSince(p)

Verdicts == {"tcp", "ping", "down", None}

\* The clock is running.
LEMMA NowFacts ==
    ASSUME ControlTyped
    PROVE  now \in Time /\ now # 0
BY BoundsAssumption DEF ControlTyped, now, Time

\* No status there is runs no timer.
LEMMA NoStatusFacts == NoStatus \in StatusRecord /\ Timed(NoStatus) /\ ~Failing(NoStatus)
BY BoundsAssumption DEF NoStatus, StatusRecord, States, Modes, Time, Timed, Failing

\* The failure clock of a timed status is FailingSince.
LEMMA FailureClock ==
    ASSUME NEW s, Failing(s), s.failing # 0
    PROVE  ServiceFailureSince(s) = s.failing
BY DEF ServiceFailureSince, Failing

\* storeStatusDetailsLockedMode starts the timer of the new state, and keeps
\* the moment the failure began.
LEMMA StoredFacts ==
    ASSUME ControlTyped, NEW p \in StatusRecord, Timed(p), NEW online \in BOOLEAN,
           NEW d \in Verdicts, NEW m \in Modes
    PROVE  /\ Stored(p, online, d, m) \in StatusRecord
           /\ Timed(Stored(p, online, d, m))
           /\ SameFailure(p, Stored(p, online, d, m))
           /\ Stored(p, online, d, m).mode = m
<1> DEFINE state == IF ~online /\ d = None /\ p.state = "offline"
                    THEN "offline" ELSE classifyAvailabilityState(online, d)
<1> DEFINE s == Stored(p, online, d, m)
<1>1. now \in Time /\ now # 0
    BY NowFacts
<1>2. /\ state \in {"online", "offline", "proxy_failure"}
      /\ state = "online" <=> online
    BY DEF classifyAvailabilityState
<1>3. /\ s.state = state /\ s.mode = m
      /\ s.down = IF state # "offline" THEN 0
                  ELSE IF p.state = "offline" /\ p.down # 0 THEN p.down ELSE now
      /\ s.proxyFailure = IF state # "proxy_failure" THEN 0
                  ELSE IF p.state = "proxy_failure" /\ p.proxyFailure # 0 THEN p.proxyFailure ELSE now
      /\ s.failing = IF online THEN 0
                     ELSE IF Failing(p) THEN ServiceFailureSince(p) ELSE now
      /\ s = [state |-> s.state, down |-> s.down, proxyFailure |-> s.proxyFailure,
              failing |-> s.failing, mode |-> s.mode]
    BY DEF Stored
<1>4. 0 \in Time
    BY BoundsAssumption DEF Time
<1>5. Failing(p) => ServiceFailureSince(p) = p.failing /\ p.failing # 0
    BY FailureClock DEF Timed
<1>6. p.down \in Time /\ p.proxyFailure \in Time /\ p.failing \in Time
    BY DEF StatusRecord
<1> HIDE DEF s, state
<1>7. s.down \in Time /\ s.proxyFailure \in Time /\ s.failing \in Time
    BY <1>1, <1>3, <1>4, <1>5, <1>6
<1>8. s \in StatusRecord
    BY <1>2, <1>3, <1>7 DEF StatusRecord, States
<1>9. Failing(s) <=> ~online
    BY <1>2, <1>3 DEF Failing
<1>10. Timed(s)
    BY <1>1, <1>2, <1>3, <1>5, <1>9 DEF Timed
<1>11. SameFailure(p, s)
    BY <1>3, <1>5, <1>9, FailureClock DEF SameFailure
<1> QED BY <1>3, <1>8, <1>10, <1>11 DEF s

\* storeOfflineDiagnostics moves a failure to the other timer.
LEMMA DiagnosedFacts ==
    ASSUME ControlTyped, NEW p \in StatusRecord, Timed(p), NEW d \in Verdicts
    PROVE  /\ Diagnosed(p, d) \in StatusRecord
           /\ Timed(Diagnosed(p, d))
           /\ SameFailure(p, Diagnosed(p, d))
           /\ Diagnosed(p, d).mode = p.mode
           /\ Diagnosed(p, d).state = "none" <=> p.state = "none"
<1>1. CASE ~Failing(p)
    BY <1>1 DEF Diagnosed, SameFailure
<1>2. CASE Failing(p)
  <2> DEFINE state == classifyAvailabilityState(FALSE, d)
  <2> DEFINE s == Diagnosed(p, d)
  <2>1. now \in Time /\ now # 0 /\ 0 \in Time
      BY NowFacts, BoundsAssumption DEF Time
  <2>2. state \in {"offline", "proxy_failure"}
      BY DEF classifyAvailabilityState
  <2>3. s = [p EXCEPT !.state = state,
                      !.down = IF state = "offline" THEN IF @ = 0 THEN now ELSE @ ELSE 0,
                      !.proxyFailure = IF state = "offline" THEN 0 ELSE IF @ = 0 THEN now ELSE @]
      BY <1>2 DEF Diagnosed
  <2> HIDE DEF s, state
  <2>4. /\ s.state = state /\ s.mode = p.mode /\ s.failing = p.failing
        /\ s.down = IF state = "offline" THEN IF p.down = 0 THEN now ELSE p.down ELSE 0
        /\ s.proxyFailure = IF state = "offline" THEN 0
                            ELSE IF p.proxyFailure = 0 THEN now ELSE p.proxyFailure
      BY <2>3 DEF StatusRecord
  <2>5. p.down \in Time /\ p.proxyFailure \in Time
      BY DEF StatusRecord
  <2>6. s \in StatusRecord
    <3>1. s = [state |-> s.state, down |-> s.down, proxyFailure |-> s.proxyFailure,
               failing |-> s.failing, mode |-> s.mode]
        BY <2>3 DEF StatusRecord
    <3>2. s.down \in Time /\ s.proxyFailure \in Time
        BY <2>1, <2>4, <2>5
    <3> QED BY <2>2, <2>4, <3>1, <3>2 DEF StatusRecord, States
  <2>7. Failing(s) /\ p.failing # 0 /\ s.state # "none" /\ p.state # "none"
      BY <1>2, <2>2, <2>4 DEF Failing, Timed
  <2>8. Timed(s)
      BY <2>1, <2>2, <2>4, <2>7 DEF Timed
  <2>9. SameFailure(p, s)
      BY <1>2, <2>4, <2>7, FailureClock DEF SameFailure
  <2> QED BY <2>4, <2>6, <2>7, <2>8, <2>9 DEF s
<1> QED BY <1>1, <1>2

-----------------------------------------------------------------------------
(* The node archive. *)

\* Closing leaves nothing open.
LEMMA ClosedFacts ==
    ASSUME NEW r \in ArchiveRecord
    PROVE  /\ Closed(r) \in ArchiveRecord /\ NothingOpen(Closed(r))
           /\ Closed(r).active = r.active /\ Closed(r).maint = r.maint
           /\ r = Closed(r) <=> NothingOpen(r)
<1>1. Closed(r) = [r EXCEPT !.down = 0, !.proxyFailure = 0] /\ 0 \in Time
    BY BoundsAssumption DEF Closed, Time
<1>2. /\ Closed(r) \in ArchiveRecord /\ NothingOpen(Closed(r))
      /\ Closed(r).active = r.active /\ Closed(r).maint = r.maint
    BY <1>1 DEF ArchiveRecord, NothingOpen
<1>3. \A a, b \in ArchiveRecord :
         a.active = b.active /\ a.maint = b.maint
            /\ a.down = b.down /\ a.proxyFailure = b.proxyFailure => a = b
    BY DEF ArchiveRecord
<1> QED BY <1>2, <1>3 DEF NothingOpen

\* The two forms of the properties of the archive.
LEMMA ArchiveForms ==
    ArchiveInv <=> ArchiveTyped /\ PausedNotAccounted /\ AccountingAgrees
<1>1. ASSUME ArchiveTyped
      PROVE  (\A n \in Nodes : Accounted(record[n], n \in incidents, n \notin panel))
                <=> PausedNotAccounted /\ AccountingAgrees
  <2>1. \A n \in Nodes : record[n] \in ArchiveRecord
      BY <1>1 DEF ArchiveTyped
  <2>2. \A n \in Nodes : record[n] = Closed(record[n]) <=> NothingOpen(record[n])
      BY <2>1, ClosedFacts
  <2> QED BY <2>2 DEF Accounted, PausedNotAccounted, AccountingAgrees
<1> QED BY <1>1 DEF ArchiveInv

\* Opening accounts what the status says; a status without a verdict nothing.
LEMMA OpenedFacts ==
    ASSUME NEW r \in ArchiveRecord, NEW s \in StatusRecord
    PROVE  /\ Opened(r, s) \in ArchiveRecord
           /\ Opened(r, s).active = r.active /\ Opened(r, s).maint = r.maint
           /\ s.state = "online" => NothingOpen(Opened(r, s))
           /\ s.state = "proxy_failure" => Opened(r, s).down = 0
           /\ s.state = "offline" => Opened(r, s).proxyFailure = 0
           /\ s.state = "none" => Opened(r, s) = r
<1>1. s.state \in States /\ s.down \in Time /\ s.proxyFailure \in Time /\ 0 \in Time
    BY BoundsAssumption DEF StatusRecord, Time
<1>2. CASE s.state = "online"
    BY <1>2, ClosedFacts DEF Opened
<1>3. CASE s.state = "none"
    BY <1>3 DEF Opened
<1>4. CASE s.state = "proxy_failure"
  <2>1. Opened(r, s) = [r EXCEPT !.down = 0, !.proxyFailure = IF @ = 0 THEN s.proxyFailure ELSE @]
      BY <1>4 DEF Opened
  <2> QED BY <1>1, <1>4, <2>1 DEF ArchiveRecord
<1>5. CASE s.state = "offline"
  <2>1. Opened(r, s) = [r EXCEPT !.proxyFailure = 0, !.down = IF @ = 0 THEN s.down ELSE @]
      BY <1>5 DEF Opened
  <2> QED BY <1>1, <1>5, <2>1 DEF ArchiveRecord
<1> QED BY <1>1, <1>2, <1>3, <1>4, <1>5 DEF States

\* recordAvailability over any list of nodes, however old.
LEMMA RecordStep ==
    ASSUME ArchiveInv, StatusTyped, NEW read \in SUBSET Nodes, RecordAvailability(read), panel' = panel
    PROVE  ArchiveInv'
<1>1. ASSUME NEW n \in Nodes
      PROVE  /\ record'[n] \in ArchiveRecord
             /\ Accounted(record'[n], n \in incidents', n \notin panel)
  <2>0. record[n] \in ArchiveRecord /\ Accounted(record[n], n \in incidents, n \notin panel)
      BY <1>1 DEF ArchiveInv, ArchiveTyped
  <2>1. Visible(n) \in StatusRecord
      BY <1>1, NoStatusFacts DEF Visible, StatusTyped
  <2>2. n \in incidents' <=>
           \/ /\ n \in incidents
              /\ ~(n \in read /\ (\/ ~Accounts(n)
                                  \/ n \in panel
                                  \/ Visible(n).state \in {"online", "proxy_failure"}))
           \/ n \in read \ panel /\ Accounts(n) /\ Visible(n).state = "offline"
      BY <1>1 DEF RecordAvailability
  <2>3. CASE n \notin read
    <3>1. record'[n] = IF record[n].active THEN [Closed(record[n]) EXCEPT !.active = FALSE] ELSE record[n]
        BY <1>1, <2>3 DEF RecordAvailability
    <3>2. CASE record[n].active
      <4>1. Closed(record[n]) \in ArchiveRecord /\ NothingOpen(Closed(record[n]))
            /\ Closed(record[n]).maint = record[n].maint
          BY <2>0, ClosedFacts
      <4>2. record'[n] \in ArchiveRecord /\ NothingOpen(record'[n]) /\ record'[n].maint = record[n].maint
          BY <3>1, <3>2, <4>1 DEF ArchiveRecord, NothingOpen
      <4> QED BY <2>0, <2>2, <2>3, <4>2 DEF Accounted, NothingOpen
    <3>3. CASE ~record[n].active
        BY <2>0, <2>2, <2>3, <3>1, <3>3
    <3> QED BY <3>2, <3>3
  <2>4. CASE n \in read
    <3> DEFINE r == [record[n] EXCEPT !.active = TRUE]
    <3>1. record'[n] = IF Accounts(n) THEN Opened(r, Visible(n)) ELSE Closed(r)
        BY <1>1, <2>4 DEF RecordAvailability
    <3>2. /\ r \in ArchiveRecord /\ r.active /\ r.maint = record[n].maint
          /\ r.down = record[n].down /\ r.proxyFailure = record[n].proxyFailure
        BY <2>0 DEF ArchiveRecord
    <3> HIDE DEF r
    <3>3. CASE ~Accounts(n)
        BY <2>2, <2>4, <3>1, <3>2, <3>3, ClosedFacts DEF Accounted, NothingOpen
    <3>4. CASE Accounts(n)
      <4>1. ~record[n].maint
          BY <3>4 DEF Accounts
      <4>2. Visible(n).state \in {"none", "online", "offline", "proxy_failure"}
          BY <2>1 DEF StatusRecord, States
      <4>3. /\ record'[n] \in ArchiveRecord
            /\ record'[n].active /\ record'[n].maint = record[n].maint
            /\ Visible(n).state = "online" => NothingOpen(record'[n])
            /\ Visible(n).state = "proxy_failure" => record'[n].down = 0
            /\ Visible(n).state = "offline" => record'[n].proxyFailure = 0
            /\ Visible(n).state = "none" => record'[n] = r
          BY <2>1, <3>1, <3>2, <3>4, OpenedFacts
      <4> QED BY <2>0, <2>2, <2>4, <3>2, <3>4, <4>1, <4>2, <4>3 DEF Accounted, NothingOpen
    <3> QED BY <3>3, <3>4
  <2> QED BY <2>3, <2>4
<1>2. /\ record' = [n \in Nodes |-> record'[n]]
      /\ incidents' \subseteq Nodes
    BY DEF RecordAvailability, ArchiveInv, ArchiveTyped
<1> QED BY <1>1, <1>2 DEF ArchiveInv, ArchiveTyped

\* The steps that account, and the others, keep what the archive says.
LEMMA ArchiveStep ==
    ASSUME AvailabilityInv, [Next]_vars
    PROVE  ArchiveInv'
<1> USE DEF AvailabilityInv
<1>1. ASSUME UNCHANGED <<panel, record, incidents>> PROVE ArchiveInv'
    BY <1>1 DEF ArchiveInv, ArchiveTyped
<1>2. ASSUME NEW r \in Runs, Record(r) PROVE ArchiveInv'
    BY <1>2, RecordStep DEF Record, ground, sources, GateInv, RunsTyped, StatusInv
<1>3. ASSUME AccountMaintenance PROVE ArchiveInv'
    BY <1>3, RecordStep DEF AccountMaintenance, ground, sources, GateInv, GroundTyped, StatusInv
<1>4. ASSUME NEW n \in Nodes, SetMaintenance(n) PROVE ArchiveInv'
  <2>1. panel' = panel /\ record[n] \in ArchiveRecord /\ record \in [Nodes -> ArchiveRecord]
      BY <1>4 DEF SetMaintenance, ground, sources, ArchiveInv, ArchiveTyped
  <2>2. CASE record[n].maint = arg.on
    <3>1. UNCHANGED archive
        BY <1>4, <2>2 DEF SetMaintenance
    <3> QED BY <1>1, <2>1, <3>1 DEF archive
  <2>3. CASE record[n].maint # arg.on
    <3> DEFINE r == [record[n] EXCEPT !.maint = arg.on]
    <3>1. /\ record' = [record EXCEPT ![n] = IF arg.on THEN Closed(r) ELSE r]
          /\ incidents' = IF arg.on THEN incidents \ {n} ELSE incidents
          /\ record[n].active
        BY <1>4, <2>3 DEF SetMaintenance
    <3>2. /\ r \in ArchiveRecord /\ r.maint = arg.on /\ r.active = record[n].active
          /\ r.down = record[n].down /\ r.proxyFailure = record[n].proxyFailure
        BY <2>1 DEF ArchiveRecord, GateInv, ControlTyped
    <3> HIDE DEF r
    <3>3. Closed(r) \in ArchiveRecord /\ NothingOpen(Closed(r)) /\ Closed(r).active = r.active
        BY <3>2, ClosedFacts
    <3>4. ArchiveTyped'
        BY <2>1, <3>1, <3>2, <3>3 DEF ArchiveInv, ArchiveTyped
    <3>5. Accounted(record'[n], n \in incidents', n \notin panel)
      <4>1. Accounted(record[n], n \in incidents, n \notin panel)
          BY DEF ArchiveInv
      <4>2. CASE arg.on
        <5>1. record'[n] = Closed(r) /\ n \notin incidents'
            BY <2>1, <3>1, <4>2
        <5> QED BY <3>1, <3>2, <3>3, <5>1 DEF Accounted, NothingOpen
      <4>3. CASE ~arg.on
        <5>1. record'[n] = r /\ incidents' = incidents
            BY <2>1, <3>1, <4>3
        <5> QED BY <3>1, <3>2, <4>1, <4>3, <5>1 DEF Accounted
      <4> QED BY <4>2, <4>3
    <3>6. \A m \in Nodes : m # n => record'[m] = record[m] /\ (m \in incidents' <=> m \in incidents)
        BY <2>1, <3>1
    <3> QED BY <2>1, <3>4, <3>5, <3>6 DEF ArchiveInv
  <2> QED BY <2>2, <2>3
<1>5. ASSUME PauseProject PROVE ArchiveInv'
  <2>1. panel' = panel /\ record \in [Nodes -> ArchiveRecord]
      BY <1>5 DEF PauseProject, ground, sources, ArchiveInv, ArchiveTyped
  <2>2. CASE UNCHANGED archive
      BY <1>1, <2>1, <2>2 DEF archive
  <2>3. CASE /\ record' = [n \in Nodes |-> IF record[n].active THEN Closed(record[n]) ELSE record[n]]
             /\ incidents' = {}
    <3>1. \A n \in Nodes : record'[n] \in ArchiveRecord /\ NothingOpen(record'[n])
        BY <2>1, <2>3, ClosedFacts DEF ArchiveInv, Accounted
    <3> QED BY <2>1, <2>3, <3>1 DEF ArchiveInv, ArchiveTyped, Accounted, NothingOpen
  <2> QED BY <1>5, <2>2, <2>3 DEF PauseProject
<1>6. ASSUME SyncProxies PROVE ArchiveInv'
  <2>1. panel' = panel /\ record \in [Nodes -> ArchiveRecord] /\ incidents \subseteq Nodes
      BY <1>6 DEF SyncProxies, ground, sources, ArchiveInv, ArchiveTyped
  <2>2. /\ record' = [n \in Nodes |->
              IF n \in proxies THEN [record[n] EXCEPT !.active = TRUE]
              ELSE IF record[n].active THEN [Closed(record[n]) EXCEPT !.active = FALSE]
              ELSE record[n]]
        /\ incidents' = incidents \ {n \in Nodes \ proxies : record[n].active}
      BY <1>6 DEF SyncProxies
  <2>3. ASSUME NEW n \in Nodes
        PROVE  record'[n] \in ArchiveRecord /\ Accounted(record'[n], n \in incidents', n \notin panel)
    <3>0. Accounted(record[n], n \in incidents, n \notin panel) /\ record[n] \in ArchiveRecord
        BY <2>1, <2>3 DEF ArchiveInv
    <3>1. CASE n \in proxies
      <4>1. record'[n] = [record[n] EXCEPT !.active = TRUE] /\ (n \in incidents' <=> n \in incidents)
          BY <2>2, <2>3, <3>1
      <4>2. /\ record'[n] \in ArchiveRecord /\ record'[n].active /\ record'[n].maint = record[n].maint
            /\ record'[n].down = record[n].down /\ record'[n].proxyFailure = record[n].proxyFailure
          BY <3>0, <4>1 DEF ArchiveRecord
      <4> QED BY <3>0, <4>1, <4>2 DEF Accounted, NothingOpen
    <3>2. CASE n \notin proxies /\ record[n].active
      <4>1. record'[n] = [Closed(record[n]) EXCEPT !.active = FALSE] /\ n \notin incidents'
          BY <2>2, <2>3, <3>2
      <4>2. Closed(record[n]) \in ArchiveRecord /\ NothingOpen(Closed(record[n]))
          BY <3>0, ClosedFacts
      <4>3. record'[n] \in ArchiveRecord /\ NothingOpen(record'[n])
          BY <4>1, <4>2 DEF ArchiveRecord, NothingOpen
      <4> QED BY <4>1, <4>3 DEF Accounted, NothingOpen
    <3>3. CASE n \notin proxies /\ ~record[n].active
      <4>1. record'[n] = record[n] /\ (n \in incidents' <=> n \in incidents)
          BY <2>2, <2>3, <3>3
      <4> QED BY <3>0, <4>1
    <3> QED BY <3>1, <3>2, <3>3
  <2> QED BY <2>1, <2>2, <2>3 DEF ArchiveInv, ArchiveTyped
<1>7. ASSUME NEW r \in Runs, TakeGate(r) \/ Refuse(r) \/ Begin(r) \/ AfterRun(r) PROVE ArchiveInv'
    BY <1>1, <1>7 DEF TakeGate, Refuse, Begin, AfterRun, ground, sources, archive
<1>8. ASSUME \/ \E n \in Nodes : HostCheck(n) \/ Probe(n) \/ Diagnose(n)
             \/ ProbePhase \/ Finish \/ NoCurrentIP
      PROVE  ArchiveInv'
    BY <1>1, <1>8 DEF HostCheck, Probe, Diagnose, Progress, ProbePhase, Finish, NoCurrentIP,
          ground, sources, archive
<1>9. ASSUME \/ \E w \in Writers, nodes \in SUBSET Nodes, on \in BOOLEAN : Enter(w, nodes, on)
             \/ SetMaintenanceRefused \/ SetMaintenanceMode \/ SetProject \/ SetProjectFails
             \/ ClearProject \/ RefreshFails \/ UpdateProxies \/ ReplaceMaintenanceModes
      PROVE  ArchiveInv'
    BY <1>1, <1>9 DEF Enter, SetMaintenanceRefused, SetMaintenanceMode, SetProject, SetProjectFails,
          ClearProject, RefreshFails, UpdateProxies, ReplaceMaintenanceModes, ground, sources, archive
<1>10. ASSUME Environment PROVE ArchiveInv'
    BY <1>1, <1>10 DEF Environment, Start, CancelCheck, RefreshBegins, RefreshEnds, Announce,
          SetSourcePolicies, ground, sources, archive
<1>11. ASSUME UNCHANGED vars PROVE ArchiveInv'
    BY <1>1, <1>11 DEF vars, ground, sources, archive
<1> QED BY <1>2, <1>3, <1>4, <1>5, <1>6, <1>7, <1>8, <1>9, <1>10, <1>11
       DEF Next, RunStep, WriterStep, Quiet

-----------------------------------------------------------------------------
(* The lock and the runs. *)

LockRecord == [readers : SUBSET Runs, pending : Writers \cup {None}, writing : BOOLEAN]

\* While a run is active no writer is at work.
LEMMA ActiveExcludesWriter ==
    ASSUME GateInv, activeRun # None
    PROVE  ~lock.writing /\ at = None
<1>1. activeRun \in Runs /\ pc[activeRun] = "active"
    BY DEF GateInv, RunsTyped, OneActiveRun
<1> QED BY <1>1 DEF GateInv, LockShape

\* While a writer is at work no run is past the gate.
LEMMA WriterExcludesRuns ==
    ASSUME GateInv, at # None
    PROVE  /\ lock.writing /\ activeRun = None
           /\ \A r \in Runs : pc[r] \notin {"gated", "active"}
<1>1. lock.writing
    BY DEF GateInv, LockShape
<1>2. \A r \in Runs : pc[r] \notin {"gated", "active"}
    BY <1>1 DEF GateInv, LockShape
<1> QED BY <1>1, <1>2, ActiveExcludesWriter

\* Steps that leave the lock, the active run and the configuration alone.
LEMMA GateSame ==
    ASSUME GateInv, ControlTyped', GroundTyped', RunsTyped',
           UNCHANGED <<lock, at, pc, activeRun, mode, proxies, maintenance, checkerProject>>,
           \A n \in Nodes : work'[n] # "none" => work[n] # "none"
    PROVE  GateInv'
<1>1. LockShape' /\ OneActiveRun'
    BY DEF GateInv, LockShape, OneActiveRun
<1>2. WorkIsCurrent'
    BY DEF GateInv, WorkIsCurrent, Mode
<1> QED BY <1>1, <1>2 DEF GateInv

\* Something is asked for: one event more.
LEMMA AskedTyped ==
    ASSUME ControlTyped, Asked
    PROVE  events' \in 0..MaxEvents
BY BoundsAssumption DEF ControlTyped, Asked

\* A run that returns is past the gate no more.
LEMMA ReturnFacts ==
    ASSUME GateInv, NEW r \in Runs, NEW ok \in BOOLEAN, Return(r, ok)
    PROVE  /\ lock' \in LockRecord
           /\ lock'.readers = lock.readers \ {r}
           /\ lock'.pending = lock.pending /\ lock'.writing = lock.writing
           /\ \A x \in Runs : pc'[x] = IF x = r THEN "returned" ELSE pc[x]
           /\ pc' \in [Runs -> {"idle", "queued", "blocked", "gated", "active", "returned", "recording"}]
           /\ request' \in [Runs -> [nodes : SUBSET Nodes, allow : BOOLEAN]]
           /\ cancelled' \subseteq Runs /\ completed' \subseteq Runs
           /\ diag' \in [node : Nodes \cup {None}, ctx : Runs \cup {None}, dead : BOOLEAN]
<1>1. lock \in LockRecord /\ RunsTyped
    BY DEF GateInv, ControlTyped, LockRecord
<1>2. lock' = [lock EXCEPT !.readers = @ \ {r}]
    BY DEF Return
<1>3. /\ lock' \in LockRecord
      /\ lock'.readers = lock.readers \ {r}
      /\ lock'.pending = lock.pending /\ lock'.writing = lock.writing
    BY <1>1, <1>2 DEF LockRecord
<1>4. /\ \A x \in Runs : pc'[x] = IF x = r THEN "returned" ELSE pc[x]
      /\ pc' \in [Runs -> {"idle", "queued", "blocked", "gated", "active", "returned", "recording"}]
    BY <1>1 DEF Return, RunsTyped
<1>5. /\ request' \in [Runs -> [nodes : SUBSET Nodes, allow : BOOLEAN]]
      /\ cancelled' \subseteq Runs /\ completed' \subseteq Runs
    BY <1>1 DEF Return, RunsTyped
<1>6. diag' \in [node : Nodes \cup {None}, ctx : Runs \cup {None}, dead : BOOLEAN]
    BY <1>1 DEF Return, Ended, RunsTyped
<1> QED BY <1>3, <1>4, <1>5, <1>6

\* The active run ends, or a run is turned away at the gate.
LEMMA ReturnStep ==
    ASSUME GateInv, NEW r \in Runs, NEW ok \in BOOLEAN, Return(r, ok),
           UNCHANGED <<project, at, arg, events, started, began, list>>, UNCHANGED ground,
           \/ pc[r] = "gated" /\ UNCHANGED <<activeRun, work, mode>>
           \/ /\ activeRun = r /\ activeRun' = None
              /\ work' \in [Nodes -> {"none"}]
              /\ mode' \in [Nodes -> {"live"}]
    PROVE  GateInv'
<1>1. /\ lock' \in LockRecord
      /\ lock'.readers = lock.readers \ {r}
      /\ lock'.pending = lock.pending /\ lock'.writing = lock.writing
      /\ \A x \in Runs : pc'[x] = IF x = r THEN "returned" ELSE pc[x]
      /\ pc' \in [Runs -> {"idle", "queued", "blocked", "gated", "active", "returned", "recording"}]
      /\ request' \in [Runs -> [nodes : SUBSET Nodes, allow : BOOLEAN]]
      /\ cancelled' \subseteq Runs /\ completed' \subseteq Runs
      /\ diag' \in [node : Nodes \cup {None}, ctx : Runs \cup {None}, dead : BOOLEAN]
    BY ReturnFacts
<1>2. ControlTyped' /\ GroundTyped'
    BY <1>1 DEF GateInv, ControlTyped, GroundTyped, LockRecord, ground, sources
<1>3. RunsTyped'
    BY <1>1 DEF GateInv, RunsTyped, Modes
<1>4. LockShape'
  <2>1. lock'.readers = {x \in Runs : pc'[x] \in {"gated", "active"}}
      BY <1>1 DEF GateInv, LockShape
  <2> QED BY <1>1, <2>1 DEF GateInv, LockShape
<1>5. OneActiveRun'
    BY <1>1 DEF GateInv, OneActiveRun, RunsTyped, Runs, None
<1>6. WorkIsCurrent'
    BY DEF GateInv, WorkIsCurrent, Mode, ground
<1> QED BY <1>2, <1>3, <1>4, <1>5, <1>6 DEF GateInv

\* The writer releases the lock to the readers that wait.
LEMMA UnlockStep ==
    ASSUME GateInv, at # None, Unlock, project' \in BOOLEAN, GroundTyped',
           UNCHANGED rest
    PROVE  GateInv'
<1>1. /\ activeRun = None /\ \A r \in Runs : pc[r] \notin {"gated", "active"}
    BY WriterExcludesRuns
<1>2. /\ at' = None /\ arg' = [nodes |-> {}, on |-> FALSE]
      /\ lock' = [readers |-> {r \in Runs : pc[r] = "blocked"}, pending |-> None, writing |-> FALSE]
      /\ pc' = [r \in Runs |-> IF pc[r] = "blocked" THEN "gated" ELSE pc[r]]
    BY DEF Unlock
<1>3. ControlTyped'
    BY <1>2 DEF GateInv, ControlTyped, rest
<1>4. RunsTyped'
    BY <1>2 DEF GateInv, RunsTyped, rest
<1>5. LockShape'
    BY <1>1, <1>2 DEF LockShape
<1>6. OneActiveRun'
    BY <1>1, <1>2 DEF OneActiveRun, rest
<1>7. WorkIsCurrent'
    BY <1>1 DEF GateInv, WorkIsCurrent, rest
<1> QED BY <1>3, <1>4, <1>5, <1>6, <1>7 DEF GateInv

\* The writer goes on to its next step.
LEMMA GotoStep ==
    ASSUME GateInv, at # None,
           NEW step \in {"set", "checker", "account", "clear", "pause", "update", "sync", "modes"},
           Goto(step), project' \in BOOLEAN, GroundTyped', UNCHANGED rest
    PROVE  GateInv'
<1>1. activeRun = None /\ lock.writing
    BY WriterExcludesRuns
<1>2. at' = step /\ UNCHANGED <<lock, arg, pc>>
    BY DEF Goto
<1>3. ControlTyped'
    BY <1>2 DEF GateInv, ControlTyped, rest
<1>4. RunsTyped'
    BY <1>2 DEF GateInv, RunsTyped, rest
<1>5. LockShape'
    BY <1>1, <1>2 DEF GateInv, LockShape, None
<1>6. OneActiveRun' /\ WorkIsCurrent'
    BY <1>1, <1>2 DEF GateInv, OneActiveRun, WorkIsCurrent, rest
<1> QED BY <1>3, <1>4, <1>5, <1>6 DEF GateInv

\* What the runs do keeps the lock and the runs in shape.
LEMMA GateRunStep ==
    ASSUME AvailabilityInv, RunStep
    PROVE  GateInv'
<1>0. GateInv /\ ControlTyped /\ GroundTyped /\ RunsTyped /\ lock \in LockRecord
    BY DEF AvailabilityInv, GateInv, ControlTyped, LockRecord
<1>1. ASSUME NEW r \in Runs, TakeGate(r) PROVE GateInv'
  <2>1. /\ UNCHANGED <<project, at, arg, events, started, request, began, cancelled, completed,
                       activeRun, work, mode, diag, list>>
        /\ UNCHANGED <<proxies, maintenance, checkerProject, panel, unaccounted>>
        /\ pc[r] = "queued"
      BY <1>1 DEF TakeGate, ground, sources
  <2>2. CASE lock.pending = None
    <3>1. lock' = [lock EXCEPT !.readers = @ \cup {r}] /\ pc' = [pc EXCEPT ![r] = "gated"]
        BY <1>1, <2>2 DEF TakeGate
    <3>2. /\ lock' \in LockRecord /\ lock'.readers = lock.readers \cup {r}
          /\ lock'.pending = lock.pending /\ lock'.writing = lock.writing
        BY <1>0, <3>1 DEF LockRecord
    <3>3. ControlTyped' /\ GroundTyped' /\ RunsTyped'
        BY <1>0, <2>1, <3>1, <3>2 DEF ControlTyped, GroundTyped, RunsTyped, LockRecord
    <3>4. \A x \in Runs : pc'[x] = IF x = r THEN "gated" ELSE pc[x]
        BY <1>0, <3>1 DEF RunsTyped
    <3>5. LockShape'
      <4>1. lock'.readers = {x \in Runs : pc'[x] \in {"gated", "active"}}
          BY <1>0, <3>2, <3>4 DEF GateInv, LockShape
      <4>2. ~lock.writing
          BY <1>0, <2>2 DEF GateInv, LockShape
      <4> QED BY <1>0, <2>1, <3>2, <4>1, <4>2 DEF GateInv, LockShape
    <3>6. OneActiveRun' /\ WorkIsCurrent'
        BY <1>0, <2>1, <3>4 DEF GateInv, OneActiveRun, WorkIsCurrent, Mode, RunsTyped
    <3> QED BY <3>3, <3>5, <3>6 DEF GateInv
  <2>3. CASE lock.pending # None
    <3>1. lock' = lock /\ pc' = [pc EXCEPT ![r] = "blocked"]
        BY <1>1, <2>3 DEF TakeGate
    <3>2. ControlTyped' /\ GroundTyped' /\ RunsTyped'
        BY <1>0, <2>1, <3>1 DEF ControlTyped, GroundTyped, RunsTyped
    <3>3. \A x \in Runs : pc'[x] = IF x = r THEN "blocked" ELSE pc[x]
        BY <1>0, <3>1 DEF RunsTyped
    <3>4. LockShape'
      <4>1. lock'.readers = {x \in Runs : pc'[x] \in {"gated", "active"}}
          BY <1>0, <2>1, <3>1, <3>3 DEF GateInv, LockShape
      <4> QED BY <1>0, <2>1, <3>1, <4>1 DEF GateInv, LockShape
    <3>5. OneActiveRun' /\ WorkIsCurrent'
        BY <1>0, <2>1, <3>3 DEF GateInv, OneActiveRun, WorkIsCurrent, Mode, RunsTyped
    <3> QED BY <3>2, <3>4, <3>5 DEF GateInv
  <2> QED BY <2>2, <2>3
<1>2. ASSUME NEW r \in Runs, Refuse(r) PROVE GateInv'
    BY <1>0, <1>2, ReturnStep DEF Refuse
<1>3. ASSUME NEW r \in Runs, Begin(r) PROVE GateInv'
  <2>1. /\ UNCHANGED <<project, at, arg, events, started, began, list>> /\ UNCHANGED ground
        /\ pc[r] = "gated" /\ activeRun = None
      BY <1>3 DEF Begin
  <2>2. CASE r \in cancelled \/ Rejected(r)
      BY <1>0, <1>3, <2>1, <2>2, ReturnStep DEF Begin
  <2>3. CASE ~(r \in cancelled \/ Rejected(r))
    <3>1. /\ activeRun' = r /\ pc' = [pc EXCEPT ![r] = "active"]
          /\ work' = WorkOf(r) /\ mode' = [n \in Nodes |-> Mode(n)]
          /\ completed' \in {completed, completed \cup {r}}
          /\ UNCHANGED <<lock, diag, request, cancelled>>
        BY <1>3, <2>3 DEF Begin
    <3>2. \A x \in Runs : pc'[x] = IF x = r THEN "active" ELSE pc[x]
        BY <1>0, <3>1 DEF RunsTyped
    <3>3. /\ WorkOf(r) \in [Nodes -> {"none", "host", "ready", "probe", "diagnose"}]
          /\ \A n \in Nodes : WorkOf(r)[n] # "none" => n \in proxies
      <4>1. request[r].nodes \subseteq proxies
          BY <2>3 DEF Rejected
      <4> QED BY <4>1 DEF WorkOf
    <3>4. [n \in Nodes |-> Mode(n)] \in [Nodes -> Modes]
        BY DEF Mode, Modes
    <3>5. ControlTyped' /\ GroundTyped'
        BY <1>0, <2>1, <3>1 DEF ControlTyped, GroundTyped, ground, sources
    <3>6. RunsTyped'
        BY <1>0, <2>1, <3>1, <3>3, <3>4 DEF RunsTyped
    <3>7. LockShape'
      <4>1. lock'.readers = {x \in Runs : pc'[x] \in {"gated", "active"}}
          BY <1>0, <2>1, <3>1, <3>2 DEF GateInv, LockShape
      <4> QED BY <1>0, <2>1, <3>1, <4>1 DEF GateInv, LockShape
    <3>8. OneActiveRun'
      <4>1. \A x \in Runs : pc[x] # "active"
          BY <1>0, <2>1 DEF GateInv, OneActiveRun, Runs, None
      <4> QED BY <3>1, <3>2, <4>1 DEF OneActiveRun
    <3>9. WorkIsCurrent'
      <4>1. r # None
          BY DEF Runs, None
      <4>2. \A n \in Nodes : mode'[n] = Mode(n)'
          BY <2>1, <3>1 DEF Mode, ground
      <4> QED BY <2>1, <3>1, <3>3, <4>1, <4>2 DEF WorkIsCurrent, ground
    <3> QED BY <3>5, <3>6, <3>7, <3>8, <3>9 DEF GateInv
  <2> QED BY <2>2, <2>3
<1>4. ASSUME NEW r \in Runs, AfterRun(r) \/ Record(r) PROVE GateInv'
  <2>1. /\ UNCHANGED <<lock, at, project, arg, events, started, activeRun, work, mode, diag,
                       request, cancelled>>
        /\ UNCHANGED <<proxies, maintenance, checkerProject, panel, unaccounted>>
        /\ pc[r] \in {"returned", "recording"}
        /\ pc' = [pc EXCEPT ![r] = "recording"] \/ pc' = [pc EXCEPT ![r] = "idle"]
        /\ list' \in {list, [list EXCEPT ![r] = proxies], [list EXCEPT ![r] = {}]}
        /\ began' \in {began, began \ {r}} /\ completed' \in {completed, completed \ {r}}
      BY <1>4 DEF AfterRun, Record, control, lifecycle, ground, sources
  <2>2. ControlTyped' /\ GroundTyped' /\ RunsTyped'
    <3>1. list' \in [Runs -> SUBSET Nodes]
        BY <1>0, <2>1 DEF RunsTyped, GroundTyped
    <3>2. pc' \in [Runs -> {"idle", "queued", "blocked", "gated", "active", "returned", "recording"}]
        BY <1>0, <2>1 DEF RunsTyped
    <3> QED BY <1>0, <2>1, <3>1, <3>2 DEF ControlTyped, GroundTyped, RunsTyped
  <2>3. \A x \in Runs : pc'[x] \in {"gated", "active"} \/ pc[x] \in {"gated", "active"} => pc'[x] = pc[x]
      BY <1>0, <2>1 DEF RunsTyped
  <2>4. LockShape'
    <3>1. lock'.readers = {x \in Runs : pc'[x] \in {"gated", "active"}}
        BY <1>0, <2>1, <2>3 DEF GateInv, LockShape
    <3> QED BY <1>0, <2>1, <3>1 DEF GateInv, LockShape
  <2>5. OneActiveRun' /\ WorkIsCurrent'
      BY <1>0, <2>1, <2>3 DEF GateInv, OneActiveRun, WorkIsCurrent, Mode, RunsTyped
  <2> QED BY <2>2, <2>4, <2>5 DEF GateInv
<1>5. ASSUME (\E n \in Nodes : HostCheck(n) \/ Probe(n) \/ Diagnose(n)) \/ ProbePhase
      PROVE  GateInv'
  <2>1. /\ UNCHANGED control /\ UNCHANGED ground
        /\ UNCHANGED <<pc, request, began, cancelled, completed, activeRun, mode, started, diag, list>>
      BY <1>5 DEF HostCheck, Probe, Diagnose, Progress, ProbePhase
  <2>2. /\ work' \in [Nodes -> {"none", "host", "ready", "probe", "diagnose"}]
        /\ \A n \in Nodes : work'[n] # "none" => work[n] # "none"
    <3>1. CASE ProbePhase
        BY <3>1 DEF ProbePhase
    <3>2. ASSUME NEW n \in Nodes, NEW next \in {"none", "ready", "diagnose"}, NEW s,
                 work[n] # "none", Progress(n, next, s)
          PROVE  /\ work' \in [Nodes -> {"none", "host", "ready", "probe", "diagnose"}]
                 /\ \A m \in Nodes : work'[m] # "none" => work[m] # "none"
        BY <1>0, <3>2 DEF Progress, RunsTyped
    <3>3. ASSUME NEW n \in Nodes, HostCheck(n) \/ Probe(n) \/ Diagnose(n)
          PROVE  \E next \in {"none", "ready", "diagnose"} : \E s :
                    work[n] # "none" /\ Progress(n, next, s)
      <4>1. CASE HostCheck(n)
        <5>1. CASE Interrupted
            BY <4>1, <5>1 DEF HostCheck
        <5>2. ASSUME NEW d, Progress(n, IF d = "tcp" THEN "ready" ELSE "none",
                                     Stored(status[n], FALSE, d, mode[n])), work[n] = "host"
              PROVE  \E next \in {"none", "ready", "diagnose"} : \E s :
                        work[n] # "none" /\ Progress(n, next, s)
            BY <5>2
        <5> QED BY <4>1, <5>1, <5>2 DEF HostCheck
      <4>2. CASE Probe(n) \/ Diagnose(n)
          BY <4>2 DEF Probe, Diagnose
      <4> QED BY <3>3, <4>1, <4>2
    <3> QED BY <1>5, <3>1, <3>2, <3>3
  <2>3. ControlTyped' /\ GroundTyped' /\ RunsTyped'
      BY <1>0, <2>1, <2>2 DEF ControlTyped, GroundTyped, RunsTyped, control, lifecycle, ground, sources
  <2> QED BY <1>0, <2>1, <2>2, <2>3, GateSame DEF control, lifecycle, ground
<1>6. ASSUME Finish \/ NoCurrentIP PROVE GateInv'
  <2>1. activeRun \in Runs
      BY <1>0, <1>6 DEF Finish, NoCurrentIP, RunsTyped
  <2>2. /\ UNCHANGED <<project, at, arg, events, started, began, list>> /\ UNCHANGED ground
        /\ activeRun' = None /\ mode' = [n \in Nodes |-> "live"]
      BY <1>6 DEF Finish, NoCurrentIP
  <2>4. \E ok \in BOOLEAN : Return(activeRun, ok)
    <3>1. CASE Finish
      <4>1. (activeRun # "recovery" /\ ~Interrupted) \in BOOLEAN
          OBVIOUS
      <4> QED BY <3>1, <4>1 DEF Finish
    <3>2. CASE NoCurrentIP
        BY <3>2 DEF NoCurrentIP
    <3> QED BY <1>6, <3>1, <3>2
  <2>3. work' \in [Nodes -> {"none"}]
      BY <1>0, <1>6 DEF Finish, NoCurrentIP, RunsTyped
  <2> QED BY <1>0, <2>1, <2>2, <2>3, <2>4, ReturnStep
<1> QED BY <1>1, <1>2, <1>3, <1>4, <1>5, <1>6 DEF RunStep

\* What the writers do keeps them in shape: they are alone.
LEMMA GateWriterStep ==
    ASSUME AvailabilityInv, WriterStep
    PROVE  GateInv'
<1>0. GateInv /\ ControlTyped /\ GroundTyped /\ RunsTyped /\ lock \in LockRecord
    BY DEF AvailabilityInv, GateInv, ControlTyped, LockRecord
<1>1. ASSUME NEW w \in Writers, NEW nodes \in SUBSET Nodes, NEW on \in BOOLEAN, Enter(w, nodes, on)
      PROVE  GateInv'
  <2>1. /\ lock.pending = w /\ lock.readers = {}
        /\ lock' = [lock EXCEPT !.writing = TRUE]
        /\ arg' = [nodes |-> nodes, on |-> on]
        /\ at' \in {"update", "set"}
        /\ UNCHANGED <<project, events>> /\ UNCHANGED ground /\ UNCHANGED running /\ UNCHANGED <<diag, list>>
      BY <1>1 DEF Enter
  <2>2. /\ lock' \in LockRecord /\ lock'.readers = lock.readers /\ lock'.pending = lock.pending
        /\ lock'.writing
      BY <1>0, <2>1 DEF LockRecord
  <2>3. ControlTyped' /\ GroundTyped' /\ RunsTyped'
      BY <1>0, <2>1, <2>2 DEF ControlTyped, GroundTyped, RunsTyped, LockRecord, ground, sources, running
  <2>4. LockShape'
    <3>1. w # None
        BY DEF Writers, None
    <3> QED BY <1>0, <2>1, <2>2, <3>1 DEF GateInv, LockShape, running, None
  <2>5. OneActiveRun' /\ WorkIsCurrent'
      BY <1>0, <2>1 DEF GateInv, OneActiveRun, WorkIsCurrent, Mode, ground, running
  <2> QED BY <2>3, <2>4, <2>5 DEF GateInv
<1>2. ASSUME SetMaintenanceRefused \/ SetProjectFails \/ RefreshFails \/ AccountMaintenance
             \/ PauseProject
      PROVE  GateInv'
  <2>1. at # None /\ Unlock /\ UNCHANGED rest /\ project' = project /\ UNCHANGED ground
      BY <1>2 DEF SetMaintenanceRefused, SetProjectFails, RefreshFails, AccountMaintenance,
            PauseProject, None
  <2>2. project' \in BOOLEAN /\ GroundTyped'
      BY <1>0, <2>1 DEF ControlTyped, GroundTyped, ground, sources
  <2> QED BY <1>0, <2>1, <2>2, UnlockStep
<1>3. ASSUME (\E n \in Nodes : SetMaintenance(n)) \/ SetProject \/ SyncProxies PROVE GateInv'
  <2>1. /\ at # None /\ UNCHANGED rest /\ project' \in BOOLEAN /\ UNCHANGED ground
        /\ \E step \in {"checker", "clear", "modes"} : Goto(step)
      BY <1>0, <1>3 DEF SetMaintenance, SetProject, SyncProxies, ControlTyped, None
  <2>2. GroundTyped'
      BY <1>0, <2>1 DEF GroundTyped, ground, sources
  <2> QED BY <1>0, <2>1, <2>2, GotoStep
<1>4. ASSUME SetMaintenanceMode \/ UpdateProxies PROVE GateInv'
  <2>1. /\ at # None /\ UNCHANGED rest /\ project' = project
        /\ \E step \in {"account", "sync"} : Goto(step)
      BY <1>4 DEF SetMaintenanceMode, UpdateProxies, None
  <2>2. arg.nodes \subseteq Nodes
      BY <1>0 DEF ControlTyped
  <2>3. GroundTyped'
      BY <1>0, <1>4, <2>2 DEF SetMaintenanceMode, SwitchMaintenance, UpdateProxies, GroundTyped, sources
  <2>4. project' \in BOOLEAN
      BY <1>0, <2>1 DEF ControlTyped
  <2> QED BY <1>0, <2>1, <2>3, <2>4, GotoStep
<1>5. ASSUME ClearProject PROVE GateInv'
  <2>1. /\ at # None /\ UNCHANGED rest /\ project' = project
        /\ Goto("pause") \/ Unlock
      BY <1>5 DEF ClearProject, None
  <2>2. GroundTyped' /\ project' \in BOOLEAN
      BY <1>0, <1>5 DEF ClearProject, GroundTyped, ControlTyped, sources
  <2> QED BY <1>0, <2>1, <2>2, GotoStep, UnlockStep
<1>6. ASSUME ReplaceMaintenanceModes PROVE GateInv'
  <2>1. at # None /\ Unlock /\ UNCHANGED rest /\ project' = project
      BY <1>6 DEF ReplaceMaintenanceModes, None
  <2>2. GroundTyped' /\ project' \in BOOLEAN
      BY <1>0, <1>6 DEF ReplaceMaintenanceModes, SwitchMaintenance, GroundTyped, ControlTyped, sources
  <2> QED BY <1>0, <2>1, <2>2, UnlockStep
<1> QED BY <1>1, <1>2, <1>3, <1>4, <1>5, <1>6 DEF WriterStep

\* What is asked for keeps them in shape.
LEMMA GateEnvironmentStep ==
    ASSUME AvailabilityInv, Environment
    PROVE  GateInv'
<1>0. GateInv /\ ControlTyped /\ GroundTyped /\ RunsTyped /\ lock \in LockRecord
    BY DEF AvailabilityInv, GateInv, ControlTyped, LockRecord
<1>1. ASSUME NEW r \in Runs, NEW nodes \in SUBSET Nodes, NEW allow \in BOOLEAN, Start(r, nodes, allow)
      PROVE  GateInv'
  <2>1. /\ UNCHANGED <<project, lock, at, arg, cancelled, completed, activeRun, work, mode, diag, list>>
        /\ UNCHANGED <<proxies, maintenance, checkerProject, panel, unaccounted>>
        /\ Asked /\ started < MaxRuns /\ started' = started + 1
        /\ pc[r] = "idle" /\ pc' = [pc EXCEPT ![r] = "queued"]
        /\ request' = [request EXCEPT ![r] = [nodes |-> nodes, allow |-> allow]]
        /\ began' \in {began, began \cup {r}}
      BY <1>1 DEF Start, lifecycle, ground, sources
  <2>2. started' \in 0..MaxRuns
      BY <1>0, <2>1, BoundsAssumption DEF ControlTyped
  <2>3. ControlTyped' /\ GroundTyped'
      BY <1>0, <2>1, <2>2, AskedTyped DEF ControlTyped, GroundTyped
  <2>4. RunsTyped'
      BY <1>0, <2>1 DEF RunsTyped
  <2>5. \A x \in Runs : pc'[x] \in {"gated", "active"} \/ pc[x] \in {"gated", "active"} => pc'[x] = pc[x]
      BY <1>0, <2>1 DEF RunsTyped
  <2>6. LockShape'
    <3>1. lock'.readers = {x \in Runs : pc'[x] \in {"gated", "active"}}
        BY <1>0, <2>1, <2>5 DEF GateInv, LockShape
    <3> QED BY <1>0, <2>1, <3>1 DEF GateInv, LockShape
  <2>7. OneActiveRun' /\ WorkIsCurrent'
      BY <1>0, <2>1, <2>5 DEF GateInv, OneActiveRun, WorkIsCurrent, Mode, RunsTyped
  <2> QED BY <2>3, <2>4, <2>6, <2>7 DEF GateInv
<1>2. ASSUME CancelCheck \/ \E n \in Nodes : RefreshBegins(n) PROVE GateInv'
  <2>1. /\ Asked /\ UNCHANGED <<project, lock, at, arg, started>>
        /\ UNCHANGED <<proxies, maintenance, checkerProject, panel, unaccounted>>
        /\ UNCHANGED <<pc, request, began, completed, activeRun, work, mode, list>>
        /\ cancelled' \in {cancelled, cancelled \cup {r \in Runs : Registered(r)}}
      BY <1>2 DEF CancelCheck, RefreshBegins, lifecycle, ground, sources, running
  <2>2. diag' \in [node : Nodes \cup {None}, ctx : Runs \cup {None}, dead : BOOLEAN]
    <3>1. CASE CancelCheck
        BY <1>0, <3>1 DEF CancelCheck, RunsTyped
    <3>2. ASSUME NEW n \in Nodes, RefreshBegins(n)
          PROVE  diag' \in [node : Nodes \cup {None}, ctx : Runs \cup {None}, dead : BOOLEAN]
      <4>1. diag' = [node |-> n, ctx |-> activeRun, dead |-> activeRun \in cancelled]
          BY <3>2 DEF RefreshBegins
      <4>2. (activeRun \in cancelled) \in BOOLEAN /\ activeRun \in Runs \cup {None}
          BY <1>0 DEF RunsTyped
      <4> QED BY <4>1, <4>2
    <3> QED BY <1>2, <3>1, <3>2
  <2>3. ControlTyped' /\ GroundTyped' /\ RunsTyped'
      BY <1>0, <2>1, <2>2, AskedTyped DEF ControlTyped, GroundTyped, RunsTyped
  <2> QED BY <1>0, <2>1, <2>3, GateSame
<1>3. ASSUME RefreshEnds PROVE GateInv'
  <2>1. /\ UNCHANGED control /\ UNCHANGED ground /\ UNCHANGED running /\ list' = list
        /\ diag' = [node |-> None, ctx |-> None, dead |-> FALSE]
      BY <1>3 DEF RefreshEnds
  <2>2. ControlTyped' /\ GroundTyped' /\ RunsTyped'
      BY <1>0, <2>1 DEF ControlTyped, GroundTyped, RunsTyped, control, lifecycle, ground, sources, running
  <2> QED BY <1>0, <2>1, <2>2, GateSame DEF control, lifecycle, ground, running
<1>4. ASSUME NEW w \in Writers, Announce(w) PROVE GateInv'
  <2>1. /\ lock.pending = None /\ lock' = [lock EXCEPT !.pending = w] /\ Asked
        /\ UNCHANGED <<project, at, arg>> /\ UNCHANGED ground /\ UNCHANGED running
        /\ UNCHANGED <<diag, list>>
      BY <1>4 DEF Announce
  <2>2. /\ lock' \in LockRecord /\ lock'.readers = lock.readers /\ lock'.writing = lock.writing
        /\ lock'.pending = w
      BY <1>0, <2>1 DEF LockRecord
  <2>3. ControlTyped' /\ GroundTyped' /\ RunsTyped'
      BY <1>0, <2>1, <2>2, AskedTyped DEF ControlTyped, GroundTyped, RunsTyped, LockRecord,
            ground, sources, running
  <2>4. LockShape'
      BY <1>0, <2>1, <2>2 DEF GateInv, LockShape, running
  <2>5. OneActiveRun' /\ WorkIsCurrent'
      BY <1>0, <2>1 DEF GateInv, OneActiveRun, WorkIsCurrent, Mode, ground, running
  <2> QED BY <2>3, <2>4, <2>5 DEF GateInv
<1>5. ASSUME NEW nodes \in SUBSET panel, SetSourcePolicies(nodes) PROVE GateInv'
  <2>1. /\ Asked /\ unaccounted' = nodes /\ UNCHANGED lifecycle
        /\ UNCHANGED <<panel, proxies, maintenance, checkerProject, diag, list>> /\ UNCHANGED running
      BY <1>5 DEF SetSourcePolicies
  <2>2. ControlTyped' /\ GroundTyped' /\ RunsTyped'
      BY <1>0, <2>1, AskedTyped DEF ControlTyped, GroundTyped, RunsTyped, lifecycle, running
  <2> QED BY <1>0, <2>1, <2>2, GateSame DEF lifecycle, running
<1> QED BY <1>1, <1>2, <1>3, <1>4, <1>5 DEF Environment

-----------------------------------------------------------------------------
(* Statuses through the steps. *)

\* What a step must keep: the invariant of the statuses, and every failure clock.
StatusKept == StatusInv' /\ \A n \in Nodes : SameFailure(status[n], status'[n])

\* A status that stays answers to the same mode; one that goes leaves NoStatus.
LEMMA StatusCleared ==
    ASSUME StatusInv, status' = [n \in Nodes |-> status'[n]],
           \A n \in Nodes :
              \/ status'[n] = NoStatus
              \/ /\ status'[n] = status[n]
                 /\ status[n].state # "none" /\ n \in proxies => n \in proxies' /\ Mode(n)' = Mode(n)
    PROVE  StatusKept
<1>1. ASSUME NEW n \in Nodes
      PROVE  /\ status'[n] \in StatusRecord /\ Timed(status'[n])
             /\ status'[n].state # "none" => n \in proxies' /\ status'[n].mode = Mode(n)'
             /\ SameFailure(status[n], status'[n])
  <2>1. status[n] \in StatusRecord /\ Timed(status[n]) /\ Current(n, status[n])
      BY <1>1 DEF StatusInv, StatusTyped
  <2>2. CASE status'[n] = NoStatus
    <3>1. NoStatus.state = "none"
        BY DEF NoStatus
    <3> QED BY <2>2, <3>1, NoStatusFacts DEF SameFailure
  <2>3. CASE /\ status'[n] = status[n]
             /\ status[n].state # "none" /\ n \in proxies => n \in proxies' /\ Mode(n)' = Mode(n)
      BY <2>1, <2>3 DEF Current, SameFailure
  <2> QED BY <1>1, <2>2, <2>3
<1> QED BY <1>1 DEF StatusKept, StatusInv, StatusTyped, Current

\* Steps that leave the statuses and the configuration alone.
LEMMA StatusSame ==
    ASSUME StatusInv, UNCHANGED <<status, proxies, maintenance, checkerProject>>
    PROVE  StatusKept
<1>1. status' = [n \in Nodes |-> status'[n]]
    BY DEF StatusInv, StatusTyped
<1> QED BY <1>1, StatusCleared DEF Mode

\* A step that replaces the status of one node, in the mode of the node.
LEMMA StatusOne ==
    ASSUME StatusInv, UNCHANGED <<proxies, maintenance, checkerProject>>,
           NEW n \in Nodes, NEW s \in StatusRecord, status' = [status EXCEPT ![n] = s],
           Timed(s), Current(n, s), SameFailure(status[n], s)
    PROVE  StatusKept
<1>1. /\ status \in [Nodes -> StatusRecord]
      /\ \A m \in Nodes : status'[m] = IF m = n THEN s ELSE status[m]
    BY DEF StatusInv, StatusTyped
<1>2. StatusTyped'
    BY <1>1 DEF StatusTyped
<1>3. \A m \in Nodes : Timed(status'[m]) /\ Current(m, status'[m]) /\ SameFailure(status[m], status'[m])
    BY <1>1 DEF StatusInv, SameFailure
<1> QED BY <1>2, <1>3 DEF StatusKept, StatusInv, Current, Mode

\* The status the active run stores comes from the mode the node is in.
LEMMA ProgressKeeps ==
    ASSUME AvailabilityInv, NEW n \in Nodes, work[n] # "none", NEW next, NEW s, Progress(n, next, s),
           \/ s = status[n]
           \/ \E online \in BOOLEAN, d \in Verdicts : s = Stored(status[n], online, d, mode[n])
           \/ \E d \in Verdicts : s = Diagnosed(status[n], d)
    PROVE  StatusKept
<1>1. /\ status' = [status EXCEPT ![n] = s]
      /\ UNCHANGED <<proxies, maintenance, checkerProject>>
    BY DEF Progress, ground
<1>2. ControlTyped /\ StatusInv /\ n \in proxies /\ mode[n] = Mode(n) /\ mode[n] \in Modes
    BY DEF AvailabilityInv, GateInv, WorkIsCurrent, RunsTyped
<1>3. status[n] \in StatusRecord /\ Timed(status[n]) /\ Current(n, status[n])
    BY <1>2 DEF StatusInv, StatusTyped
<1>4. CASE s = status[n]
    BY <1>1, <1>2, <1>3, <1>4, StatusOne DEF SameFailure
<1>5. ASSUME NEW online \in BOOLEAN, NEW d \in Verdicts, s = Stored(status[n], online, d, mode[n])
      PROVE  StatusKept
  <2>1. s \in StatusRecord /\ Timed(s) /\ SameFailure(status[n], s) /\ s.mode = mode[n]
      BY <1>2, <1>3, <1>5, StoredFacts
  <2>2. Current(n, s)
      BY <1>2, <2>1 DEF Current
  <2> QED BY <1>1, <1>2, <2>1, <2>2, StatusOne
<1>6. ASSUME NEW d \in Verdicts, s = Diagnosed(status[n], d) PROVE StatusKept
  <2>1. /\ s \in StatusRecord /\ Timed(s) /\ SameFailure(status[n], s)
        /\ s.mode = status[n].mode /\ (s.state = "none" <=> status[n].state = "none")
      BY <1>2, <1>3, <1>6, DiagnosedFacts
  <2>2. Current(n, s)
      BY <1>3, <2>1 DEF Current
  <2> QED BY <1>1, <1>2, <2>1, <2>2, StatusOne
<1> QED BY <1>4, <1>5, <1>6

\* Whatever happens, the statuses stay timed and current, and a failure that
\* goes on keeps its clock.
LEMMA StatusStep ==
    ASSUME AvailabilityInv, [Next]_vars
    PROVE  StatusKept
<1>0. StatusInv /\ ControlTyped /\ GroundTyped
    BY DEF AvailabilityInv, GateInv
<1>1. ASSUME NEW n \in Nodes, HostCheck(n) \/ Probe(n) \/ Diagnose(n) PROVE StatusKept
  <2>1. \A i \in BOOLEAN : Diagnostics(n, i) \subseteq Verdicts
      BY DEF Diagnostics, Verdicts
  <2>2. None \in Verdicts /\ Interrupted \in BOOLEAN
      BY DEF Verdicts, Interrupted
  <2>3. CASE HostCheck(n)
    <3>1. work[n] # "none"
        BY <2>3 DEF HostCheck
    <3>2. CASE Interrupted
        BY <2>3, <3>1, <3>2, ProgressKeeps DEF HostCheck
    <3>3. CASE ~Interrupted
      <4>1. PICK d \in Diagnostics(n, FALSE) :
               Progress(n, IF d = "tcp" THEN "ready" ELSE "none", Stored(status[n], FALSE, d, mode[n]))
          BY <2>3, <3>3 DEF HostCheck
      <4> QED BY <2>1, <3>1, <4>1, ProgressKeeps
    <3> QED BY <3>2, <3>3
  <2>4. CASE Probe(n)
    <3>1. work[n] # "none"
        BY <2>4 DEF Probe
    <3>2. CASE Progress(n, "none", status[n])
        BY <3>1, <3>2, ProgressKeeps
    <3>3. CASE Progress(n, "none", Stored(status[n], TRUE, None, mode[n]))
        BY <2>2, <3>1, <3>3, ProgressKeeps
    <3>4. CASE Progress(n, "diagnose", Stored(status[n], FALSE, None, mode[n]))
        BY <2>2, <3>1, <3>4, ProgressKeeps
    <3> QED BY <2>4, <3>2, <3>3, <3>4 DEF Probe
  <2>5. CASE Diagnose(n)
    <3>1. work[n] # "none"
        BY <2>5 DEF Diagnose
    <3>2. PICK d \in Diagnostics(n, Interrupted) : Progress(n, "none", Diagnosed(status[n], d))
        BY <2>5 DEF Diagnose
    <3>3. d \in Verdicts
        BY <2>1, <2>2, <3>2
    <3> QED BY <3>1, <3>2, <3>3, ProgressKeeps
  <2> QED BY <1>1, <2>3, <2>4, <2>5
<1>2. ASSUME RefreshEnds PROVE StatusKept
  <2> DEFINE n == diag.node
  <2>1. /\ n \in Nodes
        /\ UNCHANGED <<proxies, maintenance, checkerProject>>
        /\ \E d \in Diagnostics(n, diag.dead) :
              status' = IF Failing(status[n]) /\ MonitoringEnabled(n)
                        THEN [status EXCEPT ![n] = Stored(status[n], FALSE, d, status[n].mode)]
                        ELSE status
    <3>1. n # None /\ n \in Nodes \cup {None}
        BY <1>2 DEF RefreshEnds, AvailabilityInv, GateInv, RunsTyped
    <3>2. status = [x \in Nodes |-> status[x]]
        BY <1>0 DEF StatusInv, StatusTyped
    <3> QED BY <1>2, <3>1, <3>2 DEF RefreshEnds, ground
  <2> HIDE DEF n
  <2>2. PICK d \in Diagnostics(n, diag.dead) :
            status' = IF Failing(status[n]) /\ MonitoringEnabled(n)
                      THEN [status EXCEPT ![n] = Stored(status[n], FALSE, d, status[n].mode)]
                      ELSE status
      BY <2>1
  <2>3. CASE ~(Failing(status[n]) /\ MonitoringEnabled(n))
      BY <1>0, <2>1, <2>2, <2>3, StatusSame
  <2>4. CASE Failing(status[n]) /\ MonitoringEnabled(n)
    <3> DEFINE s == Stored(status[n], FALSE, d, status[n].mode)
    <3>1. d \in Verdicts
        BY <2>2 DEF Diagnostics, Verdicts
    <3>2. /\ status[n] \in StatusRecord /\ Timed(status[n]) /\ Current(n, status[n])
          /\ status[n].mode \in Modes
        BY <1>0, <2>1 DEF StatusInv, StatusTyped, StatusRecord
    <3>3. s \in StatusRecord /\ Timed(s) /\ SameFailure(status[n], s) /\ s.mode = status[n].mode
        BY <1>0, <3>1, <3>2, StoredFacts
    <3>4. status' = [status EXCEPT ![n] = s]
        BY <2>2, <2>4
    <3> HIDE DEF s
    <3>5. Current(n, s)
        BY <2>4, <3>2, <3>3 DEF Current, Failing
    <3> QED BY <1>0, <2>1, <3>3, <3>4, <3>5, StatusOne
  <2> QED BY <2>3, <2>4
<1>3. ASSUME SetMaintenanceMode \/ ReplaceMaintenanceModes PROVE StatusKept
  <2>1. PICK paused : /\ maintenance' = paused
                      /\ status' = [n \in Nodes |-> IF (n \in paused) # (n \in maintenance)
                                                    THEN NoStatus ELSE status[n]]
                      /\ UNCHANGED <<proxies, checkerProject>>
      BY <1>3 DEF SetMaintenanceMode, ReplaceMaintenanceModes, SwitchMaintenance
  <2>2. \A n \in Nodes : \/ status'[n] = NoStatus
                         \/ status'[n] = status[n] /\ Mode(n)' = Mode(n)
      BY <2>1 DEF Mode
  <2> QED BY <1>0, <2>1, <2>2, StatusCleared
<1>4. ASSUME ClearProject PROVE StatusKept
  <2>1. /\ status' = [n \in Nodes |-> IF n \in proxies THEN NoStatus ELSE status[n]]
        /\ proxies' = proxies
      BY <1>4 DEF ClearProject
  <2> QED BY <1>0, <2>1, StatusCleared
<1>5. ASSUME UpdateProxies PROVE StatusKept
  <2>1. /\ status' = [n \in Nodes |-> IF n \in arg.nodes THEN status[n] ELSE NoStatus]
        /\ proxies' = arg.nodes /\ maintenance' = maintenance \cap arg.nodes
        /\ checkerProject' = checkerProject
      BY <1>5 DEF UpdateProxies
  <2>2. \A n \in arg.nodes : n \in proxies' /\ Mode(n)' = Mode(n)
      BY <2>1 DEF Mode
  <2> QED BY <1>0, <2>1, <2>2, StatusCleared
<1>6. ASSUME UNCHANGED <<status, proxies, maintenance, checkerProject>> PROVE StatusKept
    BY <1>0, <1>6, StatusSame
<1>7. ASSUME NEW r \in Runs, TakeGate(r) \/ Refuse(r) \/ Begin(r) \/ AfterRun(r) \/ Record(r)
      PROVE  StatusKept
    BY <1>6, <1>7 DEF TakeGate, Refuse, Begin, AfterRun, Record, ground
<1>8. ASSUME ProbePhase \/ Finish \/ NoCurrentIP PROVE StatusKept
    BY <1>6, <1>8 DEF ProbePhase, Finish, NoCurrentIP, ground
<1>9. ASSUME \/ \E w \in Writers, nodes \in SUBSET Nodes, on \in BOOLEAN : Enter(w, nodes, on)
             \/ \E n \in Nodes : SetMaintenance(n)
             \/ SetMaintenanceRefused \/ AccountMaintenance \/ SetProject \/ SetProjectFails
             \/ PauseProject \/ RefreshFails \/ SyncProxies
      PROVE  StatusKept
    BY <1>6, <1>9 DEF Enter, SetMaintenance, SetMaintenanceRefused, AccountMaintenance, SetProject,
          SetProjectFails, PauseProject, RefreshFails, SyncProxies, ground
<1>10. ASSUME \/ \E r \in Runs, nodes \in SUBSET Nodes, allow \in BOOLEAN : Start(r, nodes, allow)
              \/ CancelCheck
              \/ \E n \in Nodes : RefreshBegins(n)
              \/ \E w \in Writers : Announce(w)
              \/ \E nodes \in SUBSET panel : SetSourcePolicies(nodes)
       PROVE  StatusKept
    BY <1>6, <1>10 DEF Start, CancelCheck, RefreshBegins, Announce, SetSourcePolicies, ground
<1>11. ASSUME UNCHANGED vars PROVE StatusKept
    BY <1>6, <1>11 DEF vars, ground
<1> QED BY <1>1, <1>2, <1>3, <1>4, <1>5, <1>7, <1>8, <1>9, <1>10, <1>11
       DEF Next, RunStep, WriterStep, Environment, Quiet

-----------------------------------------------------------------------------
(* The inductive invariant, and what follows. *)

\* Startup: nothing runs, and what was restored is accounted.
LEMMA AvailabilityInvInit == Init => AvailabilityInv
<1> SUFFICES ASSUME Init PROVE AvailabilityInv
    OBVIOUS
<1>1. ControlTyped
  <2>1. project = FALSE /\ at = None /\ events = 0 /\ started = 0 /\ arg = [nodes |-> {}, on |-> FALSE]
      BY DEF Init
  <2>2. lock = [readers |-> {}, pending |-> None, writing |-> FALSE]
      BY DEF Init
  <2>3. lock \in [readers : SUBSET Runs, pending : Writers \cup {None}, writing : BOOLEAN]
      BY <2>2
  <2>4. events \in 0..MaxEvents /\ started \in 0..MaxRuns
      BY <2>1, BoundsAssumption
  <2>5. arg \in [nodes : SUBSET Nodes, on : BOOLEAN]
      BY <2>1
  <2> QED BY <2>1, <2>3, <2>4, <2>5 DEF ControlTyped
<1>2. GroundTyped /\ RunsTyped
    BY DEF Init, GroundTyped, RunsTyped, Modes
<1>3. LockShape
    BY DEF Init, LockShape
<1>4. OneActiveRun /\ WorkIsCurrent
    BY DEF Init, OneActiveRun, WorkIsCurrent
<1>5. ASSUME NEW s \in Restored
      PROVE  s \in StatusRecord /\ Timed(s) /\ s.mode = "live"
  <2>1. "down" \in Verdicts /\ "tcp" \in Verdicts /\ "live" \in Modes /\ NoStatus.mode = "live"
      BY DEF Verdicts, Modes, NoStatus
  <2>2. CASE s = NoStatus
      BY <2>1, <2>2, NoStatusFacts
  <2>3. CASE s = Stored(NoStatus, FALSE, "down", "live")
      BY <1>1, <2>1, <2>3, NoStatusFacts, StoredFacts
  <2>4. CASE s = Stored(NoStatus, FALSE, "tcp", "live")
      BY <1>1, <2>1, <2>4, NoStatusFacts, StoredFacts
  <2> QED BY <1>5, <2>2, <2>3, <2>4 DEF Restored
<1>6. /\ status \in [Nodes -> Restored]
      /\ \A n \in Nodes : n \in proxies /\ Mode(n) = "live"
    BY DEF Init, Mode
<1>7. StatusInv
    BY <1>5, <1>6 DEF StatusInv, StatusTyped, Current
<1>8. ArchiveInv
  <2> DEFINE fresh == [active |-> TRUE, maint |-> FALSE, down |-> 0, proxyFailure |-> 0]
  <2>1. fresh \in ArchiveRecord /\ NothingOpen(fresh) /\ fresh.active /\ ~fresh.maint
      BY BoundsAssumption DEF ArchiveRecord, NothingOpen, Time
  <2>2. /\ record = [n \in Nodes |-> Opened(fresh, status[n])]
        /\ incidents = {n \in Nodes : status[n].state = "offline"}
      BY DEF Init
  <2> HIDE DEF fresh
  <2>3. ASSUME NEW n \in Nodes
        PROVE  record[n] \in ArchiveRecord /\ Accounted(record[n], n \in incidents, n \notin panel)
    <3>1. status[n] \in StatusRecord /\ status[n].state \in States
        BY <1>7, <2>3 DEF StatusInv, StatusTyped, StatusRecord
    <3>2. /\ Opened(fresh, status[n]) \in ArchiveRecord
          /\ Opened(fresh, status[n]).active = fresh.active /\ Opened(fresh, status[n]).maint = fresh.maint
          /\ status[n].state = "online" => NothingOpen(Opened(fresh, status[n]))
          /\ status[n].state = "proxy_failure" => Opened(fresh, status[n]).down = 0
          /\ status[n].state = "offline" => Opened(fresh, status[n]).proxyFailure = 0
          /\ status[n].state = "none" => Opened(fresh, status[n]) = fresh
        BY <2>1, <3>1, OpenedFacts
    <3>3. record[n] = Opened(fresh, status[n]) /\ (n \in incidents <=> status[n].state = "offline")
        BY <2>2, <2>3
    <3> QED BY <2>1, <3>1, <3>2, <3>3 DEF Accounted, NothingOpen, States
  <2> QED BY <2>2, <2>3 DEF ArchiveInv, ArchiveTyped
<1> QED BY <1>1, <1>2, <1>3, <1>4, <1>7, <1>8 DEF AvailabilityInv, GateInv

\* Every step keeps the invariant.
LEMMA AvailabilityInvStep == AvailabilityInv /\ [Next]_vars => AvailabilityInv'
<1> SUFFICES ASSUME AvailabilityInv, [Next]_vars PROVE AvailabilityInv'
    OBVIOUS
<1>1. StatusInv' /\ ArchiveInv'
    BY StatusStep, ArchiveStep DEF StatusKept
<1>2. ASSUME UNCHANGED vars PROVE GateInv'
  <2>1. /\ UNCHANGED control /\ UNCHANGED ground /\ UNCHANGED running /\ UNCHANGED <<diag, list>>
      BY <1>2 DEF vars
  <2>2. ControlTyped' /\ GroundTyped' /\ RunsTyped'
      BY <2>1 DEF AvailabilityInv, GateInv, ControlTyped, GroundTyped, RunsTyped, control, lifecycle,
            ground, sources, running
  <2> QED BY <2>1, <2>2, GateSame DEF AvailabilityInv, control, lifecycle, ground, running
<1>3. GateInv'
    BY <1>2, GateRunStep, GateWriterStep, GateEnvironmentStep DEF Next, Quiet
<1> QED BY <1>1, <1>3 DEF AvailabilityInv

\* The invariant holds in every reachable state.
LEMMA AvailabilityInvariant == Spec => []AvailabilityInv
BY AvailabilityInvInit, AvailabilityInvStep, PTL DEF Spec

\* TypeOK: every variable keeps its type; the readers of the lifecycle lock
\* are exactly the runs past the gate, and it is written exactly while a
\* writer is at work.
THEOREM AvailabilityTyped == Spec => []TypeOK
<1>1. AvailabilityInv => TypeOK
    BY DEF AvailabilityInv, GateInv, StatusInv, ArchiveInv, ControlTyped, GroundTyped, RunsTyped,
          LockShape, StatusTyped, StatusRecord, ArchiveTyped, ArchiveRecord, TypeOK
<1> QED BY <1>1, AvailabilityInvariant, PTL

\* ModeBoundary: no status outlives the mode it was found in, whatever runs,
\* diagnostics and writers interleave.
THEOREM StatusesOfTheMode == Spec => []ModeBoundary
<1>1. AvailabilityInv => ModeBoundary
    BY DEF AvailabilityInv, StatusInv, Current, ModeBoundary
<1> QED BY <1>1, AvailabilityInvariant, PTL

\* TimersMatchState: DownSince, ProxyFailureSince and FailingSince run exactly
\* in their states, whichever of the writers of a status was last.
THEOREM TimersAgree == Spec => []TimersMatchState
<1>1. ASSUME NEW s, Timed(s)
      PROVE  /\ (s.down # 0) = (s.state = "offline")
             /\ (s.proxyFailure # 0) = (s.state = "proxy_failure")
             /\ (s.failing # 0) = Failing(s)
    BY <1>1 DEF Timed, Failing
<1>2. AvailabilityInv => TimersMatchState
    BY <1>1 DEF AvailabilityInv, StatusInv, TimersMatchState
<1> QED BY <1>2, AvailabilityInvariant, PTL

\* PausedNotAccounted: a node the operator has paused has nothing open, however
\* late an accounting pass that has read its list before comes.
THEOREM PausedStayClosed == Spec => []PausedNotAccounted
<1>1. AvailabilityInv => PausedNotAccounted
    BY ArchiveForms DEF AvailabilityInv
<1> QED BY <1>1, AvailabilityInvariant, PTL

\* AccountingAgrees: the registry of downtime and the journal of incidents tell
\* one story.
THEOREM RegistryAgreesWithJournal == Spec => []AccountingAgrees
<1>1. AvailabilityInv => AccountingAgrees
    BY ArchiveForms DEF AvailabilityInv
<1> QED BY <1>1, AvailabilityInvariant, PTL

\* FailureClockKept: ServiceFailureSince does not move while a node keeps
\* failing.
THEOREM FailureClocksKept == Spec => FailureClockKept
<1>1. AvailabilityInv /\ [Next]_vars
         => [\A n \in Nodes : Failing(status[n]) /\ Failing(status'[n])
                => ServiceFailureSince(status'[n]) = ServiceFailureSince(status[n])]_vars
    BY StatusStep DEF StatusKept, SameFailure
<1> QED BY <1>1, AvailabilityInvariant, PTL DEF Spec, FailureClockKept

\* RunSeesOneConfiguration: between Begin and Finish of a run no writer is at
\* work, so that the nodes and their modes stay as the run found them.
THEOREM OneConfigurationPerRun == Spec => RunSeesOneConfiguration
<1>1. ASSUME AvailabilityInv, [Next]_vars, activeRun # None
      PROVE  UNCHANGED <<proxies, maintenance, checkerProject>>
  <2>1. at = None
      BY <1>1, ActiveExcludesWriter DEF AvailabilityInv
  <2>2. CASE RunStep
      BY <2>2 DEF RunStep, TakeGate, Refuse, Begin, AfterRun, Record, HostCheck, Probe, Diagnose, Progress,
            ProbePhase, Finish, NoCurrentIP, ground
  <2>3. CASE WriterStep
      BY <2>1, <2>3 DEF WriterStep, Enter, SetMaintenanceRefused, SetMaintenance, SetMaintenanceMode,
            AccountMaintenance, SetProject, SetProjectFails, ClearProject, PauseProject, RefreshFails,
            UpdateProxies, SyncProxies, ReplaceMaintenanceModes, ground, None
  <2>4. CASE Environment
      BY <2>4 DEF Environment, Start, CancelCheck, RefreshBegins, RefreshEnds, Announce,
            SetSourcePolicies, ground
  <2>5. CASE UNCHANGED vars
      BY <2>5 DEF vars, ground
  <2> QED BY <1>1, <2>2, <2>3, <2>4, <2>5 DEF Next, Quiet
<1>2. AvailabilityInv /\ [Next]_vars
         => [activeRun # None => UNCHANGED <<proxies, maintenance, checkerProject>>]_vars
    BY <1>1
<1> QED BY <1>2, AvailabilityInvariant, PTL DEF Spec, RunSeesOneConfiguration
=============================================================================

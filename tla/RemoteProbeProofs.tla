------------------------- MODULE RemoteProbeProofs -------------------------
(***************************************************************************)
(* Proofs about remote diagnostics, for any sets of sessions, agents,      *)
(* nodes, creators and polls, any limits, and any number of losses.        *)
(***************************************************************************)
EXTENDS RemoteProbe, DiagnosticSessionsProofs, FiniteSetTheorems

Request == [pc : {"idle", "asked", "register"}, auto : BOOLEAN, node : Nodes \cup {NoOne},
            agent : Agents \cup {NoOne}, gen : Nat, sess : Sessions \cup {NoJob}]

Submission == [pc : {"none", "check", "accept", "drop"}, job : Sessions \cup {NoJob}, checked : Int]

\* The types of what the controller, the handlers and the agents keep.
ControllerTypeOK ==
    /\ queue \in [Sessions -> {"none", "queued", "claimed"}]
    /\ node \in [Sessions -> Nodes \cup {NoOne}]
    /\ who \in [Sessions -> Agents \cup {NoOne}]
    /\ due \in [Sessions -> Nat]
    /\ sgen \in [Sessions -> Nat]
    /\ holder \in Creators \cup {NoOne}
    /\ ask \in [Creators -> Request]
    /\ dropJobs \subseteq Sessions
    /\ dropNodes \subseteq Nodes
    /\ token \subseteq Agents

AgentTypeOK ==
    /\ poll \in [Agents -> [Polls -> {"none", "awake", "asleep"}]]
    /\ sub \in [Agents -> Submission]
    /\ apc \in [Agents -> {"idle", "polling", "probing", "waiting"}]
    /\ conn \in [Agents -> Polls \cup {NoOne}]
    /\ ajob \in [Agents -> Sessions \cup {NoJob}]
    /\ refused \in [Agents -> SUBSET Sessions]
    /\ gen \in Nat
    /\ paused \subseteq Nodes
    /\ runs \in [Sessions -> Nat]
    /\ losses \in Nat

\* A session has one agent and its job expires with it, so it is active
\* exactly while the job is open and the deadline has not come.
SoloSessions ==
    \A s \in Sessions : s \in Live =>
        /\ who[s] \in Agents
        /\ requested[s] = {who[s]}
        /\ Active(s) => jstate[s][who[s]] \notin ClosedJobs
        /\ jstate[s][who[s]] # "none" => /\ due[s] = deadline[s]
                                         /\ jdeadline[s][who[s]] = deadline[s]
        /\ queue[s] # "none" => jstate[s][who[s]] # "none"

UnusedIsUnknown ==
    \A s \in Sessions : sstate[s] = "none" => queue[s] = "none" /\ runs[s] = 0 /\ s \notin dropJobs

\* c.mu is held across steps by the creator that registers, and by no other.
LockIsRegistering ==
    /\ \A c \in Creators : ask[c].pc = "register" =>
          /\ holder = c
          /\ ask[c].sess \in Sessions
          /\ sstate[ask[c].sess] # "none"
          /\ who[ask[c].sess] = ask[c].agent
    /\ holder # NoOne => holder \in Creators /\ ask[holder].pc = "register"

\* What is submitted belongs to a session of the agent, which an accepted
\* observation has ended.
SubmissionsAreOwn ==
    \A a \in Agents : sub[a].pc # "none" =>
        /\ sub[a].job \in Sessions
        /\ sstate[sub[a].job] # "none"
        /\ who[sub[a].job] = a
        /\ sub[a].pc = "drop" => ~Active(sub[a].job)

AgentsWorkOnTheirOwn ==
    \A a \in Agents :
        /\ apc[a] \in {"probing", "waiting"} =>
              /\ ajob[a] \in Sessions
              /\ sstate[ajob[a]] # "none"
              /\ who[ajob[a]] = a
              /\ ajob[a] \notin refused[a]
        /\ conn[a] # NoOne => apc[a] = "polling"

\* The inductive invariant.
ProbeInv ==
    /\ ManagerInv
    /\ ControllerTypeOK
    /\ AgentTypeOK
    /\ SoloSessions
    /\ UnusedIsUnknown
    /\ LockIsRegistering
    /\ SubmissionsAreOwn
    /\ AgentsWorkOnTheirOwn
    /\ AssignmentsAreBacked

\* A session waits for its observation.
Waiting(s) == Active(s) /\ now < deadline[s]

(***************************************************************************)
(* Every waiting session is in the queue or about to be, which is what     *)
(* makes looking at the queue enough to keep pairs apart.                  *)
(***************************************************************************)
WaitingIsQueued ==
    /\ \A s \in Sessions : Waiting(s) =>
          queue[s] # "none" \/ \E c \in Creators : ask[c].pc = "register" /\ ask[c].sess = s
    /\ \A s \in dropJobs : ~Active(s)
    /\ dropNodes = {}

PairsApart ==
    \A s, o \in Sessions :
        s # o /\ Waiting(s) /\ Waiting(o) => <<node[s], who[s]>> # <<node[o], who[o]>>

PairInv == WaitingIsQueued /\ PairsApart

(***************************************************************************)
(* A job that was executed as often as the losses allow is in the agent's  *)
(* hands, has been refused to it, or is out of the queue for good.         *)
(***************************************************************************)
RunsAreSpent ==
    \A s \in Sessions :
        /\ runs[s] <= 1 + losses
        /\ runs[s] > 0 => s \notin Live \/ jstate[s][who[s]] # "none"
        /\ runs[s] = 1 + losses =>
              \/ who[s] \in Agents /\ apc[who[s]] \in {"probing", "waiting"} /\ ajob[who[s]] = s
              \/ who[s] \in Agents /\ s \in refused[who[s]]
              \/ queue[s] = "none"

-----------------------------------------------------------------------------
(* The manager's operations as the controller sees them. *)

\* Session x has at most expired.
Passive(x) ==
    /\ (sstate'[x] = "none") <=> (sstate[x] = "none")
    /\ (sstate'[x] = "gone") <=> (sstate[x] = "gone")
    /\ sstate'[x] \in ActiveStates => sstate[x] \in ActiveStates
    /\ sstate[x] \in ActiveStates /\ sstate'[x] \notin ActiveStates => deadline[x] <= now
    /\ requested'[x] = requested[x]
    /\ deadline'[x] = deadline[x]
    /\ jdeadline'[x] = jdeadline[x]
    /\ x \in Live => /\ (jstate'[x][who[x]] = "none") <=> (jstate[x][who[x]] = "none")
                     /\ sstate'[x] \in ActiveStates => jstate'[x][who[x]] \notin ClosedJobs

\* Steps that leave the manager alone.
LEMMA UnchangedEffect ==
    ASSUME ProbeInv, UNCHANGED mvars
    PROVE  \A x \in Sessions : Passive(x)
BY DEF ProbeInv, SoloSessions, Passive, mvars, Live, Active, ActiveStates

\* The passing of time alone changes no session.
LEMMA TickEffect ==
    ASSUME ProbeInv, Tick
    PROVE  \A x \in Sessions : Passive(x)
BY DEF ProbeInv, SoloSessions, Passive, Tick, Live, Active, ActiveStates

\* Deriving a session with one agent from the job table js: it stays active
\* exactly while its job is open or missing and its deadline is ahead.
LEMMA SoloDerived ==
    ASSUME ProbeInv, NEW t \in Nat, NEW js \in JobTable, NEW x \in Sessions, Active(x),
           \A b \in Agents : js[x][b] # "none" => b \in requested[x]
    PROVE  /\ StatesAfter(js, t)[x] \in ActiveStates <=>
                  js[x][who[x]] \notin ClosedJobs /\ t < deadline[x]
           /\ js[x][who[x]] = "completed" => StatesAfter(js, t)[x] = "completed"
           /\ StatesAfter(js, t)[x] \in ActiveStates \cup TerminalStates
           /\ (JobsAfter(js, t)[x][who[x]] = "none") <=> (js[x][who[x]] = "none")
           /\ StatesAfter(js, t)[x] \in ActiveStates => JobsAfter(js, t)[x][who[x]] = js[x][who[x]]
<1>0. /\ who[x] \in Agents
      /\ requested[x] = {who[x]}
    BY DEF ProbeInv, SoloSessions, Live, Active, ActiveStates
<1>1. /\ who[x] \in Agents
      /\ requested[x] = {who[x]}
      /\ deadline[x] \in Nat
      /\ js[x][who[x]] \in JobStates
    BY <1>0 DEF ProbeInv, ManagerInv, ManagerTypeOK, JobTable
<1>2. /\ AllCompleted(x, js) <=> js[x][who[x]] = "completed"
      /\ AllClosed(x, js) <=> js[x][who[x]] \in ClosedJobs
    BY <1>1 DEF AllCompleted, AllClosed
<1>3. StatesAfter(js, t)[x] = DerivedState(x, js, t)
    BY DEF StatesAfter
<1>4. JobsAfter(js, t)[x][who[x]] =
         IF Closes(x, js, t) /\ js[x][who[x]] \in OpenJobs THEN "expired" ELSE js[x][who[x]]
    BY <1>1 DEF JobsAfter
<1>5. Closes(x, js, t) <=> /\ js[x][who[x]] # "completed"
                           /\ ~(t < deadline[x]) \/ js[x][who[x]] \in ClosedJobs
    BY <1>1, <1>2 DEF Closes
<1>6. CASE js[x][who[x]] = "completed"
    BY <1>2, <1>3, <1>4, <1>5, <1>6 DEF DerivedState, ActiveStates, TerminalStates, ClosedJobs, OpenJobs
<1>7. CASE js[x][who[x]] # "completed" /\ Closes(x, js, t)
    BY <1>2, <1>3, <1>4, <1>5, <1>7 DEF DerivedState, ActiveStates, TerminalStates, OpenJobs
<1>8. CASE js[x][who[x]] # "completed" /\ ~Closes(x, js, t)
    BY <1>2, <1>3, <1>4, <1>5, <1>8 DEF DerivedState, ActiveStates, TerminalStates, OpenJobs
<1> QED BY <1>6, <1>7, <1>8

\* A job that expires with its session lapses only at the session's deadline.
LEMMA SoloLapsed ==
    ASSUME ProbeInv, NEW t \in Nat, NEW x \in Sessions, Active(x)
    PROVE  /\ (Lapsed(t)[x][who[x]] \in ClosedJobs) => ~(t < deadline[x])
           /\ (Lapsed(t)[x][who[x]] = "none") <=> (jstate[x][who[x]] = "none")
           /\ t < deadline[x] => Lapsed(t)[x][who[x]] = jstate[x][who[x]]
           /\ \A b \in Agents : Lapsed(t)[x][b] # "none" => b \in requested[x]
<1>1. /\ who[x] \in Agents
      /\ jstate[x][who[x]] \notin ClosedJobs
      /\ jstate[x][who[x]] # "none" => jdeadline[x][who[x]] = deadline[x]
      /\ deadline[x] \in Nat
    BY DEF ProbeInv, SoloSessions, ManagerInv, ManagerTypeOK, Live, Active, ActiveStates
<1>2. Lapsed(t)[x][who[x]] =
         IF jstate[x][who[x]] \in OpenJobs /\ jdeadline[x][who[x]] <= t
         THEN "expired" ELSE jstate[x][who[x]]
    BY <1>1 DEF Lapsed
<1>3. \A b \in Agents : Lapsed(t)[x][b] # "none" => b \in requested[x]
    BY LapsedFacts DEF ProbeInv, ManagerInv, AllConsistent, Consistent, OpenJobs
<1> QED BY <1>1, <1>2, <1>3 DEF OpenJobs

\* The manager would still take the observation at time t.
LEMMA SoloActiveAt ==
    ASSUME ProbeInv, NEW t \in Nat, NEW x \in Sessions
    PROVE  ActiveAt(x, t) <=> Active(x) /\ t < deadline[x]
<1>1. CASE Active(x)
  <2>1. Lapsed(t) \in JobTable
      BY LapsedFacts DEF ProbeInv, ManagerInv
  <2>2. StatesAfter(Lapsed(t), t)[x] \in ActiveStates <=>
            Lapsed(t)[x][who[x]] \notin ClosedJobs /\ t < deadline[x]
      BY <1>1, <2>1, SoloLapsed, SoloDerived
  <2>3. StatesAfter(Lapsed(t), t)[x] = DerivedState(x, Lapsed(t), t)
      BY <1>1 DEF StatesAfter
  <2> QED BY <1>1, <2>2, <2>3, SoloLapsed DEF ActiveAt
<1>2. CASE ~Active(x)
    BY <1>2 DEF ActiveAt
<1> QED BY <1>1, <1>2

\* Expiring and deriving a session whose job nobody touches.
LEMMA ExpiredPassive ==
    ASSUME ProbeInv, NEW t \in ReadTime, NEW js \in JobTable, NEW x \in Sessions,
           js[x] = Lapsed(t)[x],
           sstate'[x] = StatesAfter(js, t)[x],
           jstate'[x] = JobsAfter(js, t)[x],
           requested'[x] = requested[x],
           deadline'[x] = deadline[x],
           jdeadline'[x] = jdeadline[x]
    PROVE  Passive(x)
<1>1. ManagerTypeOK
    BY DEF ProbeInv, ManagerInv
<1>2. t \in Nat /\ now \in Nat /\ t <= now /\ deadline[x] \in Nat
    BY <1>1, ReadTimeFacts DEF ManagerTypeOK
<1>3. CASE Active(x)
  <2>1. /\ (js[x][who[x]] \in ClosedJobs) => ~(t < deadline[x])
        /\ (js[x][who[x]] = "none") <=> (jstate[x][who[x]] = "none")
        /\ \A b \in Agents : js[x][b] # "none" => b \in requested[x]
      BY <1>2, <1>3, SoloLapsed
  <2>2. /\ sstate'[x] \in ActiveStates <=> js[x][who[x]] \notin ClosedJobs /\ t < deadline[x]
        /\ sstate'[x] \in ActiveStates \cup TerminalStates
        /\ (jstate'[x][who[x]] = "none") <=> (js[x][who[x]] = "none")
        /\ sstate'[x] \in ActiveStates => jstate'[x][who[x]] = js[x][who[x]]
      BY <1>2, <1>3, <2>1, SoloDerived
  <2> QED BY <1>2, <1>3, <2>1, <2>2 DEF Passive, Active, ActiveStates, TerminalStates
<1>4. CASE ~Active(x)
  <2>1. sstate'[x] = sstate[x] /\ jstate'[x] = jstate[x]
      BY <1>1, <1>4, LapsedFacts, DerivedFacts
  <2> QED BY <1>4, <2>1 DEF Passive, Active
<1> QED BY <1>3, <1>4

\* Expiring sessions changes only those whose deadline has come.
LEMMA ExpireEffect ==
    ASSUME ProbeInv, NEW t \in ReadTime, Expire(t)
    PROVE  \A x \in Sessions : Passive(x)
<1> TAKE x \in Sessions
<1>1. Lapsed(t) \in JobTable
    BY LapsedFacts DEF ProbeInv, ManagerInv
<1> QED BY <1>1, ExpiredPassive DEF Expire, Derive

\* What a step does that moves the job of session s and derives all sessions.
LEMMA MoveEffect ==
    ASSUME ProbeInv, NEW t \in ReadTime, NEW s \in Sessions, NEW a \in Agents, ActiveAt(s, t),
           who[s] = a,
           UNCHANGED <<requested, deadline>>,
           \A x \in Sessions : x # s => jdeadline'[x] = jdeadline[x]
    PROVE  \A st \in JobStates : st # "none" /\ Derive(Moved(s, a, st, t), t) =>
              /\ \A x \in Sessions : x # s => Passive(x)
              /\ sstate'[s] \in ActiveStates \cup TerminalStates
              /\ (sstate'[s] \in ActiveStates) <=> (st \notin ClosedJobs)
              /\ sstate'[s] \in ActiveStates => jstate'[s][a] = st
              /\ jstate'[s][a] # "none"
<1> SUFFICES ASSUME NEW st \in JobStates, st # "none", Derive(Moved(s, a, st, t), t)
             PROVE  /\ \A x \in Sessions : x # s => Passive(x)
                    /\ sstate'[s] \in ActiveStates \cup TerminalStates
                    /\ (sstate'[s] \in ActiveStates) <=> (st \notin ClosedJobs)
                    /\ sstate'[s] \in ActiveStates => jstate'[s][a] = st
                    /\ jstate'[s][a] # "none"
    OBVIOUS
<1> DEFINE js == Moved(s, a, st, t)
<1>1. ManagerTypeOK /\ t \in Nat
    BY ReadTimeFacts DEF ProbeInv, ManagerInv
<1>2. Active(s) /\ t < deadline[s]
    BY <1>1, SoloActiveAt
<1>3. /\ js \in JobTable
      /\ \A o \in Sessions : ~Active(o) => js[o] = jstate[o]
      /\ \A o \in Sessions, b \in Agents : js[o][b] = IF o = s /\ b = a THEN st ELSE Lapsed(t)[o][b]
    BY <1>1, <1>2, MovedFacts
<1>4. \A x \in Sessions : x # s => js[x] = Lapsed(t)[x]
    BY <1>1, LapsedFacts DEF Moved, JobTable
<1>5. \A x \in Sessions : sstate'[x] = StatesAfter(js, t)[x] /\ jstate'[x] = JobsAfter(js, t)[x]
    BY DEF Derive
<1>6. a \in requested[s]
    BY <1>2 DEF ProbeInv, SoloSessions, Live, Active, ActiveStates
<1>7. \A b \in Agents : js[s][b] # "none" => b \in requested[s]
    BY <1>1, <1>2, <1>3, <1>6, SoloLapsed
<1> HIDE DEF js
<1>8. ASSUME NEW x \in Sessions, x # s PROVE Passive(x)
    BY <1>3, <1>4, <1>5, <1>8, ExpiredPassive
<1>9. js[s][who[s]] = st
    BY <1>3
<1>10. /\ StatesAfter(js, t)[s] \in ActiveStates <=>
               js[s][who[s]] \notin ClosedJobs /\ t < deadline[s]
       /\ StatesAfter(js, t)[s] \in ActiveStates \cup TerminalStates
       /\ (JobsAfter(js, t)[s][who[s]] = "none") <=> (js[s][who[s]] = "none")
       /\ StatesAfter(js, t)[s] \in ActiveStates => JobsAfter(js, t)[s][who[s]] = js[s][who[s]]
    BY <1>1, <1>2, <1>3, <1>7, SoloDerived
<1> QED BY <1>2, <1>5, <1>8, <1>9, <1>10

\* RegisterJob opens the job of its session and leaves it active.
LEMMA RegisterEffect ==
    ASSUME ProbeInv, NEW t \in ReadTime, NEW s \in Sessions, NEW a \in Agents, who[s] = a,
           RegisterJob(s, a, deadline[s], t)
    PROVE  /\ \A x \in Sessions : x # s => Passive(x)
           /\ sstate[s] \in ActiveStates /\ sstate'[s] \in ActiveStates
           /\ jstate[s][a] = "none"
           /\ jstate'[s][a] \notin ClosedJobs /\ jstate'[s][a] # "none"
           /\ jdeadline'[s][a] = deadline[s]
           /\ requested' = requested /\ deadline' = deadline
<1>1. /\ ActiveAt(s, t)
      /\ jstate[s][a] = "none"
      /\ UNCHANGED <<requested, deadline>>
      /\ Derive(Moved(s, a, "pending", t), t)
    BY DEF RegisterJob, Moved
<1>2. /\ \A x \in Sessions : x # s => jdeadline'[x] = jdeadline[x]
      /\ jdeadline'[s][a] = deadline[s]
    BY DEF RegisterJob, ProbeInv, ManagerInv, ManagerTypeOK
<1>3. "pending" \in JobStates /\ "pending" \notin ClosedJobs
    BY DEF JobStates, OpenJobs, ClosedJobs
<1>4. /\ \A x \in Sessions : x # s => Passive(x)
      /\ sstate'[s] \in ActiveStates
      /\ jstate'[s][a] = "pending"
    BY <1>1, <1>2, <1>3, MoveEffect
<1> QED BY <1>1, <1>2, <1>3, <1>4 DEF ActiveAt, Active

\* Marking a job running lets its session stay as it is.
LEMMA TransitionEffect ==
    ASSUME ProbeInv, NEW t \in ReadTime, NEW s \in Sessions, NEW a \in Agents, who[s] = a,
           TransitionJob(s, a, "running", t)
    PROVE  \A x \in Sessions : Passive(x)
<1>1. /\ ActiveAt(s, t)
      /\ Lapsed(t)[s][a] # "none"
      /\ UNCHANGED <<requested, deadline, jdeadline>>
      /\ Derive(Moved(s, a, "running", t), t)
    BY DEF TransitionJob, Moved
<1>2. "running" \in JobStates /\ "running" \notin ClosedJobs
    BY DEF JobStates, OpenJobs, ClosedJobs
<1>3. /\ \A x \in Sessions : x # s => Passive(x)
      /\ sstate'[s] \in ActiveStates
      /\ jstate'[s][a] = "running"
    BY <1>1, <1>2, MoveEffect
<1>4. Active(s) /\ jstate[s][a] # "none"
  <2>1. t \in Nat /\ Active(s)
      BY <1>1, ReadTimeFacts DEF ActiveAt, ProbeInv, ManagerInv
  <2> QED BY <1>1, <2>1, SoloLapsed
<1>5. Passive(s)
    BY <1>1, <1>2, <1>3, <1>4 DEF Passive, Active, ActiveStates
<1> QED BY <1>3, <1>5

\* An accepted observation ends its session, which has no other agent.
LEMMA AcceptEffect ==
    ASSUME ProbeInv, NEW t \in ReadTime, NEW s \in Sessions, NEW a \in Agents, who[s] = a,
           NEW checked, AcceptObservation(s, a, checked, t)
    PROVE  /\ \A x \in Sessions : x # s => Passive(x)
           /\ s \in Live
           /\ sstate'[s] \in TerminalStates
           /\ jstate[s][a] # "none" /\ jstate'[s][a] # "none"
           /\ requested' = requested /\ deadline' = deadline /\ jdeadline' = jdeadline
<1>1. /\ ActiveAt(s, t) /\ s \in Live
      /\ jstate[s][a] # "none"
      /\ UNCHANGED <<requested, deadline, jdeadline>>
      /\ Derive(Moved(s, a, "completed", t), t)
    BY DEF AcceptObservation, Moved
<1>2. "completed" \in JobStates /\ "completed" \in ClosedJobs
    BY DEF JobStates, ClosedJobs
<1>3. /\ \A x \in Sessions : x # s => Passive(x)
      /\ sstate'[s] \in ActiveStates \cup TerminalStates
      /\ sstate'[s] \notin ActiveStates
      /\ jstate'[s][a] # "none"
    BY <1>1, <1>2, MoveEffect
<1> QED BY <1>1, <1>3

\* A cancelled session ends with the job it has or has not.
LEMMA CancelEffect ==
    ASSUME ProbeInv, NEW t \in ReadTime, NEW s \in Sessions, CancelSession(s, t)
    PROVE  /\ \A x \in Sessions : x # s => Passive(x)
           /\ sstate[s] \in ActiveStates
           /\ sstate'[s] = "cancelled"
           /\ (jstate'[s][who[s]] = "none") <=> (jstate[s][who[s]] = "none")
           /\ requested' = requested /\ deadline' = deadline /\ jdeadline' = jdeadline
<1>1. /\ Lapsed(t) \in JobTable /\ t \in Nat
      /\ StatesAfter(Lapsed(t), t) \in [Sessions -> ActiveStates \cup TerminalStates \cup {"none", "gone"}]
      /\ JobsAfter(Lapsed(t), t) \in JobTable
    BY LapsedFacts, ExpiredFacts, ReadTimeFacts DEF ProbeInv, ManagerInv
<1>2. /\ Active(s)
      /\ \A x \in Sessions : x # s => /\ sstate'[x] = StatesAfter(Lapsed(t), t)[x]
                                      /\ jstate'[x] = JobsAfter(Lapsed(t), t)[x]
      /\ sstate'[s] = "cancelled"
      /\ jstate'[s] = [a \in Agents |-> IF Lapsed(t)[s][a] \in OpenJobs THEN "cancelled" ELSE Lapsed(t)[s][a]]
      /\ UNCHANGED <<requested, deadline, jdeadline>>
    BY <1>1 DEF CancelSession, ActiveAt, JobTable
<1>3. ASSUME NEW x \in Sessions, x # s PROVE Passive(x)
    BY <1>1, <1>2, <1>3, ExpiredPassive
<1>4. who[s] \in Agents
    BY <1>2 DEF ProbeInv, SoloSessions, Live, Active, ActiveStates
<1>5. (jstate'[s][who[s]] = "none") <=> (jstate[s][who[s]] = "none")
    BY <1>1, <1>2, <1>4, SoloLapsed DEF OpenJobs
<1> QED BY <1>2, <1>3, <1>5 DEF Active

\* Making room removes only sessions whose deadline has come or that ended.
LEMMA CreateEffect ==
    ASSUME ProbeInv, NEW t \in ReadTime, NEW s \in Sessions, NEW a \in Agents,
           NEW ttl \in Nat, NEW ev, CreateSession(s, {a}, ttl, ev, t)
    PROVE  /\ \A x \in Sessions : x # s /\ x \notin ev => Passive(x)
           /\ \A x \in Sessions : x \in ev =>
                 /\ x # s /\ x \in Live
                 /\ sstate'[x] = "gone"
                 /\ sstate[x] \in ActiveStates => deadline[x] <= now
           /\ sstate[s] = "none" /\ sstate'[s] = "requested"
           /\ requested'[s] = {a}
           /\ deadline'[s] = t + ttl
           /\ \A b \in Agents : jstate'[s][b] = "none"
<1>1. /\ Lapsed(t) \in JobTable
      /\ ManagerTypeOK
      /\ t \in Nat /\ now \in Nat /\ t <= now
    BY LapsedFacts, ReadTimeFacts DEF ProbeInv, ManagerInv, ManagerTypeOK
<1>2. \A x \in ev : /\ x \in Sessions
                    /\ sstate[x] \notin {"none", "gone"}
                    /\ StatesAfter(Lapsed(t), t)[x] \in TerminalStates
    BY EvictsFacts DEF ProbeInv, CreateSession
<1>3. sstate[s] = "none" /\ s \notin ev
    BY <1>2 DEF CreateSession
<1>4. \A x \in Sessions :
         /\ sstate'[x] = IF x = s THEN "requested" ELSE IF x \in ev THEN "gone"
                         ELSE StatesAfter(Lapsed(t), t)[x]
         /\ jstate'[x] = IF x \in ev THEN [b \in Agents |-> "none"] ELSE JobsAfter(Lapsed(t), t)[x]
         /\ requested'[x] = IF x = s THEN {a} ELSE IF x \in ev THEN {} ELSE requested[x]
         /\ deadline'[x] = IF x = s THEN t + ttl ELSE IF x \in ev THEN 0 ELSE deadline[x]
         /\ jdeadline'[x] = IF x \in ev THEN NoTimes ELSE jdeadline[x]
    BY DEF CreateSession, Forget
<1>5. ASSUME NEW x \in Sessions, x # s, x \notin ev PROVE Passive(x)
  <2>1. /\ sstate'[x] = StatesAfter(Lapsed(t), t)[x]
        /\ jstate'[x] = JobsAfter(Lapsed(t), t)[x]
        /\ requested'[x] = requested[x] /\ deadline'[x] = deadline[x]
        /\ jdeadline'[x] = jdeadline[x]
      BY <1>4, <1>5
  <2> QED BY <1>1, <2>1, ExpiredPassive
<1>6. ASSUME NEW x \in Sessions, x \in ev, Active(x) PROVE deadline[x] <= now
  <2>1. StatesAfter(Lapsed(t), t)[x] \in TerminalStates
      BY <1>2, <1>6
  <2>2. ~ActiveAt(x, now)
      BY <1>1, <1>6, <2>1, EndedStaysEnded
  <2>3. deadline[x] \in Nat
      BY <1>1 DEF ManagerTypeOK
  <2> QED BY <1>1, <1>6, <2>2, <2>3, SoloActiveAt
<1>7. \A b \in Agents : jstate'[s][b] = "none"
  <2>1. ~Active(s)
      BY <1>3 DEF Active, ActiveStates
  <2>2. jstate'[s] = jstate[s]
      BY <1>1, <1>3, <1>4, <2>1, DerivedFacts, LapsedFacts
  <2> QED BY <1>3, <2>2 DEF ProbeInv, ManagerInv, AllConsistent, Consistent
<1> QED BY <1>2, <1>3, <1>4, <1>5, <1>6, <1>7 DEF Live, Active

\* Deleting removes the sessions named and touches no other.
LEMMA DeleteEffect ==
    ASSUME ProbeInv, NEW ss, DeleteSessions(ss)
    PROVE  /\ \A x \in Sessions : x \notin ss => Passive(x)
           /\ \A x \in Sessions : x \in ss => x \in Live /\ sstate'[x] = "gone"
BY DEF DeleteSessions, Forget, Passive, ProbeInv, SoloSessions, Live, Active, ActiveStates

-----------------------------------------------------------------------------
(* Types. *)

\* A request that goes on to register is a request.
LEMMA RegisteringRequest ==
    ASSUME NEW r \in Request, NEW a \in Agents, NEW s \in Sessions
    PROVE  [r EXCEPT !.pc = "register", !.agent = a, !.sess = s] \in Request
<1>1. \A q \in Request : [q EXCEPT !.pc = "register"] \in Request
    BY DEF Request
<1>2. \A q \in Request : [q EXCEPT !.agent = a] \in Request
    BY DEF Request
<1>3. \A q \in Request : [q EXCEPT !.sess = s] \in Request
    BY DEF Request
<1> QED BY <1>1, <1>2, <1>3

\* Creating sessions keeps the types.
LEMMA CreationTyped ==
    ASSUME ProbeInv, Creation
    PROVE  ControllerTypeOK' /\ AgentTypeOK'
<1> USE DEF ProbeInv, ControllerTypeOK, AgentTypeOK, Request
<1>1. ASSUME NEW c \in Creators, NEW n \in Nodes, NEW auto \in Triggers, NEW a \in Agents,
             Ask(c, n, auto, a)
      PROVE  ControllerTypeOK' /\ AgentTypeOK'
  <2>1. auto \in BOOLEAN
      BY ProbeAssumption
  <2> QED BY <1>1, <2>1 DEF Ask, hvars, avars, wvars
<1>2. ASSUME NEW c \in Creators, NEW tc \in ReadTime, NEW t \in ReadTime, NEW s \in Sessions,
             NEW a \in Agents, NEW ev, Create(c, s, a, ev, tc, t)
      PROVE  ControllerTypeOK' /\ AgentTypeOK'
  <2>1. [ask[c] EXCEPT !.pc = "register", !.agent = a, !.sess = s] \in Request
      BY RegisteringRequest
  <2>2. ask' = [ask EXCEPT ![c] = [ask[c] EXCEPT !.pc = "register", !.agent = a, !.sess = s]]
      BY <1>2 DEF Create
  <2>3. ask' \in [Creators -> Request]
      BY <2>1, <2>2
  <2>4. ask[c].node \in Nodes \cup {NoOne} /\ ask[c].gen \in Nat
      OBVIOUS
  <2> HIDE DEF Request
  <2> QED BY <1>2, <2>3, <2>4 DEF Create, Unexpired, hvars, avars, wvars
<1>3. ASSUME NEW c \in Creators, NEW tc \in ReadTime, NEW t \in ReadTime, CreateRefused(c, tc, t)
      PROVE  ControllerTypeOK' /\ AgentTypeOK'
  <2>1. Idle \in Request
      BY DEF Idle
  <2> QED BY <1>3, <2>1 DEF CreateRefused, Unexpired, hvars, avars, wvars
<1> QED BY <1>1, <1>2, <1>3 DEF Creation

\* Registering jobs keeps the types.
LEMMA RegistrationTyped ==
    ASSUME ProbeInv, Registration
    PROVE  ControllerTypeOK' /\ AgentTypeOK'
<1> USE DEF ProbeInv, ControllerTypeOK, AgentTypeOK
<1>1. Idle \in Request
    BY DEF Idle, Request
<1>2. ASSUME NEW c \in Creators, NEW t \in ReadTime, Register(c, t)
      PROVE  ControllerTypeOK' /\ AgentTypeOK'
  <2>1. ask[c].sess \in Sessions /\ deadline[ask[c].sess] \in Nat
      BY <1>2 DEF Register, LockIsRegistering, ManagerInv, ManagerTypeOK
  <2>2. ask[c].agent \in Agents
      BY <1>2, <2>1 DEF Register, RegisterJob, ManagerInv, ManagerTypeOK
  <2> QED BY <1>1, <1>2, <2>1, <2>2 DEF Register, hvars, avars, wvars
<1>3. ASSUME NEW c \in Creators, NEW t \in ReadTime, RegisterRefused(c, t)
      PROVE  ControllerTypeOK' /\ AgentTypeOK'
    BY <1>1, <1>3 DEF RegisterRefused, hvars, avars, wvars
<1> QED BY <1>2, <1>3 DEF Registration

\* The operator and the session list keep the types.
LEMMA OperatorTyped ==
    ASSUME ProbeInv, Operator \/ DropAssignments \/ Listing
    PROVE  ControllerTypeOK' /\ AgentTypeOK'
<1> USE DEF ProbeInv, ControllerTypeOK, AgentTypeOK
<1>1. ASSUME NEW s \in Operated, Delete(s) \/ \E t \in ReadTime : Cancel(s, t)
      PROVE  ControllerTypeOK' /\ AgentTypeOK'
    BY <1>1, ProbeAssumption DEF Delete, Cancel, hvars, avars, wvars
<1>2. ASSUME NEW ns \in ClearScopes, Clear(ns) PROVE ControllerTypeOK' /\ AgentTypeOK'
    BY <1>2, ProbeAssumption DEF Clear, hvars, avars, wvars
<1>3. CASE DropAssignments
    BY <1>3 DEF DropAssignments, hvars, avars, wvars
<1>4. ASSUME NEW t \in ReadTime, ListSessions(t) PROVE ControllerTypeOK' /\ AgentTypeOK'
    BY <1>4 DEF ListSessions, cvars, hvars, avars, wvars
<1>5. CASE ListDropsExpired
    BY <1>5 DEF ListDropsExpired, Unexpired, hvars, avars, wvars
<1> QED BY <1>1, <1>2, <1>3, <1>4, <1>5 DEF Operator, Listing

\* The answer to a poll.
LEMMA AnswerTyped ==
    ASSUME AgentTypeOK, NEW a \in Agents, NEW p \in Polls, NEW s \in Sessions \cup {NoJob},
           Answer(a, p, s)
    PROVE  /\ apc' \in [Agents -> {"idle", "polling", "probing", "waiting"}]
           /\ conn' \in [Agents -> Polls \cup {NoOne}]
           /\ ajob' \in [Agents -> Sessions \cup {NoJob}]
           /\ runs' \in [Sessions -> Nat]
<1> USE DEF AgentTypeOK, Answer
<1>1. CASE conn[a] # p
    BY <1>1
<1>2. CASE conn[a] = p /\ s \in {NoJob} \cup refused[a]
    BY <1>2
<1>3. CASE conn[a] = p /\ s \notin {NoJob} \cup refused[a]
  <2>1. s \in Sessions /\ runs[s] \in Nat /\ runs[s] + 1 \in Nat
      BY <1>3
  <2>2. runs' = [runs EXCEPT ![s] = runs[s] + 1]
      BY <1>3
  <2>3. runs' \in [Sessions -> Nat]
      BY <2>1, <2>2
  <2>4. /\ conn' = [conn EXCEPT ![a] = NoOne]
        /\ apc' = [apc EXCEPT ![a] = "probing"]
        /\ ajob' = [ajob EXCEPT ![a] = s]
      BY <1>3
  <2> QED BY <2>1, <2>3, <2>4
<1> QED BY <1>1, <1>2, <1>3

\* Job delivery keeps the types.
LEMMA DeliveryTyped ==
    ASSUME ProbeInv, NEW a \in Agents, Delivery(a)
    PROVE  ControllerTypeOK' /\ AgentTypeOK'
<1> USE DEF ProbeInv, ControllerTypeOK, AgentTypeOK
<1>1. ASSUME NEW p \in Polls, NEW s \in Sessions, NEW t \in ReadTime, ClaimJob(a, p, s, t)
      PROVE  ControllerTypeOK' /\ AgentTypeOK'
  <2>1. Answer(a, p, s)
      BY <1>1 DEF ClaimJob
  <2> QED BY <1>1, <2>1, AnswerTyped DEF ClaimJob, Unexpired, wvars
<1>2. ASSUME NEW p \in Polls, NEW s \in Sessions, NEW t \in ReadTime, ClaimFails(a, p, s, t)
      PROVE  ControllerTypeOK' /\ AgentTypeOK'
  <2>1. Answer(a, p, NoJob)
      BY <1>2 DEF ClaimFails
  <2> QED BY <1>2, <2>1, AnswerTyped DEF ClaimFails, Unexpired, wvars
<1>3. ASSUME NEW p \in Polls, ClaimNothing(a, p) PROVE ControllerTypeOK' /\ AgentTypeOK'
    BY <1>3 DEF ClaimNothing, Unexpired, avars, wvars
<1>4. ASSUME NEW p \in Polls, WakeUp(a, p) PROVE ControllerTypeOK' /\ AgentTypeOK'
    BY <1>4 DEF WakeUp, avars, wvars
<1>5. ASSUME NEW p \in Polls, PollEnds(a, p) PROVE ControllerTypeOK' /\ AgentTypeOK'
  <2>1. Answer(a, p, NoJob)
      BY <1>5 DEF PollEnds
  <2> QED BY <1>5, <2>1, AnswerTyped DEF PollEnds, cvars, wvars
<1> QED BY <1>1, <1>2, <1>3, <1>4, <1>5 DEF Delivery

\* The reply to a submission.
LEMMA ReplyTyped ==
    ASSUME AgentTypeOK, NEW a \in Agents, NEW ok, sub[a].job \in Sessions, Reply(a, ok)
    PROVE  /\ apc' \in [Agents -> {"idle", "polling", "probing", "waiting"}]
           /\ ajob' \in [Agents -> Sessions \cup {NoJob}]
           /\ refused' \in [Agents -> SUBSET Sessions]
<1>1. CASE apc[a] = "waiting" /\ ajob[a] = sub[a].job
  <2>1. /\ apc' = [apc EXCEPT ![a] = "idle"]
        /\ ajob' = [ajob EXCEPT ![a] = NoJob]
        /\ \E r \in SUBSET Sessions : refused' = [refused EXCEPT ![a] = r]
      BY <1>1 DEF AgentTypeOK, Reply
  <2> QED BY <2>1 DEF AgentTypeOK
<1>2. CASE ~(apc[a] = "waiting" /\ ajob[a] = sub[a].job)
    BY <1>2 DEF AgentTypeOK, Reply
<1> QED BY <1>1, <1>2

\* Handling a submission keeps the types.
LEMMA AcceptanceTyped ==
    ASSUME ProbeInv, NEW a \in Agents, Acceptance(a)
    PROVE  ControllerTypeOK' /\ AgentTypeOK'
<1> USE DEF ProbeInv, ControllerTypeOK, AgentTypeOK
<1>1. NoSub \in Submission
    BY DEF NoSub, Submission
<1>2. \A pc \in {"accept", "drop"} : [sub EXCEPT ![a].pc = pc] \in [Agents -> Submission]
    BY DEF Submission
<1>3. sub[a].pc # "none" => sub[a].job \in Sessions
    BY DEF SubmissionsAreOwn
<1>4. CASE CheckGeneration(a)
  <2>1. CASE gen = sgen[sub[a].job]
      BY <1>2, <1>4, <2>1 DEF CheckGeneration, cvars, avars, wvars
  <2>2. CASE gen # sgen[sub[a].job]
    <3>1. Reply(a, FALSE)
        BY <1>4, <2>2 DEF CheckGeneration
    <3> QED BY <1>1, <1>3, <1>4, <2>2, <3>1, ReplyTyped DEF CheckGeneration, cvars, avars, wvars
  <2> QED BY <2>1, <2>2
<1>5. ASSUME NEW t \in ReadTime, Accept(a, t) PROVE ControllerTypeOK' /\ AgentTypeOK'
    BY <1>2, <1>5 DEF Accept, cvars, avars, wvars
<1>6. ASSUME NEW t \in ReadTime, AcceptRefused(a, t) PROVE ControllerTypeOK' /\ AgentTypeOK'
    BY <1>1, <1>3, <1>6, ReplyTyped DEF AcceptRefused, cvars, wvars
<1>7. CASE DropAccepted(a)
    BY <1>1, <1>3, <1>7, ReplyTyped DEF DropAccepted, wvars
<1> QED BY <1>4, <1>5, <1>6, <1>7 DEF Acceptance

\* The agents' steps and the surroundings keep the types.
LEMMA AgentTyped ==
    ASSUME ProbeInv, (\E a \in Agents : AgentLoop(a)) \/ Fault \/ Refresh
                     \/ (\E n \in Pausable : SetMaintenance(n)) \/ Time
    PROVE  ControllerTypeOK' /\ AgentTypeOK'
<1> USE DEF ProbeInv, ControllerTypeOK, AgentTypeOK
<1>1. ASSUME NEW a \in Agents, NEW p \in Polls, StartPoll(a, p) PROVE ControllerTypeOK' /\ AgentTypeOK'
    BY <1>1 DEF StartPoll, cvars, wvars
<1>2. ASSUME NEW a \in Agents, NEW checked \in now - ClockSkew..now + ClockSkew, Submit(a, checked)
      PROVE  ControllerTypeOK' /\ AgentTypeOK'
  <2>1. checked \in Int
      BY ManagerAssumption DEF ManagerInv, ManagerTypeOK
  <2>2. [pc |-> "check", job |-> ajob[a], checked |-> checked] \in Submission
      BY <2>1 DEF Submission
  <2> QED BY <1>2, <2>2 DEF Submit, cvars, wvars
<1>3. ASSUME NEW a \in Agents, Disconnect(a) PROVE ControllerTypeOK' /\ AgentTypeOK'
    BY <1>3 DEF Disconnect, cvars, hvars, wvars
<1>7. ASSUME NEW a \in Agents, AgentRestart(a) PROVE ControllerTypeOK' /\ AgentTypeOK'
    BY <1>7 DEF AgentRestart, cvars, hvars, wvars
<1>4. CASE Refresh
    BY <1>4 DEF Refresh, cvars, hvars, avars
<1>5. ASSUME NEW n \in Pausable, SetMaintenance(n) PROVE ControllerTypeOK' /\ AgentTypeOK'
    BY <1>5, ProbeAssumption DEF SetMaintenance, cvars, hvars, avars
<1>6. CASE Time
    BY <1>6 DEF Time, cvars, hvars, avars, wvars
<1> QED BY <1>1, <1>2, <1>3, <1>4, <1>5, <1>6, <1>7 DEF AgentLoop, Fault

\* Every step of remote diagnostics keeps every variable in its type.
LEMMA ProbeTypeStep ==
    ASSUME ProbeInv, [ProbeNext]_pvars
    PROVE  ControllerTypeOK' /\ AgentTypeOK'
<1>1. CASE UNCHANGED pvars
    BY <1>1 DEF pvars, cvars, hvars, avars, wvars, ProbeInv, ControllerTypeOK, AgentTypeOK
<1>2. CASE ProbeNext
    BY <1>2, CreationTyped, RegistrationTyped, OperatorTyped, DeliveryTyped, AcceptanceTyped, AgentTyped
       DEF ProbeNext
<1> QED BY <1>1, <1>2

-----------------------------------------------------------------------------
(* Every step is a step of the manager or leaves it alone. *)

\* Create calls CreateSession with a lifetime the manager allows.
LEMMA CreateIsManagers ==
    ASSUME ProbeInv, NEW c, NEW s \in Sessions, NEW a \in Agents,
           NEW ev \in {{}} \cup {{v} : v \in Sessions}, NEW tc \in ReadTime, NEW t \in ReadTime,
           Create(c, s, a, ev, tc, t)
    PROVE  /\ ManagerNext
           /\ tc + JobTTL - t \in Nat
           /\ CreateSession(s, {a}, tc + JobTTL - t, ev, t)
<1>1. tc \in Nat /\ t \in Nat
    BY ReadTimeFacts DEF ProbeInv, ManagerInv
<1>2. tc + JobTTL - t \in 1..SessionTTL
    BY <1>1, ProbeAssumption, ManagerAssumption DEF Create
<1>3. CreateSession(s, {a}, tc + JobTTL - t, ev, t)
    BY DEF Create
<1>4. \E agents \in SUBSET Agents, ttl \in 1..SessionTTL : CreateSession(s, agents, ttl, ev, t)
    BY <1>2, <1>3
<1>5. ManagerNext
    BY <1>4 DEF ManagerNext
<1> QED BY <1>2, <1>3, <1>5, ManagerAssumption

\* Register calls RegisterJob for an agent the session asked for.
LEMMA RegisterIsManagers ==
    ASSUME ProbeInv, NEW c \in Creators, NEW t \in ReadTime, Register(c, t)
    PROVE  /\ ManagerNext
           /\ ask[c].sess \in Sessions /\ ask[c].agent \in Agents /\ who[ask[c].sess] = ask[c].agent
           /\ RegisterJob(ask[c].sess, ask[c].agent, deadline[ask[c].sess], t)
<1> DEFINE s == ask[c].sess
           a == ask[c].agent
<1>1. /\ s \in Sessions /\ who[s] = a
      /\ RegisterJob(s, a, deadline[s], t)
    BY DEF Register, ProbeInv, LockIsRegistering
<1>2. deadline[s] \in Nat /\ t \in Nat /\ t < deadline[s] /\ a \in Agents
    BY <1>1, ReadTimeFacts DEF RegisterJob, ProbeInv, ManagerInv, ManagerTypeOK
<1>3. deadline[s] \in t+1..deadline[s]
    BY <1>2
<1>4. \E expires \in t+1..deadline[s] : RegisterJob(s, a, expires, t)
    BY <1>1, <1>3
<1>5. ManagerNext
    BY <1>1, <1>2, <1>4 DEF ManagerNext
<1> QED BY <1>1, <1>2, <1>5

\* Accept calls AcceptObservation for a job of the submitting agent.
LEMMA AcceptIsManagers ==
    ASSUME ProbeInv, NEW a \in Agents, NEW t \in ReadTime, Accept(a, t)
    PROVE  /\ ManagerNext
           /\ sub[a].job \in Sessions /\ who[sub[a].job] = a
           /\ AcceptObservation(sub[a].job, a, sub[a].checked, t)
<1>1. /\ sub[a].job \in Sessions /\ who[sub[a].job] = a
      /\ AcceptObservation(sub[a].job, a, sub[a].checked, t)
    BY DEF Accept, ProbeInv, SubmissionsAreOwn
<1>2. sub[a].checked \in Int /\ t \in Nat
    BY ReadTimeFacts DEF ProbeInv, ManagerInv, AgentTypeOK, Submission
<1>3. sub[a].checked \in t-MaxAge..t+ClockSkew
    BY <1>1, <1>2, ManagerAssumption DEF AcceptObservation, TimelyObservation
<1>4. \E checked \in t-MaxAge..t+ClockSkew : AcceptObservation(sub[a].job, a, checked, t)
    BY <1>1, <1>3
<1>5. ManagerNext
    BY <1>1, <1>4 DEF ManagerNext
<1> QED BY <1>1, <1>5

\* Clear calls DeleteSessions for sessions there are, or nothing.
LEMMA ClearIsManagers ==
    ASSUME NEW ns, Clear(ns)
    PROVE  [ManagerNext]_mvars
BY DEF Clear, ManagerNext, Live

\* Every step of remote diagnostics is one of the manager or leaves it alone.
LEMMA ProbeStepIsManagers ==
    ASSUME ProbeInv, [ProbeNext]_pvars
    PROVE  [ManagerNext]_mvars
<1>0. \A t \in ReadTime : Expire(t) => ManagerNext
    BY DEF ManagerNext
<1>1. ASSUME Creation PROVE [ManagerNext]_mvars
  <2>1. ASSUME NEW c \in Creators, NEW tc \in ReadTime, NEW t \in ReadTime, CreateRefused(c, tc, t)
        PROVE  [ManagerNext]_mvars
      BY <1>0, <2>1 DEF CreateRefused
  <2>2. ASSUME NEW c, NEW n, NEW auto, NEW a, Ask(c, n, auto, a) PROVE UNCHANGED mvars
      BY <2>2 DEF Ask
  <2> QED BY <1>1, <2>1, <2>2, CreateIsManagers DEF Creation
<1>2. ASSUME Registration PROVE [ManagerNext]_mvars
    BY <1>0, <1>2, RegisterIsManagers DEF Registration, RegisterRefused
<1>3. ASSUME Operator PROVE [ManagerNext]_mvars
  <2>1. ASSUME NEW s \in Operated, Delete(s) PROVE ManagerNext
    <3>1. {s} \in SUBSET Sessions /\ DeleteSessions({s})
        BY <2>1, ProbeAssumption DEF Delete
    <3> QED BY <3>1 DEF ManagerNext
  <2>2. ASSUME NEW s \in Operated, NEW t \in ReadTime, Cancel(s, t) PROVE ManagerNext
    <3>1. s \in Sessions /\ CancelSession(s, t)
        BY <2>2, ProbeAssumption DEF Cancel
    <3> QED BY <3>1 DEF ManagerNext
  <2> QED BY <1>3, <2>1, <2>2, ClearIsManagers DEF Operator
<1>4. ASSUME NEW a \in Agents, Delivery(a) PROVE [ManagerNext]_mvars
  <2>1. ASSUME NEW p \in Polls, NEW s \in Sessions, NEW t \in ReadTime, ClaimJob(a, p, s, t)
        PROVE  [ManagerNext]_mvars
    <3>1. TransitionJob(s, a, "running", t) => ManagerNext
        BY DEF ManagerNext
    <3> QED BY <2>1, <3>1 DEF ClaimJob
  <2> QED BY <1>0, <1>4, <2>1 DEF Delivery, ClaimFails, ClaimNothing, WakeUp, PollEnds
<1>5. ASSUME NEW a \in Agents, Acceptance(a) PROVE [ManagerNext]_mvars
    BY <1>0, <1>5, AcceptIsManagers DEF Acceptance, CheckGeneration, AcceptRefused, DropAccepted
<1>6. ASSUME NEW a \in Agents, AgentLoop(a) PROVE [ManagerNext]_mvars
    BY <1>6 DEF AgentLoop, StartPoll, Submit
<1>7. ASSUME Fault PROVE [ManagerNext]_mvars
    BY <1>7 DEF Fault, Disconnect, AgentRestart
<1>8. ASSUME DropAssignments \/ Refresh \/ \E n \in Pausable : SetMaintenance(n)
      PROVE  [ManagerNext]_mvars
    BY <1>8 DEF DropAssignments, Refresh, SetMaintenance
<1>9. ASSUME Time \/ Listing PROVE [ManagerNext]_mvars
    BY <1>0, <1>9 DEF Time, Listing, ListSessions, ListDropsExpired, ManagerNext
<1>10. CASE UNCHANGED pvars
    BY <1>10 DEF pvars
<1> QED BY <1>1, <1>2, <1>3, <1>4, <1>5, <1>6, <1>7, <1>8, <1>9, <1>10 DEF ProbeNext

-----------------------------------------------------------------------------
(* Steps after which sessions have at most expired. *)

\* No session is created, registered, ended or removed by a caller, and
\* assignments only leave the queue, those that are to be dropped included.
Quiet ==
    /\ \A x \in Sessions : Passive(x)
    /\ UNCHANGED <<who, due, node>>
    /\ now' \in Nat /\ now <= now'
    /\ \A x \in Sessions : /\ queue'[x] # "none" => queue[x] # "none"
                           /\ runs'[x] # runs[x] => queue[x] # "none"
    /\ dropJobs' \subseteq dropJobs
    /\ \A x \in Sessions : queue'[x] # "none" =>
          /\ x \in dropJobs => x \in dropJobs'
          /\ node[x] \in dropNodes => node[x] \in dropNodes'
          /\ \A a \in Agents : sub[a].pc = "drop" /\ sub[a].job = x => sub'[a] = sub[a]

\* A quiet step keeps what is said of sessions and assignments.
LEMMA QuietSolo ==
    ASSUME ProbeInv, Quiet
    PROVE  SoloSessions' /\ UnusedIsUnknown' /\ AssignmentsAreBacked'
<1>1. now \in Nat /\ \A x \in Sessions : deadline[x] \in Nat /\ due[x] \in Nat
    BY DEF ProbeInv, ManagerInv, ManagerTypeOK, ControllerTypeOK
<1>2. SoloSessions'
    BY DEF Quiet, Passive, ProbeInv, SoloSessions, Live, Active
<1>3. UnusedIsUnknown'
    BY DEF Quiet, Passive, ProbeInv, UnusedIsUnknown
<1>4. AssignmentsAreBacked'
  <2> SUFFICES ASSUME NEW s \in Sessions, queue'[s] # "none"
               PROVE  \/ sstate'[s] \in ActiveStates
                      \/ due[s] <= now'
                      \/ s \in dropJobs'
                      \/ node[s] \in dropNodes'
                      \/ \E a \in Agents : sub'[a].pc = "drop" /\ sub'[a].job = s
      BY DEF AssignmentsAreBacked, Active, Quiet
  <2>1. /\ queue[s] # "none"
        /\ s \in dropJobs => s \in dropJobs'
        /\ node[s] \in dropNodes => node[s] \in dropNodes'
        /\ \A a \in Agents : sub[a].pc = "drop" /\ sub[a].job = s => sub'[a] = sub[a]
        /\ now' \in Nat /\ now <= now'
      BY DEF Quiet
  <2>2. \/ Active(s)
        \/ due[s] <= now
        \/ s \in dropJobs
        \/ node[s] \in dropNodes
        \/ \E a \in Agents : sub[a].pc = "drop" /\ sub[a].job = s
      BY <2>1 DEF ProbeInv, AssignmentsAreBacked
  <2>3. CASE Active(s)
    <3>1. due[s] = deadline[s]
        BY <2>1, <2>3 DEF ProbeInv, SoloSessions, Live, Active, ActiveStates
    <3>2. sstate'[s] \in ActiveStates \/ deadline[s] <= now
        BY <2>3 DEF Quiet, Passive, Active
    <3> QED BY <1>1, <2>1, <3>1, <3>2
  <2>4. CASE due[s] <= now
      BY <1>1, <2>1, <2>4
  <2> QED BY <2>1, <2>2, <2>3, <2>4
<1> QED BY <1>2, <1>3, <1>4

\* Sessions do not become unused, nor their agent another.
Steady == who' = who /\ \A x \in Sessions : sstate'[x] = "none" => sstate[x] = "none"

\* The lock stays with its creator in a step that does not touch it.
LEMMA LockKept ==
    ASSUME ProbeInv, Steady, UNCHANGED <<holder, ask>>
    PROVE  LockIsRegistering'
BY DEF Steady, ProbeInv, LockIsRegistering

\* Submissions stay their own when they only end.
LEMMA SubmissionsKept ==
    ASSUME ProbeInv, Steady,
           \A x \in Sessions : sstate[x] \notin ActiveStates /\ sstate[x] # "none"
                                  => sstate'[x] \notin ActiveStates,
           \A a \in Agents : sub'[a] = sub[a] \/ sub'[a] = NoSub
    PROVE  SubmissionsAreOwn'
BY DEF Steady, ProbeInv, SubmissionsAreOwn, Active, NoSub

\* Agents keep to their own work when they only go idle.
LEMMA AgentsKept ==
    ASSUME ProbeInv, Steady,
           \A a \in Agents : \/ /\ apc'[a] = apc[a] /\ conn'[a] = conn[a]
                                /\ ajob'[a] = ajob[a] /\ refused'[a] = refused[a]
                             \/ apc'[a] = "idle" /\ conn'[a] = NoOne
    PROVE  AgentsWorkOnTheirOwn'
BY DEF Steady, ProbeInv, AgentsWorkOnTheirOwn

ControllerInv ==
    /\ SoloSessions /\ UnusedIsUnknown /\ LockIsRegistering
    /\ SubmissionsAreOwn /\ AgentsWorkOnTheirOwn /\ AssignmentsAreBacked

\* After a quiet step no ended session is active.
LEMMA QuietSteady ==
    ASSUME Quiet
    PROVE  /\ Steady
           /\ \A x \in Sessions : sstate[x] \notin ActiveStates /\ sstate[x] # "none"
                                     => sstate'[x] \notin ActiveStates
BY DEF Quiet, Passive, Steady

\* A quiet step in which submissions only end and agents only go idle.
LEMMA MuteStep ==
    ASSUME ProbeInv, Quiet, UNCHANGED <<holder, ask>>,
           \A a \in Agents : sub'[a] = sub[a] \/ sub'[a] = NoSub,
           \A a \in Agents : \/ /\ apc'[a] = apc[a] /\ conn'[a] = conn[a]
                                /\ ajob'[a] = ajob[a] /\ refused'[a] = refused[a]
                             \/ apc'[a] = "idle" /\ conn'[a] = NoOne
    PROVE  ControllerInv'
<1>1. Steady /\ \A x \in Sessions : sstate[x] \notin ActiveStates /\ sstate[x] # "none"
                                       => sstate'[x] \notin ActiveStates
    BY QuietSteady
<1>2. LockIsRegistering'
    BY <1>1, LockKept
<1>3. SubmissionsAreOwn'
    BY <1>1, SubmissionsKept
<1>4. AgentsWorkOnTheirOwn'
    BY <1>1, AgentsKept
<1> QED BY <1>2, <1>3, <1>4, QuietSolo DEF ControllerInv

\* An operation of the manager that leaves the clock alone is quiet when the
\* queue only loses what is due or was to be dropped.
LEMMA QuietStill ==
    ASSUME ProbeInv, now' = now, \A x \in Sessions : Passive(x),
           UNCHANGED <<who, due, node, runs, dropJobs, dropNodes>>,
           \A x \in Sessions : queue'[x] = queue[x] \/ queue'[x] = "none",
           \A a \in Agents : sub'[a] = sub[a] \/ sub[a].pc # "drop" \/ queue'[sub[a].job] = "none"
    PROVE  Quiet
<1>1. now \in Nat
    BY DEF ProbeInv, ManagerInv, ManagerTypeOK
<1> QED BY <1>1 DEF Quiet

\* Removing what is due changes no assignment otherwise.
LEMMA UnexpiredFacts ==
    ASSUME NEW t
    PROVE  \A x \in Sessions : Unexpired(t)[x] = queue[x] \/ Unexpired(t)[x] = "none"
BY DEF Unexpired

\* A new request keeps the invariant.
LEMMA AskStep ==
    ASSUME ProbeInv, NEW c \in Creators, NEW n \in Nodes, NEW auto, NEW a \in Agents,
           Ask(c, n, auto, a)
    PROVE  ControllerInv'
<1> USE DEF Ask, hvars, avars, wvars
<1>1. \A x \in Sessions : Passive(x)
    BY UnchangedEffect
<1>2. Quiet
    BY <1>1, QuietStill DEF mvars
<1>3. Steady /\ \A x \in Sessions : sstate[x] \notin ActiveStates /\ sstate[x] # "none"
                                       => sstate'[x] \notin ActiveStates
    BY <1>2, QuietSteady
<1>4. LockIsRegistering'
    BY <1>3 DEF Steady, ProbeInv, LockIsRegistering, ControllerTypeOK
<1>5. SubmissionsAreOwn'
    BY <1>3, SubmissionsKept
<1>6. AgentsWorkOnTheirOwn'
    BY <1>3, AgentsKept
<1> QED BY <1>2, <1>4, <1>5, <1>6, QuietSolo DEF ControllerInv

\* A refused request keeps the invariant.
LEMMA CreateRefusedStep ==
    ASSUME ProbeInv, NEW c \in Creators, NEW tc \in ReadTime, NEW t \in ReadTime,
           CreateRefused(c, tc, t)
    PROVE  ControllerInv'
<1> USE DEF CreateRefused, hvars, avars, wvars
<1>1. (\A x \in Sessions : Passive(x)) /\ now' = now
    BY UnchangedEffect, ExpireEffect DEF mvars, Expire
<1>2. Quiet
    BY <1>1, QuietStill, UnexpiredFacts
<1>3. Steady /\ \A x \in Sessions : sstate[x] \notin ActiveStates /\ sstate[x] # "none"
                                       => sstate'[x] \notin ActiveStates
    BY <1>2, QuietSteady
<1>4. LockIsRegistering'
    BY <1>3 DEF Steady, ProbeInv, LockIsRegistering, ControllerTypeOK, Idle
<1>5. SubmissionsAreOwn'
    BY <1>3, SubmissionsKept
<1>6. AgentsWorkOnTheirOwn'
    BY <1>3, AgentsKept
<1> QED BY <1>2, <1>4, <1>5, <1>6, QuietSolo DEF ControllerInv

\* A refused registration keeps the invariant: c.mu is free again.
LEMMA RegisterRefusedStep ==
    ASSUME ProbeInv, NEW c \in Creators, NEW t \in ReadTime, RegisterRefused(c, t)
    PROVE  ControllerInv'
<1> USE DEF RegisterRefused, hvars, avars, wvars
<1>1. (\A x \in Sessions : Passive(x)) /\ now' = now
    BY ExpireEffect DEF Expire
<1>2. Quiet
    BY <1>1, QuietStill
<1>3. Steady /\ \A x \in Sessions : sstate[x] \notin ActiveStates /\ sstate[x] # "none"
                                       => sstate'[x] \notin ActiveStates
    BY <1>2, QuietSteady
<1>4. LockIsRegistering'
    BY <1>3, ProbeAssumption DEF Steady, ProbeInv, LockIsRegistering, ControllerTypeOK, Idle
<1>5. SubmissionsAreOwn'
    BY <1>3, SubmissionsKept
<1>6. AgentsWorkOnTheirOwn'
    BY <1>3, AgentsKept
<1> QED BY <1>2, <1>4, <1>5, <1>6, QuietSolo DEF ControllerInv

\* A new session is nobody's yet but the creator's that holds c.mu.
LEMMA CreateStep ==
    ASSUME ProbeInv, NEW c \in Creators, NEW s \in Sessions, NEW a \in Agents,
           NEW ev \in {{}} \cup {{v} : v \in Sessions}, NEW tc \in ReadTime, NEW t \in ReadTime,
           Create(c, s, a, ev, tc, t)
    PROVE  ControllerInv'
<1> DEFINE ttl == tc + JobTTL - t
<1>1. ttl \in Nat /\ CreateSession(s, {a}, ttl, ev, t)
    BY CreateIsManagers
<1> HIDE DEF ttl
<1>2. /\ \A x \in Sessions : x # s /\ x \notin ev => Passive(x)
      /\ \A x \in Sessions : x \in ev => /\ x # s /\ x \in Live
                                         /\ sstate'[x] = "gone"
                                         /\ sstate[x] \in ActiveStates => deadline[x] <= now
      /\ sstate[s] = "none" /\ sstate'[s] = "requested"
      /\ requested'[s] = {a}
      /\ deadline'[s] = t + ttl
      /\ \A b \in Agents : jstate'[s][b] = "none"
    BY <1>1, CreateEffect
<1>3. /\ now' = now
      /\ ask[c].pc = "asked" /\ holder = NoOne
      /\ UNCHANGED <<due, dropJobs, dropNodes, poll, sub, apc, conn, ajob, refused, runs, losses>>
    BY <1>1 DEF Create, CreateSession, hvars, avars, wvars
<1>4. /\ holder' = c
      /\ \A x \in Sessions : /\ queue'[x] = queue[x] \/ queue'[x] = "none"
                             /\ who'[x] = IF x = s THEN a ELSE who[x]
                             /\ node'[x] = IF x = s THEN ask[c].node ELSE node[x]
      /\ \A d \in Creators : d # c => ask'[d] = ask[d]
      /\ ask'[c].pc = "register" /\ ask'[c].agent = a /\ ask'[c].sess = s
  <2>1. /\ ask \in [Creators -> Request] /\ who \in [Sessions -> Agents \cup {NoOne}]
        /\ node \in [Sessions -> Nodes \cup {NoOne}]
      BY DEF ProbeInv, ControllerTypeOK
  <2>2. /\ holder' = c
        /\ queue' = Unexpired(tc)
        /\ who' = [who EXCEPT ![s] = a]
        /\ node' = [node EXCEPT ![s] = ask[c].node]
        /\ ask' = [ask EXCEPT ![c].pc = "register", ![c].agent = a, ![c].sess = s]
      BY DEF Create
  <2>3. /\ \A d \in Creators : d # c => ask'[d] = ask[d]
        /\ ask'[c].pc = "register" /\ ask'[c].agent = a /\ ask'[c].sess = s
      BY <2>1, <2>2 DEF Request
  <2> QED BY <2>1, <2>2, <2>3, UnexpiredFacts
<1>5. queue[s] = "none" /\ runs[s] = 0 /\ s \notin dropJobs
    BY <1>2 DEF ProbeInv, UnusedIsUnknown
<1>6. SoloSessions'
  <2> SUFFICES ASSUME NEW x \in Sessions, sstate'[x] \notin {"none", "gone"}
               PROVE  /\ who'[x] \in Agents
                      /\ requested'[x] = {who'[x]}
                      /\ sstate'[x] \in ActiveStates => jstate'[x][who'[x]] \notin ClosedJobs
                      /\ jstate'[x][who'[x]] # "none" => /\ due'[x] = deadline'[x]
                                                         /\ jdeadline'[x][who'[x]] = deadline'[x]
                      /\ queue'[x] # "none" => jstate'[x][who'[x]] # "none"
      BY DEF SoloSessions, Live, Active
  <2>1. CASE x = s
      BY <1>2, <1>4, <1>5, <2>1 DEF ClosedJobs
  <2>2. CASE x # s
    <3>1. Passive(x) /\ x \in Live
        BY <1>2, <2>2 DEF Passive, Live
    <3> QED BY <1>3, <1>4, <2>2, <3>1 DEF Passive, ProbeInv, SoloSessions, Active
  <2> QED BY <2>1, <2>2
<1>7. UnusedIsUnknown'
  <2> SUFFICES ASSUME NEW x \in Sessions, sstate'[x] = "none"
               PROVE  queue'[x] = "none" /\ runs'[x] = 0 /\ x \notin dropJobs'
      BY DEF UnusedIsUnknown
  <2>1. sstate[x] = "none"
      BY <1>2 DEF Passive
  <2> QED BY <1>3, <1>4, <2>1 DEF ProbeInv, UnusedIsUnknown
<1>8. LockIsRegistering'
  <2>1. \A d \in Creators : ask[d].pc # "register"
      BY <1>3, ProbeAssumption DEF ProbeInv, LockIsRegistering
  <2> QED BY <1>2, <1>4, <2>1 DEF LockIsRegistering
<1>9. \A x \in Sessions : sstate[x] # "none" =>
         /\ sstate'[x] # "none" /\ who'[x] = who[x]
         /\ sstate[x] \notin ActiveStates => sstate'[x] \notin ActiveStates
    BY <1>2, <1>4 DEF Passive, ActiveStates
<1>10. SubmissionsAreOwn'
    BY <1>3, <1>9 DEF ProbeInv, SubmissionsAreOwn, Active
<1>11. AgentsWorkOnTheirOwn'
    BY <1>3, <1>9 DEF ProbeInv, AgentsWorkOnTheirOwn
<1>12. AssignmentsAreBacked'
  <2>0. \A x \in Sessions : queue'[x] # "none" => queue[x] # "none" /\ x # s /\ node'[x] = node[x]
      BY <1>4, <1>5
  <2> SUFFICES ASSUME NEW x \in Sessions, queue'[x] # "none"
               PROVE  \/ sstate'[x] \in ActiveStates
                      \/ due[x] <= now
                      \/ x \in dropJobs
                      \/ node[x] \in dropNodes
                      \/ \E b \in Agents : sub[b].pc = "drop" /\ sub[b].job = x
      BY <1>3, <2>0 DEF AssignmentsAreBacked, Active
  <2>1. queue[x] # "none" /\ x # s
      BY <2>0
  <2>2. CASE Active(x)
    <3>1. due[x] = deadline[x]
        BY <2>1, <2>2 DEF ProbeInv, SoloSessions, Live, Active, ActiveStates
    <3>2. sstate'[x] \in ActiveStates \/ deadline[x] <= now
        BY <1>2, <2>1, <2>2 DEF Passive, Active
    <3> QED BY <3>1, <3>2
  <2>3. CASE ~Active(x)
      BY <2>1, <2>3 DEF ProbeInv, AssignmentsAreBacked
  <2> QED BY <2>2, <2>3
<1> QED BY <1>6, <1>7, <1>8, <1>10, <1>11, <1>12 DEF ControllerInv

\* A session that has at most expired, and whose assignment nobody touched
\* but to drop it, is as SoloSessions and AssignmentsAreBacked say.
LEMMA PassiveSession ==
    ASSUME ProbeInv, NEW x \in Sessions, Passive(x), now' = now,
           who'[x] = who[x], due'[x] = due[x], node'[x] = node[x],
           queue'[x] = queue[x] \/ queue'[x] = "none"
    PROVE  /\ sstate'[x] \notin {"none", "gone"} =>
                 /\ who'[x] \in Agents
                 /\ requested'[x] = {who'[x]}
                 /\ sstate'[x] \in ActiveStates => jstate'[x][who'[x]] \notin ClosedJobs
                 /\ jstate'[x][who'[x]] # "none" => /\ due'[x] = deadline'[x]
                                                    /\ jdeadline'[x][who'[x]] = deadline'[x]
                 /\ queue'[x] # "none" => jstate'[x][who'[x]] # "none"
           /\ queue'[x] # "none" => \/ sstate'[x] \in ActiveStates
                                    \/ due'[x] <= now'
                                    \/ x \in dropJobs
                                    \/ node[x] \in dropNodes
                                    \/ \E a \in Agents : sub[a].pc = "drop" /\ sub[a].job = x
<1>1. sstate'[x] \notin {"none", "gone"} => x \in Live
    BY DEF Passive, Live
<1>2. Active(x) /\ queue[x] # "none" => due[x] = deadline[x]
    BY DEF ProbeInv, SoloSessions, Live, Active, ActiveStates
<1>3. Active(x) => sstate'[x] \in ActiveStates \/ deadline[x] <= now
    BY DEF Passive, Active
<1>4. queue[x] # "none" => \/ Active(x)
                           \/ due[x] <= now
                           \/ x \in dropJobs
                           \/ node[x] \in dropNodes
                           \/ \E a \in Agents : sub[a].pc = "drop" /\ sub[a].job = x
    BY DEF ProbeInv, AssignmentsAreBacked
<1>5. sstate'[x] \notin {"none", "gone"} =>
         /\ who'[x] \in Agents
         /\ requested'[x] = {who'[x]}
         /\ sstate'[x] \in ActiveStates => jstate'[x][who'[x]] \notin ClosedJobs
         /\ jstate'[x][who'[x]] # "none" => /\ due'[x] = deadline'[x]
                                            /\ jdeadline'[x][who'[x]] = deadline'[x]
         /\ queue'[x] # "none" => jstate'[x][who'[x]] # "none"
    BY <1>1 DEF Passive, ProbeInv, SoloSessions, Active
<1> QED BY <1>2, <1>3, <1>4, <1>5

\* A registration keeps the invariant: the assignment has an open job.
LEMMA RegisterStep ==
    ASSUME ProbeInv, NEW c \in Creators, NEW t \in ReadTime, Register(c, t)
    PROVE  ControllerInv'
<1> DEFINE s == ask[c].sess
           a == ask[c].agent
<1>1. /\ s \in Sessions /\ a \in Agents /\ who[s] = a
      /\ RegisterJob(s, a, deadline[s], t)
    BY RegisterIsManagers
<1>2. /\ now' = now /\ ask[c].pc = "register"
      /\ UNCHANGED <<who, node, dropJobs, dropNodes, poll, sub, apc, conn, ajob, refused, runs, losses>>
      /\ queue' = [queue EXCEPT ![s] = "queued"]
      /\ due' = [due EXCEPT ![s] = deadline[s]]
      /\ ask' = [ask EXCEPT ![c] = Idle]
      /\ holder' = NoOne
    BY <1>1 DEF Register, RegisterJob, hvars, avars, wvars
<1> HIDE DEF s, a
<1>3. /\ \A x \in Sessions : x # s => Passive(x)
      /\ sstate[s] \in ActiveStates /\ sstate'[s] \in ActiveStates
      /\ jstate'[s][a] \notin ClosedJobs /\ jstate'[s][a] # "none"
      /\ jdeadline'[s][a] = deadline[s]
      /\ requested' = requested /\ deadline' = deadline
    BY <1>1, RegisterEffect
<1>4. \A x \in Sessions : /\ x # s => queue'[x] = queue[x] /\ due'[x] = due[x]
                          /\ x = s => due'[x] = deadline[s]
    BY <1>1, <1>2 DEF ProbeInv, ControllerTypeOK
<1>5. SoloSessions'
  <2> SUFFICES ASSUME NEW x \in Sessions, sstate'[x] \notin {"none", "gone"}
               PROVE  /\ who'[x] \in Agents
                      /\ requested'[x] = {who'[x]}
                      /\ sstate'[x] \in ActiveStates => jstate'[x][who'[x]] \notin ClosedJobs
                      /\ jstate'[x][who'[x]] # "none" => /\ due'[x] = deadline'[x]
                                                         /\ jdeadline'[x][who'[x]] = deadline'[x]
                      /\ queue'[x] # "none" => jstate'[x][who'[x]] # "none"
      BY DEF SoloSessions, Live, Active
  <2>1. CASE x = s
    <3>1. requested[s] = {a}
        BY <1>1, <1>3 DEF ProbeInv, SoloSessions, Live, ActiveStates
    <3> QED BY <1>1, <1>2, <1>3, <1>4, <2>1, <3>1
  <2>2. CASE x # s
    <3>1. Passive(x) /\ who'[x] = who[x] /\ due'[x] = due[x] /\ node'[x] = node[x] /\ queue'[x] = queue[x]
        BY <1>2, <1>3, <1>4, <2>2
    <3> QED BY <1>2, <3>1, PassiveSession
  <2> QED BY <2>1, <2>2
<1>6. \A x \in Sessions : sstate[x] # "none" =>
         /\ sstate'[x] # "none"
         /\ sstate[x] \notin ActiveStates => sstate'[x] \notin ActiveStates
    BY <1>3 DEF Passive, ActiveStates
<1>7. UnusedIsUnknown'
  <2> SUFFICES ASSUME NEW x \in Sessions, sstate'[x] = "none"
               PROVE  queue'[x] = "none" /\ runs'[x] = 0 /\ x \notin dropJobs'
      BY DEF UnusedIsUnknown
  <2>1. sstate[x] = "none" /\ x # s
      BY <1>3, <1>6 DEF ActiveStates
  <2> QED BY <1>2, <1>4, <2>1 DEF ProbeInv, UnusedIsUnknown
<1>8. LockIsRegistering'
  <2>1. \A d \in Creators : ask[d].pc = "register" => d = c
      BY <1>2 DEF ProbeInv, LockIsRegistering
  <2>2. \A d \in Creators : ask'[d].pc # "register"
      BY <1>2, <2>1 DEF ProbeInv, ControllerTypeOK, Idle
  <2> QED BY <1>2, <2>2 DEF LockIsRegistering
<1>9. SubmissionsAreOwn'
    BY <1>2, <1>6 DEF ProbeInv, SubmissionsAreOwn, Active
<1>10. AgentsWorkOnTheirOwn'
    BY <1>2, <1>6 DEF ProbeInv, AgentsWorkOnTheirOwn
<1>11. AssignmentsAreBacked'
  <2> SUFFICES ASSUME NEW x \in Sessions, queue'[x] # "none"
               PROVE  \/ sstate'[x] \in ActiveStates
                      \/ due'[x] <= now'
                      \/ x \in dropJobs
                      \/ node[x] \in dropNodes
                      \/ \E b \in Agents : sub[b].pc = "drop" /\ sub[b].job = x
      BY <1>2 DEF AssignmentsAreBacked, Active
  <2>1. CASE x = s
      BY <1>3, <2>1
  <2>2. CASE x # s
    <3>1. Passive(x) /\ who'[x] = who[x] /\ due'[x] = due[x] /\ node'[x] = node[x] /\ queue'[x] = queue[x]
        BY <1>2, <1>3, <1>4, <2>2
    <3> QED BY <1>2, <3>1, PassiveSession
  <2> QED BY <2>1, <2>2
<1> QED BY <1>5, <1>7, <1>8, <1>9, <1>10, <1>11 DEF ControllerInv

\* The manager ends or removes the sessions of ss, whose assignments are to be
\* dropped; all others have at most expired.
LEMMA EndingStep ==
    ASSUME ProbeInv, NEW ss \in SUBSET Sessions, NoDrop, now' = now,
           \A x \in Sessions : x \notin ss => Passive(x),
           \A x \in Sessions : x \in ss =>
              /\ x \in Live
              /\ \/ sstate'[x] = "gone"
                 \/ /\ sstate'[x] \in TerminalStates
                    /\ requested'[x] = requested[x] /\ deadline'[x] = deadline[x]
                    /\ jdeadline'[x] = jdeadline[x]
                    /\ (jstate'[x][who[x]] = "none") <=> (jstate[x][who[x]] = "none"),
           \A x \in Sessions : x \in ss => x \in dropJobs' \/ node[x] \in dropNodes',
           \A x \in Sessions : x \in dropJobs' => x \in ss,
           UNCHANGED <<queue, node, who, due, holder, ask, sub, apc, conn, ajob, refused, runs>>
    PROVE  ControllerInv'
<1>1. \A x \in Sessions : sstate[x] # "none" =>
         /\ sstate'[x] # "none"
         /\ sstate[x] \notin ActiveStates => sstate'[x] \notin ActiveStates
    BY DEF Passive, ActiveStates, TerminalStates
<1>2. Steady
    BY <1>1 DEF Steady
<1>3. SoloSessions'
  <2> SUFFICES ASSUME NEW x \in Sessions, sstate'[x] \notin {"none", "gone"}
               PROVE  /\ who'[x] \in Agents
                      /\ requested'[x] = {who'[x]}
                      /\ sstate'[x] \in ActiveStates => jstate'[x][who'[x]] \notin ClosedJobs
                      /\ jstate'[x][who'[x]] # "none" => /\ due'[x] = deadline'[x]
                                                         /\ jdeadline'[x][who'[x]] = deadline'[x]
                      /\ queue'[x] # "none" => jstate'[x][who'[x]] # "none"
      BY DEF SoloSessions, Live, Active
  <2>1. CASE x \in ss
      BY <2>1 DEF ProbeInv, SoloSessions, ActiveStates, TerminalStates
  <2>2. CASE x \notin ss
      BY <2>2, PassiveSession
  <2> QED BY <2>1, <2>2
<1>4. UnusedIsUnknown'
  <2> SUFFICES ASSUME NEW x \in Sessions, sstate'[x] = "none"
               PROVE  queue'[x] = "none" /\ runs'[x] = 0 /\ x \notin dropJobs'
      BY DEF UnusedIsUnknown
  <2>1. sstate[x] = "none" /\ x \notin ss
      BY <1>1 DEF Live
  <2> QED BY <2>1 DEF ProbeInv, UnusedIsUnknown
<1>5. LockIsRegistering'
    BY <1>2, LockKept
<1>6. SubmissionsAreOwn'
    BY <1>1, <1>2, SubmissionsKept
<1>7. AgentsWorkOnTheirOwn'
    BY <1>2, AgentsKept
<1>8. AssignmentsAreBacked'
  <2> SUFFICES ASSUME NEW x \in Sessions, queue'[x] # "none"
               PROVE  \/ sstate'[x] \in ActiveStates
                      \/ due'[x] <= now'
                      \/ x \in dropJobs'
                      \/ node[x] \in dropNodes'
                      \/ \E b \in Agents : sub[b].pc = "drop" /\ sub[b].job = x
      BY DEF AssignmentsAreBacked, Active
  <2>1. CASE x \in ss
      BY <2>1
  <2>2. CASE x \notin ss
    <3>1. \/ sstate'[x] \in ActiveStates
          \/ due'[x] <= now'
          \/ x \in dropJobs
          \/ node[x] \in dropNodes
          \/ \E b \in Agents : sub[b].pc = "drop" /\ sub[b].job = x
        BY <2>2, PassiveSession
    <3> QED BY <3>1 DEF NoDrop
  <2> QED BY <2>1, <2>2
<1> QED BY <1>3, <1>4, <1>5, <1>6, <1>7, <1>8 DEF ControllerInv

\* Cancel, Delete and Clear keep the invariant: what they end is to be dropped.
LEMMA OperatorStep ==
    ASSUME ProbeInv, Operator
    PROVE  ControllerInv'
<1>1. ASSUME NEW s \in Operated, NEW t \in ReadTime, Cancel(s, t) PROVE ControllerInv'
  <2>1. s \in Sessions /\ {s} \in SUBSET Sessions
      BY ProbeAssumption
  <2>2. /\ CancelSession(s, t) /\ NoDrop /\ dropJobs' = {s}
        /\ UNCHANGED <<queue, node, who, due, holder, ask, sub, apc, conn, ajob, refused, runs>>
      BY <1>1 DEF Cancel, hvars, avars, wvars
  <2>3. now' = now
      BY <2>2 DEF CancelSession
  <2>4. /\ \A x \in Sessions : x # s => Passive(x)
        /\ sstate[s] \in ActiveStates
        /\ sstate'[s] = "cancelled"
        /\ (jstate'[s][who[s]] = "none") <=> (jstate[s][who[s]] = "none")
        /\ requested' = requested /\ deadline' = deadline /\ jdeadline' = jdeadline
      BY <2>1, <2>2, CancelEffect
  <2>5. s \in Live /\ sstate'[s] \in TerminalStates
      BY <2>1, <2>4 DEF Live, ActiveStates, TerminalStates
  <2> QED BY <2>1, <2>2, <2>3, <2>4, <2>5, EndingStep
<1>2. ASSUME NEW s \in Operated, Delete(s) PROVE ControllerInv'
  <2>1. s \in Sessions /\ {s} \in SUBSET Sessions
      BY ProbeAssumption
  <2>2. /\ DeleteSessions({s}) /\ NoDrop /\ dropJobs' = {s}
        /\ UNCHANGED <<queue, node, who, due, holder, ask, sub, apc, conn, ajob, refused, runs>>
      BY <1>2 DEF Delete, hvars, avars, wvars
  <2>3. now' = now
      BY <2>2 DEF DeleteSessions
  <2>4. /\ \A x \in Sessions : x \notin {s} => Passive(x)
        /\ \A x \in Sessions : x \in {s} => x \in Live /\ sstate'[x] = "gone"
      BY <2>2, DeleteEffect
  <2> QED BY <2>1, <2>2, <2>3, <2>4, EndingStep
<1>3. ASSUME NEW ns \in ClearScopes, Clear(ns) PROVE ControllerInv'
  <2> DEFINE matched == {s \in Live : node[s] \in ns}
  <2>1. matched \in SUBSET Sessions /\ \A x \in matched : node[x] \in ns
      BY DEF Live
  <2>2. /\ NoDrop /\ dropNodes' = ns /\ dropJobs' = {}
        /\ (matched = {} /\ UNCHANGED mvars) \/ DeleteSessions(matched)
        /\ UNCHANGED <<queue, node, who, due, holder, ask, sub, apc, conn, ajob, refused, runs>>
      BY <1>3 DEF Clear, NoDrop, hvars, avars, wvars
  <2> HIDE DEF matched
  <2>3. now' = now
      BY <2>2 DEF DeleteSessions, mvars
  <2>4. /\ \A x \in Sessions : x \notin matched => Passive(x)
        /\ \A x \in Sessions : x \in matched => x \in Live /\ sstate'[x] = "gone"
      BY <2>2, UnchangedEffect, DeleteEffect
  <2> QED BY <2>1, <2>2, <2>3, <2>4, EndingStep
<1> QED BY <1>1, <1>2, <1>3 DEF Operator

\* Dropping assignments and listing sessions keep the invariant.
LEMMA DropAndListStep ==
    ASSUME ProbeInv, DropAssignments \/ Listing
    PROVE  ControllerInv'
<1>1. CASE DropAssignments
  <2> USE <1>1 DEF DropAssignments, hvars, avars, wvars
  <2>1. \A x \in Sessions : Passive(x)
      BY UnchangedEffect
  <2>2. now \in Nat
      BY DEF ProbeInv, ManagerInv, ManagerTypeOK
  <2>3. Quiet
      BY <2>1, <2>2 DEF Quiet, mvars
  <2> QED BY <2>3, MuteStep
<1>2. ASSUME NEW t \in ReadTime, ListSessions(t) PROVE ControllerInv'
  <2> USE <1>2 DEF ListSessions, cvars, hvars, avars, wvars
  <2>1. (\A x \in Sessions : Passive(x)) /\ now' = now
      BY ExpireEffect DEF Expire
  <2>2. Quiet
      BY <2>1, QuietStill
  <2> QED BY <2>2, MuteStep
<1>3. CASE ListDropsExpired
  <2> USE <1>3 DEF ListDropsExpired, hvars, avars, wvars
  <2>1. (\A x \in Sessions : Passive(x)) /\ now' = now
      BY UnchangedEffect DEF mvars
  <2>2. Quiet
      BY <2>1, QuietStill, UnexpiredFacts
  <2> QED BY <2>2, MuteStep
<1> QED BY <1>1, <1>2, <1>3 DEF Listing

\* An answer without a job leaves the agent as it is or idle.
LEMMA EmptyAnswer ==
    ASSUME AgentTypeOK, NEW a \in Agents, NEW p \in Polls, Answer(a, p, NoJob), refused' = refused
    PROVE  /\ runs' = runs
           /\ \A b \in Agents : \/ /\ apc'[b] = apc[b] /\ conn'[b] = conn[b]
                                   /\ ajob'[b] = ajob[b] /\ refused'[b] = refused[b]
                                \/ apc'[b] = "idle" /\ conn'[b] = NoOne
BY DEF AgentTypeOK, Answer

\* A job is delivered: to an agent that listens and was not refused it.
LEMMA JobAnswer ==
    ASSUME AgentTypeOK, NEW a \in Agents, NEW p \in Polls, NEW s \in Sessions, Answer(a, p, s),
           refused' = refused
    PROVE  /\ \A x \in Sessions : x # s => runs'[x] = runs[x]
           /\ \A b \in Agents :
                 \/ /\ apc'[b] = apc[b] /\ conn'[b] = conn[b]
                    /\ ajob'[b] = ajob[b] /\ refused'[b] = refused[b]
                 \/ apc'[b] = "idle" /\ conn'[b] = NoOne
                 \/ /\ b = a /\ apc'[b] = "probing" /\ conn'[b] = NoOne
                    /\ ajob'[b] = s /\ s \notin refused'[b]
<1>1. CASE conn[a] # p
    BY <1>1 DEF Answer
<1>2. CASE conn[a] = p /\ s \in {NoJob} \cup refused[a]
    BY <1>2 DEF AgentTypeOK, Answer
<1>3. CASE conn[a] = p /\ s \notin {NoJob} \cup refused[a]
    BY <1>3 DEF AgentTypeOK, Answer
<1> QED BY <1>1, <1>2, <1>3

\* A claim is quiet and gives the agent a job of its own.
LEMMA ClaimJobStep ==
    ASSUME ProbeInv, NEW a \in Agents, NEW p \in Polls, NEW s \in Sessions, NEW t \in ReadTime,
           ClaimJob(a, p, s, t)
    PROVE  ControllerInv' /\ Quiet
<1>1. /\ queue[s] # "none" /\ who[s] = a
      /\ Answer(a, p, s)
      /\ UNCHANGED <<node, who, due, holder, ask, dropJobs, dropNodes, sub, refused>>
      /\ TransitionJob(s, a, "running", t) \/ UNCHANGED mvars
    BY DEF ClaimJob, First, Mine, wvars
<1>2. (\A x \in Sessions : Passive(x)) /\ now' = now
    BY <1>1, TransitionEffect, UnchangedEffect DEF TransitionJob, mvars
<1>3. \A x \in Sessions : queue'[x] # "none" => queue[x] # "none"
    BY <1>1, UnexpiredFacts DEF ClaimJob
<1>4. /\ \A x \in Sessions : x # s => runs'[x] = runs[x]
      /\ \A b \in Agents :
            \/ /\ apc'[b] = apc[b] /\ conn'[b] = conn[b]
               /\ ajob'[b] = ajob[b] /\ refused'[b] = refused[b]
            \/ apc'[b] = "idle" /\ conn'[b] = NoOne
            \/ /\ b = a /\ apc'[b] = "probing" /\ conn'[b] = NoOne
               /\ ajob'[b] = s /\ s \notin refused'[b]
    BY <1>1, JobAnswer DEF ProbeInv
<1>5. Quiet
  <2>1. now \in Nat
      BY DEF ProbeInv, ManagerInv, ManagerTypeOK
  <2> QED BY <1>1, <1>2, <1>3, <1>4, <2>1 DEF Quiet
<1>6. Steady /\ \A x \in Sessions : sstate[x] \notin ActiveStates /\ sstate[x] # "none"
                                       => sstate'[x] \notin ActiveStates
    BY <1>5, QuietSteady
<1>7. LockIsRegistering'
    BY <1>1, <1>6, LockKept
<1>8. SubmissionsAreOwn'
    BY <1>1, <1>6, SubmissionsKept
<1>9. AgentsWorkOnTheirOwn'
  <2>1. sstate[s] # "none"
      BY <1>1 DEF ProbeInv, UnusedIsUnknown
  <2> QED BY <1>1, <1>4, <1>6, <2>1 DEF Steady, ProbeInv, AgentsWorkOnTheirOwn
<1> QED BY <1>5, <1>7, <1>8, <1>9, QuietSolo DEF ControllerInv

\* Job delivery keeps the invariant.
LEMMA DeliveryStep ==
    ASSUME ProbeInv, NEW a \in Agents, Delivery(a)
    PROVE  ControllerInv'
<1>1. ASSUME NEW p \in Polls, NEW s \in Sessions, NEW t \in ReadTime, ClaimFails(a, p, s, t)
      PROVE  ControllerInv'
  <2>1. (\A x \in Sessions : Passive(x)) /\ now' = now
      BY <1>1, ExpireEffect DEF ClaimFails, Expire
  <2>2. /\ UNCHANGED <<node, who, due, holder, ask, dropJobs, dropNodes, sub, refused>>
        /\ \A x \in Sessions : queue'[x] = queue[x] \/ queue'[x] = "none"
        /\ Answer(a, p, NoJob)
      BY <1>1, UnexpiredFacts DEF ClaimFails, wvars
  <2>3. /\ runs' = runs
        /\ \A b \in Agents : \/ /\ apc'[b] = apc[b] /\ conn'[b] = conn[b]
                                /\ ajob'[b] = ajob[b] /\ refused'[b] = refused[b]
                             \/ apc'[b] = "idle" /\ conn'[b] = NoOne
      BY <2>2, EmptyAnswer DEF ProbeInv
  <2>4. Quiet
      BY <2>1, <2>2, <2>3, QuietStill
  <2> QED BY <2>2, <2>3, <2>4, MuteStep
<1>2. ASSUME NEW p \in Polls, ClaimNothing(a, p) \/ WakeUp(a, p) PROVE ControllerInv'
  <2>1. /\ UNCHANGED <<node, who, due, holder, ask, dropJobs, dropNodes, sub, apc, conn, ajob, refused, runs>>
        /\ UNCHANGED mvars
        /\ \A x \in Sessions : queue'[x] = queue[x] \/ queue'[x] = "none"
      BY <1>2, UnexpiredFacts DEF ClaimNothing, WakeUp, avars, wvars
  <2>2. (\A x \in Sessions : Passive(x)) /\ now' = now
      BY <2>1, UnchangedEffect DEF mvars
  <2>3. Quiet
      BY <2>1, <2>2, QuietStill
  <2> QED BY <2>1, <2>3, MuteStep
<1>3. ASSUME NEW p \in Polls, PollEnds(a, p) PROVE ControllerInv'
  <2>1. /\ UNCHANGED <<queue, node, who, due, holder, ask, dropJobs, dropNodes, sub, refused>>
        /\ UNCHANGED mvars
        /\ Answer(a, p, NoJob)
      BY <1>3 DEF PollEnds, cvars, wvars
  <2>2. (\A x \in Sessions : Passive(x)) /\ now' = now
      BY <2>1, UnchangedEffect DEF mvars
  <2>3. /\ runs' = runs
        /\ \A b \in Agents : \/ /\ apc'[b] = apc[b] /\ conn'[b] = conn[b]
                                /\ ajob'[b] = ajob[b] /\ refused'[b] = refused[b]
                             \/ apc'[b] = "idle" /\ conn'[b] = NoOne
      BY <2>1, EmptyAnswer DEF ProbeInv
  <2>4. Quiet
      BY <2>1, <2>2, <2>3, QuietStill
  <2> QED BY <2>1, <2>3, <2>4, MuteStep
<1> QED BY <1>1, <1>2, <1>3, ClaimJobStep DEF Delivery

\* A reply makes the agent idle, if it waits for it.
LEMMA ReplyFacts ==
    ASSUME ProbeInv, NEW a \in Agents, NEW ok, Reply(a, ok), conn' = conn
    PROVE  \A b \in Agents : \/ /\ apc'[b] = apc[b] /\ conn'[b] = conn[b]
                                /\ ajob'[b] = ajob[b] /\ refused'[b] = refused[b]
                             \/ b = a /\ apc'[b] = "idle" /\ conn'[b] = NoOne
<1>1. conn[a] # NoOne => apc[a] = "polling"
    BY DEF ProbeInv, AgentsWorkOnTheirOwn
<1>2. /\ apc \in [Agents -> {"idle", "polling", "probing", "waiting"}]
      /\ ajob \in [Agents -> Sessions \cup {NoJob}]
      /\ refused \in [Agents -> SUBSET Sessions]
    BY DEF ProbeInv, AgentTypeOK
<1>3. CASE apc[a] = "waiting" /\ ajob[a] = sub[a].job
  <2>1. /\ apc'[a] = "idle" /\ conn'[a] = NoOne
        /\ \A b \in Agents : b # a => apc'[b] = apc[b] /\ ajob'[b] = ajob[b]
      BY <1>1, <1>2, <1>3 DEF Reply
  <2>2. \A b \in Agents : b # a => refused'[b] = refused[b]
    <3>1. CASE ok
        BY <1>3, <3>1 DEF Reply
    <3>2. CASE ~ok
        BY <1>2, <1>3, <3>2 DEF Reply
    <3> QED BY <3>1, <3>2
  <2> QED BY <2>1, <2>2
<1>4. CASE ~(apc[a] = "waiting" /\ ajob[a] = sub[a].job)
    BY <1>4 DEF Reply
<1> QED BY <1>3, <1>4

\* The manager takes the observation: the session ends with it, and the
\* handler is about to drop the assignment.
LEMMA AcceptStep ==
    ASSUME ProbeInv, NEW a \in Agents, NEW t \in ReadTime, Accept(a, t)
    PROVE  ControllerInv'
<1> DEFINE s == sub[a].job
<1>1. /\ s \in Sessions /\ who[s] = a
      /\ AcceptObservation(s, a, sub[a].checked, t)
    BY AcceptIsManagers
<1>2. /\ now' = now /\ sub[a].pc = "accept"
      /\ UNCHANGED <<queue, node, who, due, holder, ask, dropJobs, dropNodes, apc, conn, ajob, refused, runs>>
    BY <1>1 DEF Accept, AcceptObservation, cvars, avars, wvars
<1>3. /\ sub'[a].pc = "drop" /\ sub'[a].job = s
      /\ \A b \in Agents : b # a => sub'[b] = sub[b]
    BY DEF Accept, ProbeInv, AgentTypeOK, Submission
<1> HIDE DEF s
<1>4. /\ \A x \in Sessions : x # s => Passive(x)
      /\ s \in Live
      /\ sstate'[s] \in TerminalStates
      /\ jstate[s][a] # "none" /\ jstate'[s][a] # "none"
      /\ requested' = requested /\ deadline' = deadline /\ jdeadline' = jdeadline
    BY <1>1, AcceptEffect
<1>5. \A x \in Sessions : sstate[x] # "none" =>
         /\ sstate'[x] # "none"
         /\ sstate[x] \notin ActiveStates => sstate'[x] \notin ActiveStates
    BY <1>4 DEF Passive, ActiveStates, TerminalStates
<1>6. Steady
    BY <1>2, <1>4 DEF Steady, Passive, TerminalStates
<1>7. SoloSessions'
  <2> SUFFICES ASSUME NEW x \in Sessions, sstate'[x] \notin {"none", "gone"}
               PROVE  /\ who'[x] \in Agents
                      /\ requested'[x] = {who'[x]}
                      /\ sstate'[x] \in ActiveStates => jstate'[x][who'[x]] \notin ClosedJobs
                      /\ jstate'[x][who'[x]] # "none" => /\ due'[x] = deadline'[x]
                                                         /\ jdeadline'[x][who'[x]] = deadline'[x]
                      /\ queue'[x] # "none" => jstate'[x][who'[x]] # "none"
      BY DEF SoloSessions, Live, Active
  <2>1. CASE x = s
      BY <1>1, <1>2, <1>4, <2>1 DEF ProbeInv, SoloSessions, ActiveStates, TerminalStates
  <2>2. CASE x # s
      BY <1>2, <1>4, <2>2, PassiveSession
  <2> QED BY <2>1, <2>2
<1>8. UnusedIsUnknown'
    BY <1>2, <1>6 DEF Steady, ProbeInv, UnusedIsUnknown
<1>9. LockIsRegistering'
    BY <1>2, <1>6, LockKept
<1>10. SubmissionsAreOwn'
  <2>1. sstate'[s] \notin ActiveStates /\ sstate'[s] # "none"
      BY <1>4 DEF ActiveStates, TerminalStates
  <2> QED BY <1>1, <1>2, <1>3, <1>5, <2>1 DEF ProbeInv, SubmissionsAreOwn, Active
<1>11. AgentsWorkOnTheirOwn'
    BY <1>2, <1>6, AgentsKept
<1>12. AssignmentsAreBacked'
  <2> SUFFICES ASSUME NEW x \in Sessions, queue'[x] # "none"
               PROVE  \/ sstate'[x] \in ActiveStates
                      \/ due'[x] <= now'
                      \/ x \in dropJobs
                      \/ node[x] \in dropNodes
                      \/ \E b \in Agents : sub'[b].pc = "drop" /\ sub'[b].job = x
      BY <1>2 DEF AssignmentsAreBacked, Active
  <2>1. CASE x = s
      BY <1>3, <2>1
  <2>2. CASE x # s
    <3>1. \/ sstate'[x] \in ActiveStates
          \/ due'[x] <= now'
          \/ x \in dropJobs
          \/ node[x] \in dropNodes
          \/ \E b \in Agents : sub[b].pc = "drop" /\ sub[b].job = x
        BY <1>2, <1>4, <2>2, PassiveSession
    <3>2. \A b \in Agents : sub[b].pc = "drop" => sub'[b] = sub[b]
        BY <1>2, <1>3
    <3> QED BY <3>1, <3>2
  <2> QED BY <2>1, <2>2
<1> QED BY <1>7, <1>8, <1>9, <1>10, <1>11, <1>12 DEF ControllerInv

\* Handling a submission keeps the invariant.
LEMMA AcceptanceStep ==
    ASSUME ProbeInv, NEW a \in Agents, Acceptance(a)
    PROVE  ControllerInv'
<1>0. sub \in [Agents -> Submission]
    BY DEF ProbeInv, AgentTypeOK
<1>1. CASE CheckGeneration(a)
  <2>1. /\ UNCHANGED mvars /\ sub[a].pc = "check"
        /\ UNCHANGED <<queue, node, who, due, holder, ask, dropJobs, dropNodes, runs>>
      BY <1>1 DEF CheckGeneration, cvars, wvars
  <2>2. (\A x \in Sessions : Passive(x)) /\ now' = now
      BY <2>1, UnchangedEffect DEF mvars
  <2>3. \A b \in Agents : b # a => sub'[b] = sub[b]
      BY <1>0, <1>1 DEF CheckGeneration
  <2>4. Quiet
      BY <2>1, <2>2, <2>3, QuietStill
  <2>5. CASE gen = sgen[sub[a].job]
    <3>1. /\ UNCHANGED <<apc, conn, ajob, refused>>
          /\ sub'[a].pc = "accept" /\ sub'[a].job = sub[a].job
        BY <1>0, <1>1, <2>5 DEF CheckGeneration, avars, Submission
    <3>2. Steady
        BY <2>4, QuietSteady
    <3>3. SubmissionsAreOwn'
        BY <2>1, <2>3, <3>1, <3>2 DEF Steady, mvars, ProbeInv, SubmissionsAreOwn, Active
    <3>4. LockIsRegistering' /\ AgentsWorkOnTheirOwn'
        BY <2>1, <3>1, <3>2, LockKept, AgentsKept
    <3> QED BY <2>4, <3>3, <3>4, QuietSolo DEF ControllerInv
  <2>6. CASE gen # sgen[sub[a].job]
    <3>1. Reply(a, FALSE) /\ conn' = conn /\ sub' = [sub EXCEPT ![a] = NoSub]
        BY <1>1, <2>6 DEF CheckGeneration
    <3>2. \A b \in Agents : sub'[b] = sub[b] \/ sub'[b] = NoSub
        BY <1>0, <3>1
    <3> QED BY <2>1, <2>4, <3>1, <3>2, ReplyFacts, MuteStep
  <2> QED BY <2>5, <2>6
<1>2. ASSUME NEW t \in ReadTime, AcceptRefused(a, t) PROVE ControllerInv'
  <2>1. /\ sub[a].pc = "accept" /\ Expire(t) /\ Reply(a, FALSE)
        /\ sub' = [sub EXCEPT ![a] = NoSub]
        /\ UNCHANGED <<queue, node, who, due, holder, ask, dropJobs, dropNodes, conn, runs>>
      BY <1>2 DEF AcceptRefused, cvars, wvars
  <2>2. (\A x \in Sessions : Passive(x)) /\ now' = now
      BY <2>1, ExpireEffect DEF Expire
  <2>3. \A b \in Agents : sub'[b] = IF b = a THEN NoSub ELSE sub[b]
      BY <1>0, <2>1
  <2>4. Quiet
      BY <2>1, <2>2, <2>3, QuietStill
  <2> QED BY <2>1, <2>3, <2>4, ReplyFacts, MuteStep
<1>3. CASE DropAccepted(a)
  <2>1. /\ sub[a].pc = "drop" /\ Reply(a, TRUE) /\ UNCHANGED mvars
        /\ queue' = [queue EXCEPT ![sub[a].job] = "none"]
        /\ sub' = [sub EXCEPT ![a] = NoSub]
        /\ UNCHANGED <<node, who, due, holder, ask, dropJobs, dropNodes, conn, runs>>
      BY <1>3 DEF DropAccepted, wvars
  <2>2. (\A x \in Sessions : Passive(x)) /\ now' = now
      BY <2>1, UnchangedEffect DEF mvars
  <2>3. \A b \in Agents : sub'[b] = IF b = a THEN NoSub ELSE sub[b]
      BY <1>0, <2>1
  <2>4. /\ \A x \in Sessions : queue'[x] = queue[x] \/ queue'[x] = "none"
        /\ queue'[sub[a].job] = "none"
      BY <2>1 DEF ProbeInv, ControllerTypeOK, SubmissionsAreOwn
  <2>5. Quiet
      BY <2>1, <2>2, <2>3, <2>4, QuietStill
  <2> QED BY <2>1, <2>3, <2>5, ReplyFacts, MuteStep
<1> QED BY <1>1, <1>2, <1>3, AcceptStep DEF Acceptance

\* The agents' steps and the surroundings keep the invariant.
LEMMA AgentStep ==
    ASSUME ProbeInv, (\E a \in Agents : AgentLoop(a)) \/ Fault \/ Refresh
                     \/ (\E n \in Pausable : SetMaintenance(n)) \/ Time
    PROVE  ControllerInv'
<1>0. AgentTypeOK
    BY DEF ProbeInv
<1>1. ASSUME NEW a \in Agents, NEW p \in Polls, StartPoll(a, p) PROVE ControllerInv'
  <2>1. /\ UNCHANGED mvars
        /\ UNCHANGED <<queue, node, who, due, holder, ask, dropJobs, dropNodes, runs, sub, ajob, refused>>
        /\ apc' = [apc EXCEPT ![a] = "polling"] /\ conn' = [conn EXCEPT ![a] = p]
      BY <1>1 DEF StartPoll, cvars, wvars
  <2>2. (\A x \in Sessions : Passive(x)) /\ now' = now
      BY <2>1, UnchangedEffect DEF mvars
  <2>3. Quiet
      BY <2>1, <2>2, QuietStill
  <2>4. Steady /\ \A x \in Sessions : sstate[x] \notin ActiveStates /\ sstate[x] # "none"
                                         => sstate'[x] \notin ActiveStates
      BY <2>3, QuietSteady
  <2>5. AgentsWorkOnTheirOwn'
      BY <1>0, <2>1, <2>4 DEF Steady, AgentTypeOK, ProbeInv, AgentsWorkOnTheirOwn
  <2>6. LockIsRegistering' /\ SubmissionsAreOwn'
      BY <2>1, <2>4, LockKept, SubmissionsKept
  <2> QED BY <2>3, <2>5, <2>6, QuietSolo DEF ControllerInv
<1>2. ASSUME NEW a \in Agents, NEW checked, Submit(a, checked) PROVE ControllerInv'
  <2>1. /\ UNCHANGED mvars
        /\ apc[a] = "probing" /\ sub[a].pc = "none"
        /\ UNCHANGED <<queue, node, who, due, holder, ask, dropJobs, dropNodes, runs, conn, ajob, refused>>
        /\ apc' = [apc EXCEPT ![a] = "waiting"]
        /\ sub' = [sub EXCEPT ![a] = [pc |-> "check", job |-> ajob[a], checked |-> checked]]
      BY <1>2 DEF Submit, cvars, wvars
  <2>2. (\A x \in Sessions : Passive(x)) /\ now' = now
      BY <2>1, UnchangedEffect DEF mvars
  <2>3. \A b \in Agents : b # a => sub'[b] = sub[b]
      BY <1>0, <2>1 DEF AgentTypeOK
  <2>4. sub'[a].pc = "check" /\ sub'[a].job = ajob[a]
      BY <1>0, <2>1 DEF AgentTypeOK
  <2>5. Quiet
      BY <2>1, <2>2, <2>3, QuietStill
  <2>6. Steady
      BY <2>5, QuietSteady
  <2>7. ajob[a] \in Sessions /\ sstate[ajob[a]] # "none" /\ who[ajob[a]] = a
      BY <2>1 DEF ProbeInv, AgentsWorkOnTheirOwn
  <2>8. SubmissionsAreOwn'
      BY <2>1, <2>3, <2>4, <2>7 DEF mvars, ProbeInv, SubmissionsAreOwn, Active
  <2>9. AgentsWorkOnTheirOwn'
      BY <1>0, <2>1, <2>6 DEF Steady, AgentTypeOK, ProbeInv, AgentsWorkOnTheirOwn
  <2>10. LockIsRegistering'
      BY <2>1, <2>6, LockKept
  <2> QED BY <2>5, <2>8, <2>9, <2>10, QuietSolo DEF ControllerInv
<1>3. ASSUME NEW a \in Agents, Disconnect(a) \/ AgentRestart(a) PROVE ControllerInv'
  <2>1. /\ UNCHANGED mvars
        /\ UNCHANGED <<queue, node, who, due, holder, ask, dropJobs, dropNodes, runs, sub>>
        /\ apc' = [apc EXCEPT ![a] = "idle"] /\ conn' = [conn EXCEPT ![a] = NoOne]
        /\ ajob' = [ajob EXCEPT ![a] = NoJob]
        /\ refused' = refused \/ refused' = [refused EXCEPT ![a] = {}]
      BY <1>3 DEF Disconnect, AgentRestart, cvars, hvars, wvars
  <2>2. (\A x \in Sessions : Passive(x)) /\ now' = now
      BY <2>1, UnchangedEffect DEF mvars
  <2>3. Quiet
      BY <2>1, <2>2, QuietStill
  <2>4. \A b \in Agents : \/ /\ apc'[b] = apc[b] /\ conn'[b] = conn[b]
                             /\ ajob'[b] = ajob[b] /\ refused'[b] = refused[b]
                          \/ apc'[b] = "idle" /\ conn'[b] = NoOne
      BY <1>0, <2>1 DEF AgentTypeOK
  <2> QED BY <2>1, <2>3, <2>4, MuteStep
<1>4. ASSUME Refresh \/ \E n \in Pausable : SetMaintenance(n) PROVE ControllerInv'
  <2>1. /\ UNCHANGED mvars
        /\ UNCHANGED <<queue, node, who, due, holder, ask, dropJobs, dropNodes, runs, sub,
                       apc, conn, ajob, refused>>
      BY <1>4 DEF Refresh, SetMaintenance, cvars, hvars, avars
  <2>2. (\A x \in Sessions : Passive(x)) /\ now' = now
      BY <2>1, UnchangedEffect DEF mvars
  <2>3. Quiet
      BY <2>1, <2>2, QuietStill
  <2> QED BY <2>1, <2>3, MuteStep
<1>5. CASE Time
  <2>1. /\ Tick
        /\ UNCHANGED <<queue, node, who, due, holder, ask, dropJobs, dropNodes, runs, sub,
                       apc, conn, ajob, refused>>
      BY <1>5 DEF Time, cvars, hvars, avars, wvars
  <2>2. now' \in Nat /\ now <= now'
      BY <2>1 DEF Tick, ProbeInv, ManagerInv, ManagerTypeOK
  <2>3. Quiet
      BY <2>1, <2>2, TickEffect DEF Quiet
  <2> QED BY <2>1, <2>3, MuteStep
<1> QED BY <1>1, <1>2, <1>3, <1>4, <1>5 DEF AgentLoop, Fault

-----------------------------------------------------------------------------
(* The theorems. *)

\* The invariant holds at the start.
LEMMA ProbeInvInit == ProbeInit => ProbeInv
<1> SUFFICES ASSUME ProbeInit PROVE ProbeInv
    OBVIOUS
<1> USE DEF ProbeInit
<1>1. ManagerInv
    BY ManagerInvInit
<1>2. ControllerTypeOK
    BY DEF ControllerTypeOK, Idle, Request
<1>3. AgentTypeOK
    BY DEF AgentTypeOK, NoSub, Submission
<1>4. SoloSessions /\ UnusedIsUnknown
    BY DEF ManagerInit, SoloSessions, UnusedIsUnknown, Live
<1>5. LockIsRegistering
    BY DEF LockIsRegistering, Idle
<1>6. SubmissionsAreOwn /\ AgentsWorkOnTheirOwn /\ AssignmentsAreBacked
    BY DEF SubmissionsAreOwn, AgentsWorkOnTheirOwn, AssignmentsAreBacked, NoSub
<1> QED BY <1>1, <1>2, <1>3, <1>4, <1>5, <1>6 DEF ProbeInv

\* Every step keeps the invariant.
LEMMA ProbeInvStep == ProbeInv /\ [ProbeNext]_pvars => ProbeInv'
<1> SUFFICES ASSUME ProbeInv, [ProbeNext]_pvars PROVE ProbeInv'
    OBVIOUS
<1>1. ManagerInv'
    BY ProbeStepIsManagers, ManagerInvStep DEF ProbeInv
<1>2. ControllerTypeOK' /\ AgentTypeOK'
    BY ProbeTypeStep
<1>3. ControllerInv'
  <2>1. ASSUME Creation PROVE ControllerInv'
      BY <2>1, AskStep, CreateStep, CreateRefusedStep DEF Creation
  <2>2. ASSUME Registration PROVE ControllerInv'
      BY <2>2, RegisterStep, RegisterRefusedStep DEF Registration
  <2>3. CASE UNCHANGED pvars
    <3>1. /\ UNCHANGED mvars
          /\ UNCHANGED <<queue, node, who, due, holder, ask, dropJobs, dropNodes, runs, sub,
                         apc, conn, ajob, refused>>
        BY <2>3 DEF pvars, cvars, hvars, avars
    <3>2. (\A x \in Sessions : Passive(x)) /\ now' = now
        BY <3>1, UnchangedEffect DEF mvars
    <3>3. Quiet
        BY <3>1, <3>2, QuietStill
    <3> QED BY <3>1, <3>3, MuteStep
  <2>4. CASE ProbeNext
      BY <2>1, <2>2, <2>4, OperatorStep, DropAndListStep, DeliveryStep, AcceptanceStep, AgentStep
         DEF ProbeNext
  <2> QED BY <2>3, <2>4
<1> QED BY <1>1, <1>2, <1>3 DEF ProbeInv, ControllerInv

\* The inductive invariant holds in every reachable state.
LEMMA ProbeInvariant == ProbeSpec => []ProbeInv
<1>1. ProbeInit => ProbeInv
    BY ProbeInvInit
<1>2. ProbeInv /\ [ProbeNext]_pvars => ProbeInv'
    BY ProbeInvStep
<1> QED BY <1>1, <1>2, PTL DEF ProbeSpec

(***************************************************************************)
(* The controller, its handlers and the agents use the manager as its own  *)
(* specification allows, so all that is proved of the manager holds of     *)
(* remote diagnostics.                                                     *)
(***************************************************************************)
THEOREM ProbeRefinesManager == ProbeSpec => ManagerSpec
<1>1. ProbeInit => ManagerInit
    BY DEF ProbeInit
<1>2. ProbeInv /\ [ProbeNext]_pvars => [ManagerNext]_mvars
    BY ProbeStepIsManagers
<1> QED BY <1>1, <1>2, ProbeInvariant, PTL DEF ProbeSpec, ManagerSpec

(***************************************************************************)
(* Nothing forgets an assignment: whoever ends a session also drops what   *)
(* an agent could still be handed for it.                                  *)
(***************************************************************************)
THEOREM AssignmentsBacked == ProbeSpec => []AssignmentsAreBacked
<1>1. ProbeInv => AssignmentsAreBacked
    BY DEF ProbeInv
<1> QED BY <1>1, ProbeInvariant, PTL

(***************************************************************************)
(* While the controller serves at most one poll of an agent, no wake-up is *)
(* lost: a queued job has left a token for a poll that sleeps.             *)
(***************************************************************************)
THEOREM WakeUpsKept ==
    ASSUME \A p, q \in Polls : p = q
    PROVE  ProbeSpec => []NoLostWakeUp
<1>1. ProbeInit => NoLostWakeUp
    BY DEF ProbeInit, NoLostWakeUp
<1>2. ProbeInv /\ NoLostWakeUp /\ [ProbeNext]_pvars => NoLostWakeUp'
  <2> SUFFICES ASSUME ProbeInv, NoLostWakeUp, [ProbeNext]_pvars PROVE NoLostWakeUp'
      OBVIOUS
  <2>0. /\ now \in Nat /\ due \in [Sessions -> Nat] /\ who \in [Sessions -> Agents \cup {NoOne}]
        /\ poll \in [Agents -> [Polls -> {"none", "awake", "asleep"}]]
        /\ queue \in [Sessions -> {"none", "queued", "claimed"}]
      BY DEF ProbeInv, ManagerInv, ManagerTypeOK, ControllerTypeOK, AgentTypeOK
  \* Nothing is queued, and nobody falls asleep or eats a token.
  <2>1. ASSUME \A a \in Agents, p \in Polls : poll'[a][p] = "asleep" => poll[a][p] = "asleep",
               \A s \in Sessions : queue'[s] = "queued" =>
                  queue[s] = "queued" /\ who'[s] = who[s] /\ due'[s] = due[s],
               now' \in Nat, now <= now', token \subseteq token'
        PROVE  NoLostWakeUp'
      BY <2>0, <2>1 DEF NoLostWakeUp
  <2>2. ASSUME Creation PROVE NoLostWakeUp'
    <3>1. ASSUME NEW c \in Creators, NEW s \in Sessions, NEW a \in Agents,
                 NEW ev \in {{}} \cup {{v} : v \in Sessions}, NEW tc \in ReadTime, NEW t \in ReadTime,
                 Create(c, s, a, ev, tc, t)
          PROVE  NoLostWakeUp'
      <4>1. queue[s] = "none" /\ now' = now
          BY <3>1 DEF Create, CreateSession, ProbeInv, UnusedIsUnknown
      <4>2. \A x \in Sessions : queue'[x] = "queued" => queue[x] = "queued" /\ who'[x] = who[x]
          BY <2>0, <3>1, <4>1, UnexpiredFacts DEF Create
      <4> QED BY <2>0, <2>1, <3>1, <4>1, <4>2 DEF Create, hvars
    <3>2. ASSUME NEW c \in Creators, NEW tc \in ReadTime, NEW t \in ReadTime, CreateRefused(c, tc, t)
          PROVE  NoLostWakeUp'
      <4>1. now' = now
          BY <3>2 DEF CreateRefused, mvars, Expire
      <4> QED BY <2>0, <2>1, <3>2, <4>1, UnexpiredFacts DEF CreateRefused, hvars
    <3>3. ASSUME NEW c, NEW n, NEW auto, NEW a, Ask(c, n, auto, a) PROVE NoLostWakeUp'
        BY <2>0, <2>1, <3>3 DEF Ask, mvars, hvars
    <3> QED BY <2>2, <3>1, <3>2, <3>3 DEF Creation
  <2>3. ASSUME Registration PROVE NoLostWakeUp'
    <3>1. ASSUME NEW c \in Creators, NEW t \in ReadTime, Register(c, t) PROVE NoLostWakeUp'
      <4>1. /\ ask[c].sess \in Sessions /\ ask[c].agent \in Agents /\ who[ask[c].sess] = ask[c].agent
            /\ now' = now
          BY <3>1, RegisterIsManagers DEF RegisterJob
      <4>2. /\ queue' = [queue EXCEPT ![ask[c].sess] = "queued"]
            /\ due' = [due EXCEPT ![ask[c].sess] = deadline[ask[c].sess]]
            /\ token' = token \cup {ask[c].agent}
            /\ UNCHANGED <<who, poll>>
          BY <3>1 DEF Register, hvars
      <4> QED BY <2>0, <4>1, <4>2 DEF NoLostWakeUp
    <3>2. ASSUME NEW c \in Creators, NEW t \in ReadTime, RegisterRefused(c, t) PROVE NoLostWakeUp'
        BY <2>0, <2>1, <3>2 DEF RegisterRefused, Expire, hvars
    <3> QED BY <2>3, <3>1, <3>2 DEF Registration
  <2>4. ASSUME Operator \/ DropAssignments \/ Listing PROVE NoLostWakeUp'
    <3>1. /\ now' = now /\ UNCHANGED <<who, due, token, poll>>
          /\ \A x \in Sessions : queue'[x] = queue[x] \/ queue'[x] = "none"
        BY <2>4, UnexpiredFacts DEF Operator, Delete, Cancel, Clear, DropAssignments, Listing,
              ListSessions, ListDropsExpired, DeleteSessions, CancelSession, Expire, mvars, cvars, hvars
    <3> QED BY <2>0, <2>1, <3>1
  <2>5. ASSUME NEW a \in Agents, Delivery(a) PROVE NoLostWakeUp'
    <3>1. ASSUME NEW p \in Polls, NEW s \in Sessions, NEW t \in ReadTime,
                 ClaimJob(a, p, s, t) \/ ClaimFails(a, p, s, t)
          PROVE  NoLostWakeUp'
      <4>1. /\ now' = now /\ UNCHANGED <<who, due, token>>
            /\ \A x \in Sessions : queue'[x] = queue[x] \/ queue'[x] \in {"none", "claimed"}
            /\ poll' = [poll EXCEPT ![a][p] = "none"]
          BY <3>1, UnexpiredFacts DEF ClaimJob, ClaimFails, TransitionJob, Expire, mvars
      <4> QED BY <2>0, <2>1, <4>1
    <3>2. ASSUME NEW p \in Polls, ClaimNothing(a, p) PROVE NoLostWakeUp'
      <4>1. /\ now' = now /\ UNCHANGED <<who, due, token>>
            /\ \A x \in Sessions : queue'[x] = "queued" => x \notin Mine(a) /\ queue[x] = "queued"
            /\ poll' = [poll EXCEPT ![a][p] = "asleep"]
          BY <3>2 DEF ClaimNothing, Unexpired, mvars
      <4> QED BY <2>0, <4>1 DEF NoLostWakeUp, Mine
    <3>3. ASSUME NEW p \in Polls, WakeUp(a, p) PROVE NoLostWakeUp'
      <4>1. \A q \in Polls : poll'[a][q] # "asleep"
          BY <2>0, <3>3 DEF WakeUp
      <4> QED BY <2>0, <3>3, <4>1 DEF NoLostWakeUp, WakeUp, mvars
    <3>4. ASSUME NEW p \in Polls, PollEnds(a, p) PROVE NoLostWakeUp'
        BY <2>0, <2>1, <3>4 DEF PollEnds, mvars, cvars
    <3> QED BY <2>5, <3>1, <3>2, <3>3, <3>4 DEF Delivery
  <2>6. ASSUME NEW a \in Agents, Acceptance(a) PROVE NoLostWakeUp'
    <3>1. /\ now' = now /\ UNCHANGED <<who, due, token, poll>>
          /\ \A x \in Sessions : queue'[x] = queue[x] \/ queue'[x] = "none"
        BY <2>0, <2>6 DEF Acceptance, CheckGeneration, Accept, AcceptRefused, DropAccepted,
              AcceptObservation, Expire, mvars, cvars
    <3> QED BY <2>0, <2>1, <3>1
  <2>7. ASSUME NEW a \in Agents, AgentLoop(a) PROVE NoLostWakeUp'
    <3>1. ASSUME NEW p \in Polls, StartPoll(a, p) PROVE NoLostWakeUp'
        BY <2>0, <2>1, <3>1 DEF StartPoll, mvars, cvars
    <3>2. ASSUME NEW checked, Submit(a, checked) PROVE NoLostWakeUp'
        BY <2>0, <2>1, <3>2 DEF Submit, mvars, cvars
    <3> QED BY <2>7, <3>1, <3>2 DEF AgentLoop
  <2>8. ASSUME Fault \/ Refresh \/ (\E n \in Pausable : SetMaintenance(n)) \/ Time PROVE NoLostWakeUp'
    <3>1. /\ now' = now \/ now' = now + 1
          /\ UNCHANGED <<queue, who, due, token, poll>>
        BY <2>8 DEF Fault, Disconnect, AgentRestart, Refresh, SetMaintenance, Time, Tick, mvars, cvars, hvars
    <3> QED BY <2>0, <2>1, <3>1
  <2>9. CASE UNCHANGED pvars
    <3>1. UNCHANGED <<now, queue, who, due, token, poll>>
        BY <2>9 DEF pvars, mvars, cvars, hvars
    <3> QED BY <2>0, <2>1, <3>1
  <2> QED BY <2>2, <2>3, <2>4, <2>5, <2>6, <2>7, <2>8, <2>9 DEF ProbeNext
<1> QED BY <1>1, <1>2, ProbeInvariant, PTL DEF ProbeSpec

-----------------------------------------------------------------------------
(* One session for a node and an agent. *)

\* A waiting session's assignment is not due yet at any time read so far.
LEMMA WaitingStays ==
    ASSUME ProbeInv, NEW x \in Sessions, Waiting(x), queue[x] # "none", NEW t \in ReadTime \cup {now}
    PROVE  Unexpired(t)[x] = queue[x]
<1>1. due[x] = deadline[x]
    BY DEF ProbeInv, SoloSessions, Waiting, Live, Active, ActiveStates
<1>2. t \in Nat /\ now \in Nat /\ t <= now /\ deadline[x] \in Nat
    BY ReadTimeFacts DEF ProbeInv, ManagerInv, ManagerTypeOK
<1> QED BY <1>1, <1>2 DEF Unexpired, Waiting

\* A session does not start to wait because others move or time passes.
LEMMA PassiveWaits ==
    ASSUME ProbeInv, NEW x \in Sessions, Passive(x), now' \in Nat, now <= now'
    PROVE  /\ sstate'[x] \in ActiveStates => Active(x)
           /\ sstate'[x] \in ActiveStates /\ now' < deadline'[x] => Waiting(x)
<1>1. now \in Nat /\ deadline[x] \in Nat
    BY DEF ProbeInv, ManagerInv, ManagerTypeOK
<1> QED BY <1>1 DEF Passive, Waiting, Active

\* A step that lets no session start to wait, and that takes from a waiting
\* session neither its assignment nor the creator registering it.
LEMMA PairsKept ==
    ASSUME ProbeInv, PairInv, UNCHANGED <<node, who>>, dropNodes' = {},
           \A x \in Sessions : sstate'[x] \in ActiveStates /\ now' < deadline'[x] =>
              /\ Waiting(x)
              /\ queue[x] # "none" => queue'[x] # "none"
              /\ \A c \in Creators : ask[c].pc = "register" /\ ask[c].sess = x =>
                    ask'[c] = ask[c] \/ queue'[x] # "none",
           \A x \in dropJobs' : sstate'[x] \notin ActiveStates
    PROVE  PairInv'
<1>1. WaitingIsQueued'
  <2>1. ASSUME NEW x \in Sessions, sstate'[x] \in ActiveStates, now' < deadline'[x]
        PROVE  \/ queue'[x] # "none"
               \/ \E c \in Creators : ask'[c].pc = "register" /\ ask'[c].sess = x
      BY <2>1 DEF PairInv, WaitingIsQueued
  <2> QED BY <2>1 DEF WaitingIsQueued, Waiting, Active
<1>2. PairsApart'
  <2>1. ASSUME NEW x \in Sessions, NEW y \in Sessions, x # y,
               sstate'[x] \in ActiveStates, now' < deadline'[x],
               sstate'[y] \in ActiveStates, now' < deadline'[y]
        PROVE  <<node[x], who[x]>> # <<node[y], who[y]>>
    <3>1. Waiting(x) /\ Waiting(y)
        BY <2>1
    <3> QED BY <2>1, <3>1 DEF PairInv, PairsApart
  <2> QED BY <2>1 DEF PairsApart, Waiting, Active
<1> QED BY <1>1, <1>2 DEF PairInv

\* A quiet step that keeps the queue of waiting sessions and the requests
\* that register.
LEMMA QuietPairs ==
    ASSUME ProbeInv, PairInv, Quiet, dropNodes' = {},
           \A x \in Sessions : Waiting(x) /\ queue[x] # "none" => queue'[x] # "none",
           \A c \in Creators : ask[c].pc = "register" =>
              ask'[c] = ask[c] \/ ~Waiting(ask[c].sess)
    PROVE  PairInv'
<1>1. \A x \in Sessions : Passive(x)
    BY DEF Quiet
<1>2. now' \in Nat /\ now <= now' /\ dropJobs' \subseteq dropJobs /\ UNCHANGED <<node, who>>
    BY DEF Quiet
<1>3. \A x \in Sessions :
        /\ sstate'[x] \in ActiveStates => Active(x)
        /\ sstate'[x] \in ActiveStates /\ now' < deadline'[x] => Waiting(x)
    BY <1>1, <1>2, PassiveWaits
<1>4. \A x \in dropJobs' : sstate'[x] \notin ActiveStates
    BY <1>2, <1>3 DEF PairInv, WaitingIsQueued, ProbeInv, ControllerTypeOK
<1> QED BY <1>2, <1>3, <1>4, PairsKept

\* A new session is the only one of its pair: under c.mu all the waiting
\* ones are in the queue, which was just searched.
LEMMA CreatePairs ==
    ASSUME ProbeInv, PairInv, NEW c \in Creators, NEW s \in Sessions, NEW a \in Agents,
           NEW ev \in {{}} \cup {{v} : v \in Sessions}, NEW tc \in ReadTime, NEW t \in ReadTime,
           Create(c, s, a, ev, tc, t)
    PROVE  PairInv'
<1> DEFINE ttl == tc + JobTTL - t
<1>1. ttl \in Nat /\ CreateSession(s, {a}, ttl, ev, t)
    BY CreateIsManagers
<1> HIDE DEF ttl
<1>2. /\ \A x \in Sessions : x # s /\ x \notin ev => Passive(x)
      /\ \A x \in Sessions : x \in ev => sstate'[x] = "gone"
      /\ sstate[s] = "none"
    BY <1>1, CreateEffect
<1>3. /\ ask \in [Creators -> Request] /\ who \in [Sessions -> Agents \cup {NoOne}]
      /\ node \in [Sessions -> Nodes \cup {NoOne}] /\ now \in Nat
    BY DEF ProbeInv, ControllerTypeOK, ManagerInv, ManagerTypeOK
<1>4. /\ now' = now /\ holder = NoOne /\ UNCHANGED <<dropJobs, dropNodes>>
      /\ Eligible(ask[c], a, Unexpired(tc)) /\ queue' = Unexpired(tc)
      /\ who' = [who EXCEPT ![s] = a] /\ node' = [node EXCEPT ![s] = ask[c].node]
      /\ ask' = [ask EXCEPT ![c].pc = "register", ![c].agent = a, ![c].sess = s]
    BY <1>1 DEF Create, CreateSession
<1>5. ask'[c].pc = "register" /\ ask'[c].sess = s
    BY <1>3, <1>4 DEF Request
<1>6. \A d \in Creators : ask[d].pc # "register"
    BY <1>4, ProbeAssumption DEF ProbeInv, LockIsRegistering
<1>7. ASSUME NEW x \in Sessions, x # s, sstate'[x] \in ActiveStates
      PROVE  Active(x) /\ (now' < deadline'[x] => Waiting(x))
  <2>1. Passive(x)
      BY <1>2, <1>7 DEF ActiveStates
  <2> QED BY <1>3, <1>4, <1>7, <2>1, PassiveWaits
<1>8. ASSUME NEW x \in Sessions, x # s, sstate'[x] \in ActiveStates, now' < deadline'[x]
      PROVE  queue'[x] # "none" /\ <<node[x], who[x]>> # <<ask[c].node, a>>
  <2>1. Waiting(x)
      BY <1>7, <1>8
  <2>2. queue[x] # "none"
      BY <1>6, <2>1 DEF PairInv, WaitingIsQueued
  <2>3. Unexpired(tc)[x] # "none"
      BY <2>1, <2>2, WaitingStays
  <2> QED BY <1>4, <2>3 DEF Eligible
<1>9. WaitingIsQueued'
  <2>1. ASSUME NEW x \in Sessions, sstate'[x] \in ActiveStates, now' < deadline'[x]
        PROVE  \/ queue'[x] # "none"
               \/ \E d \in Creators : ask'[d].pc = "register" /\ ask'[d].sess = x
      BY <1>5, <1>8, <2>1
  <2>2. \A x \in dropJobs' : sstate'[x] \notin ActiveStates
    <3>1. s \notin dropJobs /\ dropJobs \subseteq Sessions
        BY <1>2 DEF ProbeInv, UnusedIsUnknown, ControllerTypeOK
    <3> QED BY <1>4, <1>7, <3>1 DEF PairInv, WaitingIsQueued
  <2> QED BY <1>4, <2>1, <2>2 DEF WaitingIsQueued, Waiting, Active, PairInv
<1>10. PairsApart'
  <2>1. ASSUME NEW x \in Sessions, NEW y \in Sessions, x # y,
               sstate'[x] \in ActiveStates, now' < deadline'[x],
               sstate'[y] \in ActiveStates, now' < deadline'[y]
        PROVE  <<node'[x], who'[x]>> # <<node'[y], who'[y]>>
    <3>1. node'[s] = ask[c].node /\ who'[s] = a
        BY <1>3, <1>4
    <3>2. \A z \in Sessions : z # s => node'[z] = node[z] /\ who'[z] = who[z]
        BY <1>3, <1>4
    <3>3. CASE x = s
        BY <1>8, <2>1, <3>1, <3>2, <3>3
    <3>4. CASE y = s
        BY <1>8, <2>1, <3>1, <3>2, <3>4
    <3>5. CASE x # s /\ y # s
      <4>1. Waiting(x) /\ Waiting(y)
          BY <1>7, <2>1, <3>5
      <4> QED BY <2>1, <3>2, <3>5, <4>1 DEF PairInv, PairsApart
    <3> QED BY <3>3, <3>4, <3>5
  <2> QED BY <2>1 DEF PairsApart, Waiting, Active
<1> QED BY <1>9, <1>10 DEF PairInv

\* Requests that are refused, registered or just made.
LEMMA RequestPairs ==
    ASSUME ProbeInv, PairInv
    PROVE  /\ \A c \in Creators, n \in Nodes, auto \in Triggers, a \in Agents :
                 Ask(c, n, auto, a) => PairInv'
           /\ \A c \in Creators, tc, t \in ReadTime : CreateRefused(c, tc, t) => PairInv'
           /\ Registration => PairInv'
<1>0. /\ ask \in [Creators -> Request] /\ now \in Nat /\ dropNodes = {}
      /\ queue \in [Sessions -> {"none", "queued", "claimed"}]
    BY DEF ProbeInv, ControllerTypeOK, ManagerInv, ManagerTypeOK, PairInv, WaitingIsQueued
<1>1. ASSUME NEW c \in Creators, NEW n, NEW auto, NEW a, Ask(c, n, auto, a) PROVE PairInv'
  <2>1. /\ UNCHANGED mvars /\ UNCHANGED <<queue, node, who, due, dropJobs, dropNodes, sub, runs>>
        /\ \A d \in Creators : ask[d].pc = "register" => ask'[d] = ask[d]
      BY <1>0, <1>1 DEF Ask, hvars
  <2>2. Quiet
      BY <2>1, UnchangedEffect, QuietStill DEF mvars
  <2> QED BY <1>0, <2>1, <2>2, QuietPairs
<1>2. ASSUME NEW c \in Creators, NEW tc \in ReadTime, NEW t \in ReadTime, CreateRefused(c, tc, t)
      PROVE  PairInv'
  <2>1. /\ UNCHANGED <<node, who, due, dropJobs, dropNodes, sub, runs>>
        /\ queue' = Unexpired(tc)
        /\ UNCHANGED mvars \/ Expire(t)
        /\ \A d \in Creators : ask[d].pc = "register" => ask'[d] = ask[d]
      BY <1>0, <1>2 DEF CreateRefused, hvars
  <2>2. (\A x \in Sessions : Passive(x)) /\ now' = now
      BY <2>1, UnchangedEffect, ExpireEffect DEF mvars, Expire
  <2>3. Quiet
      BY <2>1, <2>2, QuietStill, UnexpiredFacts
  <2>4. \A x \in Sessions : Waiting(x) /\ queue[x] # "none" => queue'[x] # "none"
      BY <2>1, WaitingStays
  <2> QED BY <1>0, <2>1, <2>3, <2>4, QuietPairs
<1>3. ASSUME NEW c \in Creators, NEW t \in ReadTime, Register(c, t) PROVE PairInv'
  <2> DEFINE s == ask[c].sess
  <2>1. /\ s \in Sessions /\ ask[c].agent \in Agents /\ who[s] = ask[c].agent
        /\ RegisterJob(s, ask[c].agent, deadline[s], t)
      BY <1>3, RegisterIsManagers DEF Register
  <2>2. /\ UNCHANGED <<node, who, dropJobs, dropNodes>>
        /\ queue' = [queue EXCEPT ![s] = "queued"]
        /\ ask' = [ask EXCEPT ![c] = Idle]
      BY <1>3 DEF Register
  <2>3. now' = now
      BY <2>1 DEF RegisterJob
  <2> HIDE DEF s
  <2>4. /\ \A x \in Sessions : x # s => Passive(x)
        /\ sstate[s] \in ActiveStates
        /\ deadline' = deadline
      BY <2>1, RegisterEffect
  <2>5. \A x \in Sessions : /\ sstate'[x] \in ActiveStates => Active(x)
                            /\ sstate'[x] \in ActiveStates /\ now' < deadline'[x] => Waiting(x)
    <3> TAKE x \in Sessions
    <3>1. CASE x = s
        BY <2>3, <2>4, <3>1 DEF Waiting, Active
    <3>2. CASE x # s
        BY <1>0, <2>3, <2>4, <3>2, PassiveWaits
    <3> QED BY <3>1, <3>2
  <2>6. \A x \in dropJobs' : sstate'[x] \notin ActiveStates
      BY <2>2, <2>5 DEF PairInv, WaitingIsQueued, ProbeInv, ControllerTypeOK
  <2>7. /\ queue'[s] # "none"
        /\ \A x \in Sessions : queue[x] # "none" => queue'[x] # "none"
        /\ \A d \in Creators : ask'[d] = ask[d] \/ ask[d].sess = s
    <3>1. \A d \in Creators : d # c => ask'[d] = ask[d]
        BY <1>0, <2>2
    <3> QED BY <1>0, <2>1, <2>2, <3>1 DEF s
  <2> QED BY <1>0, <2>2, <2>5, <2>6, <2>7, PairsKept
<1>4. ASSUME NEW c \in Creators, NEW t \in ReadTime, RegisterRefused(c, t) PROVE PairInv'
  <2>1. /\ UNCHANGED <<queue, node, who, due, dropJobs, dropNodes, sub, runs>>
        /\ ask[c].pc = "register" /\ ~ActiveAt(ask[c].sess, t) /\ Expire(t)
        /\ \A d \in Creators : d # c => ask'[d] = ask[d]
      BY <1>0, <1>4 DEF RegisterRefused, hvars
  <2>2. (\A x \in Sessions : Passive(x)) /\ now' = now
      BY <2>1, ExpireEffect DEF Expire
  <2>3. Quiet
      BY <2>1, <2>2, QuietStill
  <2>4. ask[c].sess \in Sessions
      BY <2>1 DEF ProbeInv, LockIsRegistering
  <2>5. ~Waiting(ask[c].sess)
    <3>1. t \in Nat /\ t <= now /\ deadline[ask[c].sess] \in Nat
        BY <2>4, ReadTimeFacts DEF ProbeInv, ManagerInv, ManagerTypeOK
    <3> QED BY <1>0, <2>1, <2>4, <3>1, SoloActiveAt DEF Waiting
  <2> QED BY <1>0, <2>1, <2>3, <2>5, QuietPairs
<1> QED BY <1>1, <1>2, <1>3, <1>4 DEF Registration

\* A caller ends session s and nothing else happens to the queue.
LEMMA EndingPairs ==
    ASSUME ProbeInv, PairInv, NEW s \in Sessions, \A x \in Sessions : x # s => Passive(x),
           sstate'[s] \notin ActiveStates, now' = now,
           UNCHANGED <<queue, node, who, ask, dropNodes>>, dropJobs' \subseteq dropJobs \cup {s}
    PROVE  PairInv'
<1>1. now \in Nat /\ dropJobs \subseteq Sessions /\ dropNodes = {}
    BY DEF ProbeInv, ManagerInv, ManagerTypeOK, ControllerTypeOK, PairInv, WaitingIsQueued
<1>2. \A x \in Sessions : /\ sstate'[x] \in ActiveStates => Active(x)
                          /\ sstate'[x] \in ActiveStates /\ now' < deadline'[x] => Waiting(x)
    BY <1>1, PassiveWaits
<1>3. \A x \in dropJobs' : sstate'[x] \notin ActiveStates
    BY <1>1, <1>2 DEF PairInv, WaitingIsQueued
<1> QED BY <1>1, <1>2, <1>3, PairsKept

\* An operator who clears nothing, the session list, and the agents' side.
LEMMA OtherPairs ==
    ASSUME ProbeInv, PairInv, ClearScopes = {}
    PROVE  /\ Operator \/ DropAssignments \/ Listing => PairInv'
           /\ \A a \in Agents : Delivery(a) \/ Acceptance(a) \/ AgentLoop(a) => PairInv'
           /\ Fault \/ Refresh \/ (\E n \in Pausable : SetMaintenance(n)) \/ Time
                 \/ UNCHANGED pvars => PairInv'
<1>0. /\ now \in Nat /\ dropNodes = {} /\ (\A x \in dropJobs : ~Active(x))
      /\ sub \in [Agents -> Submission] /\ queue \in [Sessions -> {"none", "queued", "claimed"}]
    BY DEF ProbeInv, ControllerTypeOK, AgentTypeOK, ManagerInv, ManagerTypeOK, PairInv, WaitingIsQueued
\* Quiet steps that lose no assignment of a waiting session.
<1> DEFINE Keeps == \A x \in Sessions : Waiting(x) /\ queue[x] # "none" => queue'[x] # "none"
<1>1. ASSUME now' = now, \A x \in Sessions : Passive(x),
             UNCHANGED <<node, who, due, ask, dropJobs, dropNodes, runs>>,
             \A x \in Sessions : queue'[x] = queue[x] \/ queue'[x] = "none",
             \A a \in Agents : sub'[a] = sub[a] \/ sub[a].pc # "drop" \/ queue'[sub[a].job] = "none",
             Keeps
      PROVE  PairInv'
    BY <1>0, <1>1, QuietStill, QuietPairs
<1> HIDE DEF Keeps
<1>2. ASSUME NEW s \in Operated, (\E t \in ReadTime : Cancel(s, t)) \/ Delete(s) PROVE PairInv'
  <2>1. s \in Sessions
      BY ProbeAssumption
  <2>2. /\ now' = now /\ UNCHANGED <<queue, node, who, ask, dropNodes>> /\ dropJobs' = {s}
        /\ (\E t \in ReadTime : CancelSession(s, t)) \/ DeleteSessions({s})
      BY <1>2 DEF Cancel, Delete, CancelSession, DeleteSessions
  <2>3. (\A x \in Sessions : x # s => Passive(x)) /\ sstate'[s] \notin ActiveStates
      BY <2>1, <2>2, CancelEffect, DeleteEffect DEF ActiveStates
  <2> QED BY <2>1, <2>2, <2>3, EndingPairs
<1>3. ASSUME DropAssignments PROVE PairInv'
  <2>1. /\ UNCHANGED mvars /\ UNCHANGED <<node, who, due, ask, sub, runs>>
        /\ dropJobs' = {} /\ dropNodes' = {}
        /\ \A x \in Sessions : queue'[x] = IF x \in dropJobs THEN "none" ELSE queue[x]
      BY <1>0, <1>3 DEF DropAssignments, hvars
  <2>2. (\A x \in Sessions : Passive(x)) /\ now' = now
      BY <2>1, UnchangedEffect DEF mvars
  <2>3. Quiet
      BY <1>0, <2>1, <2>2 DEF Quiet
  <2>4. \A x \in Sessions : Waiting(x) /\ queue[x] # "none" => queue'[x] # "none"
      BY <1>0, <2>1 DEF Waiting
  <2> QED BY <2>1, <2>3, <2>4, QuietPairs
<1>4. ASSUME Listing PROVE PairInv'
  <2>1. /\ UNCHANGED mvars \/ \E t \in ReadTime : Expire(t)
        /\ queue' = queue \/ queue' = Unexpired(now)
        /\ UNCHANGED <<node, who, due, ask, dropJobs, dropNodes, sub, runs>>
      BY <1>4 DEF Listing, ListSessions, ListDropsExpired, cvars, hvars
  <2>2. (\A x \in Sessions : Passive(x)) /\ now' = now
      BY <2>1, UnchangedEffect, ExpireEffect DEF Expire, mvars
  <2>3. Keeps
      BY <2>1, WaitingStays DEF Keeps
  <2> QED BY <1>1, <2>1, <2>2, <2>3, UnexpiredFacts
<1>5. ASSUME NEW a \in Agents, NEW p \in Polls, NEW s \in Sessions, NEW t \in ReadTime,
             ClaimJob(a, p, s, t)
      PROVE  PairInv'
  <2>1. UNCHANGED <<ask, dropNodes>>
      BY <1>5 DEF ClaimJob
  <2>2. \A x \in Sessions : Waiting(x) /\ queue[x] # "none" => queue'[x] # "none"
      BY <1>5, WaitingStays DEF ClaimJob
  <2> QED BY <1>0, <1>5, <2>1, <2>2, ClaimJobStep, QuietPairs
<1>6. ASSUME NEW a \in Agents, NEW p \in Polls, NEW s \in Sessions, NEW t \in ReadTime,
             ClaimFails(a, p, s, t)
      PROVE  PairInv'
  <2>1. /\ Expire(t) /\ Answer(a, p, NoJob) /\ ~ActiveAt(s, t)
        /\ UNCHANGED <<node, who, due, ask, dropJobs, dropNodes, sub, refused>>
        /\ queue' = [o \in Sessions |-> IF o = s THEN "none"
                                        ELSE IF o < s THEN Unexpired(now)[o] ELSE queue[o]]
      BY <1>6 DEF ClaimFails
  <2>2. (\A x \in Sessions : Passive(x)) /\ now' = now /\ runs' = runs
      BY <2>1, ExpireEffect, EmptyAnswer DEF Expire, ProbeInv
  <2>3. ~Waiting(s)
    <3>1. t \in Nat /\ t <= now /\ deadline[s] \in Nat
        BY ReadTimeFacts DEF ProbeInv, ManagerInv, ManagerTypeOK
    <3> QED BY <1>0, <2>1, <3>1, SoloActiveAt DEF Waiting
  <2>4. Keeps
      BY <2>1, <2>3, WaitingStays DEF Keeps
  <2>5. \A x \in Sessions : queue'[x] = queue[x] \/ queue'[x] = "none"
      BY <2>1, UnexpiredFacts
  <2> QED BY <1>1, <2>1, <2>2, <2>4, <2>5
<1>7. ASSUME NEW a \in Agents, NEW p \in Polls, ClaimNothing(a, p) \/ WakeUp(a, p) \/ PollEnds(a, p)
      PROVE  PairInv'
  <2>1. /\ UNCHANGED mvars /\ UNCHANGED <<node, who, due, ask, dropJobs, dropNodes, sub>>
        /\ queue' = queue \/ queue' = Unexpired(now)
        /\ runs' = runs
    <3>1. CASE PollEnds(a, p)
        BY <3>1, EmptyAnswer DEF PollEnds, cvars, ProbeInv
    <3> QED BY <1>7, <3>1 DEF ClaimNothing, WakeUp
  <2>2. (\A x \in Sessions : Passive(x)) /\ now' = now
      BY <2>1, UnchangedEffect DEF mvars
  <2>3. Keeps
      BY <2>1, WaitingStays DEF Keeps
  <2> QED BY <1>1, <2>1, <2>2, <2>3, UnexpiredFacts
<1>8. ASSUME NEW a \in Agents, NEW t \in ReadTime, Accept(a, t) PROVE PairInv'
  <2> DEFINE s == sub[a].job
  <2>1. /\ s \in Sessions /\ who[s] = a
        /\ AcceptObservation(s, a, sub[a].checked, t)
      BY <1>8, AcceptIsManagers
  <2>2. now' = now /\ UNCHANGED <<queue, node, who, ask, dropJobs, dropNodes>>
      BY <1>8, <2>1 DEF Accept, AcceptObservation, cvars
  <2> HIDE DEF s
  <2>3. (\A x \in Sessions : x # s => Passive(x)) /\ sstate'[s] \in TerminalStates
      BY <2>1, AcceptEffect
  <2> QED BY <2>1, <2>2, <2>3, EndingPairs DEF ActiveStates, TerminalStates
<1>9. ASSUME NEW a \in Agents, CheckGeneration(a) \/ \E t \in ReadTime : AcceptRefused(a, t)
      PROVE  PairInv'
  <2>1. /\ UNCHANGED <<queue, node, who, due, ask, dropJobs, dropNodes, runs>>
        /\ UNCHANGED mvars \/ \E t \in ReadTime : Expire(t)
        /\ sub[a].pc # "drop" /\ \A b \in Agents : b # a => sub'[b] = sub[b]
      BY <1>0, <1>9 DEF CheckGeneration, AcceptRefused, cvars
  <2>2. (\A x \in Sessions : Passive(x)) /\ now' = now
      BY <2>1, UnchangedEffect, ExpireEffect DEF mvars, Expire
  <2> QED BY <1>1, <2>1, <2>2 DEF Keeps
<1>10. ASSUME NEW a \in Agents, DropAccepted(a) PROVE PairInv'
  <2>1. /\ UNCHANGED mvars /\ UNCHANGED <<node, who, due, ask, dropJobs, dropNodes, runs>>
        /\ sub[a].pc = "drop" /\ queue' = [queue EXCEPT ![sub[a].job] = "none"]
        /\ \A b \in Agents : b # a => sub'[b] = sub[b]
      BY <1>0, <1>10 DEF DropAccepted
  <2>2. (\A x \in Sessions : Passive(x)) /\ now' = now
      BY <2>1, UnchangedEffect DEF mvars
  <2>3. sub[a].job \in Sessions /\ ~Active(sub[a].job)
      BY <2>1 DEF ProbeInv, SubmissionsAreOwn
  <2>4. Keeps
      BY <1>0, <2>1, <2>3 DEF Keeps, Waiting
  <2> QED BY <1>0, <1>1, <2>1, <2>2, <2>3, <2>4
<1>11. ASSUME NEW a \in Agents, AgentLoop(a) PROVE PairInv'
  <2>1. /\ UNCHANGED mvars /\ UNCHANGED <<queue, node, who, due, ask, dropJobs, dropNodes, runs>>
        /\ \A b \in Agents : sub[b].pc # "none" => sub'[b] = sub[b]
      BY <1>0, <1>11 DEF AgentLoop, StartPoll, Submit, cvars
  <2>2. (\A x \in Sessions : Passive(x)) /\ now' = now
      BY <2>1, UnchangedEffect DEF mvars
  <2> QED BY <1>1, <2>1, <2>2 DEF Keeps
<1>12. ASSUME Fault \/ Refresh \/ (\E n \in Pausable : SetMaintenance(n)) \/ UNCHANGED pvars
       PROVE  PairInv'
  <2>1. UNCHANGED mvars /\ UNCHANGED <<queue, node, who, due, ask, dropJobs, dropNodes, runs, sub>>
      BY <1>12 DEF Fault, Disconnect, AgentRestart, Refresh, SetMaintenance, pvars, cvars, hvars
  <2>2. (\A x \in Sessions : Passive(x)) /\ now' = now
      BY <2>1, UnchangedEffect DEF mvars
  <2> QED BY <1>1, <2>1, <2>2 DEF Keeps
<1>13. ASSUME Time PROVE PairInv'
  <2>1. Tick /\ UNCHANGED <<queue, node, who, due, ask, dropJobs, dropNodes, runs, sub>>
      BY <1>13 DEF Time, cvars, hvars
  <2>2. now' \in Nat /\ now <= now'
      BY <1>0, <2>1 DEF Tick
  <2>3. Quiet
      BY <2>1, <2>2, TickEffect DEF Quiet
  <2> QED BY <1>0, <2>1, <2>3, QuietPairs
<1>14. Operator => PairInv'
    BY <1>2 DEF Operator
<1>15. \A a \in Agents : Delivery(a) => PairInv'
    BY <1>5, <1>6, <1>7 DEF Delivery
<1>16. \A a \in Agents : Acceptance(a) => PairInv'
    BY <1>8, <1>9, <1>10 DEF Acceptance
<1> QED BY <1>3, <1>4, <1>11, <1>12, <1>13, <1>14, <1>15, <1>16

(***************************************************************************)
(* The documented promise: the controller allows at most one active        *)
(* session for a node and an agent.  Sessions here have a single agent; an *)
(* operator who clears nodes is left out, because Clear takes the sessions *)
(* of its nodes from the manager first and drops assignments by node only  *)
(* later, so it also drops that of a session created in between.           *)
(***************************************************************************)
THEOREM PairsHaveOneSession ==
    ASSUME ClearScopes = {}
    PROVE  ProbeSpec => []OneSessionPerPair
<1>1. ProbeInit => PairInv
    BY DEF ProbeInit, ManagerInit, PairInv, WaitingIsQueued, PairsApart, Waiting, Active, ActiveStates
<1>2. ProbeInv /\ PairInv /\ [ProbeNext]_pvars => PairInv'
  <2> SUFFICES ASSUME ProbeInv, PairInv, [ProbeNext]_pvars PROVE PairInv'
      OBVIOUS
  <2>1. Creation => PairInv'
      BY CreatePairs, RequestPairs DEF Creation
  <2> QED BY <2>1, RequestPairs, OtherPairs DEF ProbeNext
<1>3. ProbeInv /\ PairInv => OneSessionPerPair
  <2> SUFFICES ASSUME ProbeInv, PairInv PROVE OneSessionPerPair
      OBVIOUS
  <2>1. \A x \in Sessions : ActiveAt(x, now) => Waiting(x)
      BY SoloActiveAt DEF Waiting, ProbeInv, ManagerInv, ManagerTypeOK
  <2> QED BY <2>1 DEF OneSessionPerPair, PairInv, PairsApart
<1> QED BY <1>1, <1>2, <1>3, ProbeInvariant, PTL DEF ProbeSpec

-----------------------------------------------------------------------------
(* A second probe. *)

Busy == {"probing", "waiting"}

\* A step that executes no probe, puts no executed job back into the queue
\* and lets an agent drop one only when it remembers the refusal.
LEMMA SpentKept ==
    ASSUME ProbeInv, RunsAreSpent, UNCHANGED <<runs, losses>>,
           \A x \in Sessions : runs[x] > 0 =>
              /\ who'[x] = who[x]
              /\ queue'[x] # "none" => queue[x] # "none"
              /\ sstate'[x] \notin {"none", "gone"} /\ jstate'[x][who[x]] = "none" =>
                    sstate[x] \notin {"none", "gone"} /\ jstate[x][who[x]] = "none",
           \A a \in Agents, x \in Sessions :
              /\ x \in refused[a] => x \in refused'[a]
              /\ apc[a] \in Busy /\ ajob[a] = x /\ queue'[x] # "none" =>
                    (apc'[a] \in Busy /\ ajob'[a] = x) \/ x \in refused'[a]
    PROVE  RunsAreSpent'
<1>1. losses \in Nat /\ runs \in [Sessions -> Nat]
    BY DEF ProbeInv, AgentTypeOK
<1>2. ASSUME NEW x \in Sessions
      PROVE  /\ runs[x] <= 1 + losses
             /\ runs[x] > 0 => sstate'[x] \in {"none", "gone"} \/ jstate'[x][who'[x]] # "none"
             /\ runs[x] = 1 + losses =>
                   \/ who'[x] \in Agents /\ apc'[who'[x]] \in Busy /\ ajob'[who'[x]] = x
                   \/ who'[x] \in Agents /\ x \in refused'[who'[x]]
                   \/ queue'[x] = "none"
  <2>1. /\ runs[x] <= 1 + losses
        /\ runs[x] > 0 => sstate[x] \in {"none", "gone"} \/ jstate[x][who[x]] # "none"
        /\ runs[x] = 1 + losses =>
              \/ who[x] \in Agents /\ apc[who[x]] \in Busy /\ ajob[who[x]] = x
              \/ who[x] \in Agents /\ x \in refused[who[x]]
              \/ queue[x] = "none"
      BY <1>2 DEF RunsAreSpent, Live, Busy
  <2>2. runs[x] = 1 + losses => runs[x] > 0
      BY <1>1
  <2> QED BY <1>2, <2>1, <2>2
<1> QED BY <1>2 DEF RunsAreSpent, Live, Busy

\* A quiet step of that kind.
LEMMA QuietSpent ==
    ASSUME ProbeInv, RunsAreSpent, Quiet, UNCHANGED <<runs, losses>>,
           \A a \in Agents, x \in Sessions :
              /\ x \in refused[a] => x \in refused'[a]
              /\ apc[a] \in Busy /\ ajob[a] = x /\ queue'[x] # "none" =>
                    (apc'[a] \in Busy /\ ajob'[a] = x) \/ x \in refused'[a]
    PROVE  RunsAreSpent'
<1>1. \A x \in Sessions :
         /\ who'[x] = who[x]
         /\ queue'[x] # "none" => queue[x] # "none"
         /\ sstate'[x] \notin {"none", "gone"} /\ jstate'[x][who[x]] = "none" =>
               sstate[x] \notin {"none", "gone"} /\ jstate[x][who[x]] = "none"
    BY DEF Quiet, Passive, Live
<1> QED BY <1>1, SpentKept

\* While an agent works on a job it has room to remember another refusal, as
\* there are no more jobs than refusedJobs holds.
LEMMA RoomForRefusal ==
    ASSUME ProbeInv, IsFiniteSet(Sessions), Cardinality(Sessions) <= RefusedCap,
           NEW a \in Agents, apc[a] \in Busy
    PROVE  ~(Cardinality(refused[a]) >= RefusedCap)
<1>1. refused[a] \subseteq Sessions /\ ajob[a] \in Sessions /\ ajob[a] \notin refused[a]
    BY DEF ProbeInv, AgentTypeOK, AgentsWorkOnTheirOwn, Busy
<1>2. /\ IsFiniteSet(refused[a]) /\ Cardinality(refused[a]) <= Cardinality(Sessions)
      /\ Cardinality(refused[a]) = Cardinality(Sessions) => refused[a] = Sessions
    BY <1>1, FS_Subset
<1>3. Cardinality(refused[a]) \in Nat /\ Cardinality(Sessions) \in Nat
    BY <1>2, FS_CardinalityType
<1>4. RefusedCap \in Nat
    BY ProbeAssumption
<1> QED BY <1>1, <1>2, <1>3, <1>4

\* A reply frees the agent of the submitted job; a refusal is remembered.
LEMMA ReplySpent ==
    ASSUME ProbeInv, IsFiniteSet(Sessions), Cardinality(Sessions) <= RefusedCap,
           NEW a \in Agents, NEW ok \in BOOLEAN, Reply(a, ok)
    PROVE  \A b \in Agents, x \in Sessions :
              /\ x \in refused[b] => x \in refused'[b]
              /\ apc[b] \in Busy /\ ajob[b] = x =>
                    \/ apc'[b] \in Busy /\ ajob'[b] = x
                    \/ x \in refused'[b]
                    \/ ok /\ x = sub[a].job
<1>1. /\ apc \in [Agents -> {"idle", "polling", "probing", "waiting"}]
      /\ ajob \in [Agents -> Sessions \cup {NoJob}]
      /\ refused \in [Agents -> SUBSET Sessions]
    BY DEF ProbeInv, AgentTypeOK
<1>2. CASE apc[a] = "waiting" /\ ajob[a] = sub[a].job
  <2>1. ~(Cardinality(refused[a]) >= RefusedCap)
      BY <1>2, RoomForRefusal DEF Busy
  <2>2. \A b \in Agents : b # a => apc'[b] = apc[b] /\ ajob'[b] = ajob[b]
      BY <1>1, <1>2 DEF Reply
  <2>3. CASE ok
      BY <1>2, <2>2, <2>3 DEF Reply
  <2>4. CASE ~ok
    <3>1. refused' = [refused EXCEPT ![a] = refused[a] \cup {sub[a].job}]
        BY <1>2, <2>1, <2>4 DEF Reply
    <3> QED BY <1>1, <1>2, <2>2, <3>1
  <2> QED BY <2>3, <2>4
<1>3. CASE ~(apc[a] = "waiting" /\ ajob[a] = sub[a].job)
    BY <1>3 DEF Reply
<1> QED BY <1>2, <1>3

\* Requests: a session that is created or registered has not been probed.
LEMMA RequestSpent ==
    ASSUME ProbeInv, RunsAreSpent
    PROVE  Creation \/ Registration => RunsAreSpent'
<1>0. /\ now \in Nat /\ losses \in Nat /\ runs \in [Sessions -> Nat]
      /\ who \in [Sessions -> Agents \cup {NoOne}]
      /\ queue \in [Sessions -> {"none", "queued", "claimed"}]
    BY DEF ProbeInv, ManagerInv, ManagerTypeOK, ControllerTypeOK, AgentTypeOK
<1>1. ASSUME UNCHANGED avars
      PROVE  \A a \in Agents, x \in Sessions :
                /\ x \in refused[a] => x \in refused'[a]
                /\ apc[a] \in Busy /\ ajob[a] = x => apc'[a] \in Busy /\ ajob'[a] = x
    BY <1>1 DEF avars
<1>2. ASSUME NEW c, NEW n, NEW auto, NEW a, Ask(c, n, auto, a) PROVE RunsAreSpent'
  <2>1. /\ UNCHANGED mvars /\ UNCHANGED <<queue, node, who, due, dropJobs, dropNodes, sub, runs, losses>>
        /\ UNCHANGED avars
      BY <1>2 DEF Ask, hvars
  <2>2. Quiet
      BY <2>1, UnchangedEffect, QuietStill DEF mvars
  <2> QED BY <1>1, <2>1, <2>2, QuietSpent
<1>3. ASSUME NEW c, NEW tc, NEW t \in ReadTime, CreateRefused(c, tc, t) PROVE RunsAreSpent'
  <2>1. /\ UNCHANGED <<node, who, due, dropJobs, dropNodes, sub, runs, losses>>
        /\ queue' = Unexpired(tc)
        /\ UNCHANGED mvars \/ Expire(t)
        /\ UNCHANGED avars
      BY <1>3 DEF CreateRefused, hvars
  <2>2. (\A x \in Sessions : Passive(x)) /\ now' = now
      BY <2>1, UnchangedEffect, ExpireEffect DEF mvars, Expire
  <2>3. Quiet
      BY <2>1, <2>2, QuietStill, UnexpiredFacts
  <2> QED BY <1>1, <2>1, <2>3, QuietSpent
<1>4. ASSUME NEW c, NEW t \in ReadTime, RegisterRefused(c, t) PROVE RunsAreSpent'
  <2>1. /\ UNCHANGED <<queue, node, who, due, dropJobs, dropNodes, sub, runs, losses>> /\ Expire(t)
        /\ UNCHANGED avars
      BY <1>4 DEF RegisterRefused, hvars
  <2>2. (\A x \in Sessions : Passive(x)) /\ now' = now
      BY <2>1, ExpireEffect DEF Expire
  <2>3. Quiet
      BY <2>1, <2>2, QuietStill
  <2> QED BY <1>1, <2>1, <2>3, QuietSpent
<1>5. ASSUME NEW c \in Creators, NEW s \in Sessions, NEW a \in Agents,
             NEW ev \in {{}} \cup {{v} : v \in Sessions}, NEW tc \in ReadTime, NEW t \in ReadTime,
             Create(c, s, a, ev, tc, t)
      PROVE  RunsAreSpent'
  <2> DEFINE ttl == tc + JobTTL - t
  <2>1. ttl \in Nat /\ CreateSession(s, {a}, ttl, ev, t)
      BY <1>5, CreateIsManagers
  <2> HIDE DEF ttl
  <2>2. /\ \A x \in Sessions : x # s /\ x \notin ev => Passive(x)
        /\ \A x \in Sessions : x \in ev => sstate'[x] = "gone"
        /\ sstate[s] = "none"
      BY <2>1, CreateEffect
  <2>3. UNCHANGED <<runs, losses>> /\ UNCHANGED avars
        /\ queue' = Unexpired(tc) /\ who' = [who EXCEPT ![s] = a]
      BY <1>5 DEF Create
  <2>4. runs[s] = 0
      BY <2>2 DEF ProbeInv, UnusedIsUnknown
  <2>5. \A x \in Sessions : runs[x] > 0 =>
           /\ who'[x] = who[x]
           /\ queue'[x] # "none" => queue[x] # "none"
           /\ sstate'[x] \notin {"none", "gone"} /\ jstate'[x][who[x]] = "none" =>
                 sstate[x] \notin {"none", "gone"} /\ jstate[x][who[x]] = "none"
    <3> SUFFICES ASSUME NEW x \in Sessions, runs[x] > 0
                 PROVE  /\ who'[x] = who[x]
                        /\ queue'[x] # "none" => queue[x] # "none"
                        /\ sstate'[x] \notin {"none", "gone"} /\ jstate'[x][who[x]] = "none" =>
                              sstate[x] \notin {"none", "gone"} /\ jstate[x][who[x]] = "none"
        OBVIOUS
    <3>1. x # s
        BY <2>4
    <3>2. who'[x] = who[x] /\ (queue'[x] # "none" => queue[x] # "none")
        BY <1>0, <2>3, <3>1, UnexpiredFacts
    <3>3. x \in ev \/ Passive(x)
        BY <2>2, <3>1
    <3> QED BY <2>2, <3>2, <3>3 DEF Passive, Live
  <2> QED BY <1>1, <2>3, <2>5, SpentKept
<1>6. ASSUME NEW c \in Creators, NEW t \in ReadTime, Register(c, t) PROVE RunsAreSpent'
  <2> DEFINE s == ask[c].sess
  <2> DEFINE a == ask[c].agent
  <2>1. s \in Sessions /\ a \in Agents /\ who[s] = a /\ RegisterJob(s, a, deadline[s], t)
      BY <1>6, RegisterIsManagers DEF Register
  <2>2. /\ UNCHANGED <<who, runs, losses>> /\ UNCHANGED avars
        /\ queue' = [queue EXCEPT ![s] = "queued"]
      BY <1>6 DEF Register
  <2> HIDE DEF s, a
  <2>3. /\ \A x \in Sessions : x # s => Passive(x)
        /\ sstate[s] \in ActiveStates /\ jstate[s][a] = "none"
      BY <2>1, RegisterEffect
  <2>4. ~(runs[s] > 0)
      BY <2>1, <2>3 DEF RunsAreSpent, Live, ActiveStates
  <2>5. \A x \in Sessions : x # s =>
           /\ who'[x] = who[x]
           /\ queue'[x] # "none" => queue[x] # "none"
           /\ sstate'[x] \notin {"none", "gone"} /\ jstate'[x][who[x]] = "none" =>
                 sstate[x] \notin {"none", "gone"} /\ jstate[x][who[x]] = "none"
      BY <1>0, <2>2, <2>3 DEF Passive, Live
  <2> QED BY <1>1, <2>2, <2>4, <2>5, SpentKept
<1> QED BY <1>2, <1>3, <1>4, <1>5, <1>6 DEF Creation, Registration

\* The operator and the session list take sessions and assignments away.
LEMMA OperatorSpent ==
    ASSUME ProbeInv, RunsAreSpent
    PROVE  Operator \/ DropAssignments \/ Listing => RunsAreSpent'
<1>0. now \in Nat
    BY DEF ProbeInv, ManagerInv, ManagerTypeOK
<1>1. ASSUME UNCHANGED <<who, runs, losses, queue>>, UNCHANGED avars,
             \A x \in Sessions : \/ Passive(x)
                                 \/ sstate'[x] = "gone"
                                 \/ /\ sstate[x] \in ActiveStates
                                    /\ (jstate'[x][who[x]] = "none") <=> (jstate[x][who[x]] = "none")
      PROVE  RunsAreSpent'
  <2>1. \A x \in Sessions :
           sstate'[x] \notin {"none", "gone"} /\ jstate'[x][who[x]] = "none" =>
                 sstate[x] \notin {"none", "gone"} /\ jstate[x][who[x]] = "none"
      BY <1>1 DEF Passive, Live, ActiveStates
  <2> QED BY <1>1, <2>1, SpentKept DEF avars
<1>2. ASSUME NEW s \in Operated, NEW t \in ReadTime, Cancel(s, t) PROVE RunsAreSpent'
  <2>1. s \in Sessions
      BY ProbeAssumption
  <2>2. CancelSession(s, t) /\ UNCHANGED <<who, runs, losses, queue>> /\ UNCHANGED avars
      BY <1>2 DEF Cancel
  <2> QED BY <1>1, <2>1, <2>2, CancelEffect
<1>3. ASSUME NEW s \in Operated, Delete(s) PROVE RunsAreSpent'
  <2>1. DeleteSessions({s}) /\ UNCHANGED <<who, runs, losses, queue>> /\ UNCHANGED avars
      BY <1>3 DEF Delete
  <2> QED BY <1>1, <2>1, DeleteEffect
<1>4. ASSUME NEW ns, Clear(ns) PROVE RunsAreSpent'
  <2>1. /\ UNCHANGED mvars \/ \E ss : DeleteSessions(ss)
        /\ UNCHANGED <<who, runs, losses, queue>> /\ UNCHANGED avars
      BY <1>4 DEF Clear
  <2>2. \A x \in Sessions : Passive(x) \/ sstate'[x] = "gone"
      BY <2>1, UnchangedEffect, DeleteEffect
  <2> QED BY <1>1, <2>1, <2>2
<1>5. ASSUME DropAssignments PROVE RunsAreSpent'
  <2>1. /\ UNCHANGED mvars /\ UNCHANGED <<who, runs, losses>> /\ UNCHANGED avars
        /\ \A x \in Sessions : queue'[x] # "none" => queue[x] # "none"
      BY <1>5 DEF DropAssignments
  <2> QED BY <2>1, SpentKept DEF avars, mvars
<1>6. ASSUME Listing PROVE RunsAreSpent'
  <2>1. /\ UNCHANGED mvars \/ \E t \in ReadTime : Expire(t)
        /\ UNCHANGED <<node, who, due, dropJobs, dropNodes, sub, runs, losses>>
        /\ UNCHANGED avars
        /\ queue' = queue \/ queue' = Unexpired(now)
      BY <1>6 DEF Listing, ListSessions, ListDropsExpired, cvars, hvars
  <2>2. (\A x \in Sessions : Passive(x)) /\ now' = now
      BY <2>1, UnchangedEffect, ExpireEffect DEF Expire, mvars
  <2>3. Quiet
      BY <2>1, <2>2, QuietStill, UnexpiredFacts
  <2> QED BY <2>1, <2>3, QuietSpent DEF avars
<1> QED BY <1>2, <1>3, <1>4, <1>5, <1>6 DEF Operator

\* Delivery: only an agent that works on nothing and was not refused the job
\* executes it, so the job was not spent.
LEMMA DeliverySpent ==
    ASSUME ProbeInv, RunsAreSpent, NEW a \in Agents, Delivery(a)
    PROVE  RunsAreSpent'
<1>0. /\ now \in Nat /\ losses \in Nat /\ runs \in [Sessions -> Nat] /\ AgentTypeOK
      /\ conn[a] # NoOne => apc[a] = "polling"
    BY DEF ProbeInv, ManagerInv, ManagerTypeOK, AgentTypeOK, AgentsWorkOnTheirOwn
\* An answer that is not executed.
<1>1. ASSUME NEW p \in Polls, NEW s \in Sessions \cup {NoJob}, Answer(a, p, s), refused' = refused,
             conn[a] # p \/ s \in {NoJob} \cup refused[a]
      PROVE  /\ runs' = runs
             /\ \A b \in Agents, x \in Sessions :
                   /\ x \in refused[b] => x \in refused'[b]
                   /\ apc[b] \in Busy /\ ajob[b] = x => apc'[b] \in Busy /\ ajob'[b] = x
  <2>1. CASE conn[a] # p
      BY <1>1, <2>1 DEF Answer
  <2>2. CASE conn[a] = p
    <3>1. apc[a] = "polling"
        BY <1>0, <2>2, ProbeAssumption
    <3>2. runs' = runs /\ ajob' = ajob /\ apc' = [apc EXCEPT ![a] = "idle"]
        BY <1>1, <2>2 DEF Answer
    <3> QED BY <1>0, <1>1, <3>1, <3>2 DEF AgentTypeOK, Busy
  <2> QED BY <2>1, <2>2
<1>2. ASSUME NEW p \in Polls, NEW s \in Sessions, NEW t \in ReadTime, ClaimJob(a, p, s, t)
      PROVE  RunsAreSpent'
  <2>1. /\ Answer(a, p, s) /\ refused' = refused /\ losses' = losses /\ who' = who
        /\ queue[s] # "none" /\ who[s] = a
      BY <1>2 DEF ClaimJob, First, Mine
  <2>2. Quiet
      BY <1>2, ClaimJobStep
  <2>3. CASE conn[a] # p \/ s \in {NoJob} \cup refused[a]
      BY <1>1, <2>1, <2>2, <2>3, QuietSpent
  <2>4. CASE conn[a] = p /\ s \notin {NoJob} \cup refused[a]
    <3>1. apc[a] = "polling"
        BY <1>0, <2>4, ProbeAssumption
    <3>2. /\ apc' = [apc EXCEPT ![a] = "probing"]
          /\ ajob' = [ajob EXCEPT ![a] = s]
          /\ runs' = [runs EXCEPT ![s] = @ + 1]
        BY <2>1, <2>4 DEF Answer
    <3>3. runs[s] + 1 <= 1 + losses
      <4>1. runs[s] <= 1 + losses /\ runs[s] # 1 + losses
          BY <2>1, <2>4, <3>1 DEF RunsAreSpent
      <4> QED BY <1>0, <4>1
    <3>4. \A x \in Sessions :
             /\ queue'[x] # "none" => queue[x] # "none"
             /\ sstate'[x] \notin {"none", "gone"} /\ jstate'[x][who[x]] = "none" =>
                   sstate[x] \notin {"none", "gone"} /\ jstate[x][who[x]] = "none"
        BY <2>2 DEF Quiet, Passive, Live
    <3>5. s \in Live => jstate[s][who[s]] # "none"
        BY <2>1 DEF ProbeInv, SoloSessions
    <3>6. ASSUME NEW x \in Sessions
          PROVE  /\ runs'[x] <= 1 + losses
                 /\ runs'[x] > 0 => sstate'[x] \in {"none", "gone"} \/ jstate'[x][who[x]] # "none"
                 /\ runs'[x] = 1 + losses =>
                       \/ who[x] \in Agents /\ apc'[who[x]] \in Busy /\ ajob'[who[x]] = x
                       \/ who[x] \in Agents /\ x \in refused[who[x]]
                       \/ queue'[x] = "none"
      <4>1. CASE x = s
        <5>1. runs'[s] = runs[s] + 1 /\ apc'[a] = "probing" /\ ajob'[a] = s
            BY <1>0, <3>2 DEF AgentTypeOK
        <5> QED BY <2>1, <3>3, <3>4, <3>5, <4>1, <5>1 DEF Busy, Live
      <4>2. CASE x # s
        <5>1. /\ runs'[x] = runs[x]
              /\ \A b \in Agents : b # a => apc'[b] = apc[b] /\ ajob'[b] = ajob[b]
            BY <1>0, <3>2, <4>2 DEF AgentTypeOK
        <5>2. /\ runs[x] <= 1 + losses
              /\ runs[x] > 0 => sstate[x] \in {"none", "gone"} \/ jstate[x][who[x]] # "none"
              /\ runs[x] = 1 + losses =>
                    \/ who[x] \in Agents /\ apc[who[x]] \in Busy /\ ajob[who[x]] = x
                    \/ who[x] \in Agents /\ x \in refused[who[x]]
                    \/ queue[x] = "none"
            BY DEF RunsAreSpent, Live, Busy
        <5> QED BY <3>1, <3>4, <5>1, <5>2 DEF Busy
      <4> QED BY <4>1, <4>2
    <3> QED BY <2>1, <3>6 DEF RunsAreSpent, Live, Busy
  <2> QED BY <2>3, <2>4
<1>3. ASSUME NEW p \in Polls, NEW s, NEW t \in ReadTime, ClaimFails(a, p, s, t) PROVE RunsAreSpent'
  <2>1. /\ Expire(t) /\ Answer(a, p, NoJob) /\ refused' = refused /\ losses' = losses
        /\ UNCHANGED <<node, who, due, dropJobs, dropNodes, sub>>
        /\ \A x \in Sessions : queue'[x] = queue[x] \/ queue'[x] = "none"
      BY <1>3, UnexpiredFacts DEF ClaimFails
  <2>2. (\A x \in Sessions : Passive(x)) /\ now' = now
      BY <2>1, ExpireEffect DEF Expire
  <2>3. /\ runs' = runs
        /\ \A b \in Agents, x \in Sessions :
              /\ x \in refused[b] => x \in refused'[b]
              /\ apc[b] \in Busy /\ ajob[b] = x => apc'[b] \in Busy /\ ajob'[b] = x
      BY <1>1, <2>1
  <2>4. Quiet
      BY <2>1, <2>2, <2>3, QuietStill
  <2> QED BY <2>1, <2>3, <2>4, QuietSpent
<1>4. ASSUME NEW p \in Polls, ClaimNothing(a, p) \/ WakeUp(a, p) \/ PollEnds(a, p)
      PROVE  RunsAreSpent'
  <2>1. /\ UNCHANGED mvars /\ UNCHANGED <<node, who, due, dropJobs, dropNodes, sub, losses>>
        /\ queue' = queue \/ queue' = Unexpired(now)
        /\ refused' = refused
        /\ UNCHANGED <<apc, ajob, runs>> \/ Answer(a, p, NoJob)
      BY <1>4 DEF ClaimNothing, WakeUp, PollEnds, cvars, avars
  <2>2. (\A x \in Sessions : Passive(x)) /\ now' = now
      BY <2>1, UnchangedEffect DEF mvars
  <2>3. /\ runs' = runs
        /\ \A b \in Agents, x \in Sessions :
              /\ x \in refused[b] => x \in refused'[b]
              /\ apc[b] \in Busy /\ ajob[b] = x => apc'[b] \in Busy /\ ajob'[b] = x
      BY <1>1, <2>1
  <2>4. Quiet
      BY <2>1, <2>2, <2>3, QuietStill, UnexpiredFacts
  <2> QED BY <2>1, <2>3, <2>4, QuietSpent
<1> QED BY <1>2, <1>3, <1>4 DEF Delivery

\* Acceptance: the agent forgets the job with the assignment dropped, or
\* remembers the refusal.
LEMMA AcceptanceSpent ==
    ASSUME ProbeInv, RunsAreSpent, IsFiniteSet(Sessions), Cardinality(Sessions) <= RefusedCap,
           NEW a \in Agents, Acceptance(a)
    PROVE  RunsAreSpent'
<1>0. sub \in [Agents -> Submission] /\ queue \in [Sessions -> {"none", "queued", "claimed"}]
    BY DEF ProbeInv, AgentTypeOK, ControllerTypeOK
<1>1. ASSUME CheckGeneration(a) \/ \E t \in ReadTime : AcceptRefused(a, t) PROVE RunsAreSpent'
  <2>1. /\ UNCHANGED <<queue, node, who, due, dropJobs, dropNodes, runs, losses>>
        /\ UNCHANGED mvars \/ \E t \in ReadTime : Expire(t)
        /\ sub[a].pc # "drop" /\ \A b \in Agents : b # a => sub'[b] = sub[b]
        /\ UNCHANGED avars \/ Reply(a, FALSE)
      BY <1>0, <1>1 DEF CheckGeneration, AcceptRefused, cvars
  <2>2. (\A x \in Sessions : Passive(x)) /\ now' = now
      BY <2>1, UnchangedEffect, ExpireEffect DEF mvars, Expire
  <2>3. Quiet
      BY <2>1, <2>2, QuietStill
  <2>4. \A b \in Agents, x \in Sessions :
           /\ x \in refused[b] => x \in refused'[b]
           /\ apc[b] \in Busy /\ ajob[b] = x =>
                 (apc'[b] \in Busy /\ ajob'[b] = x) \/ x \in refused'[b]
    <3>1. CASE UNCHANGED avars
        BY <3>1 DEF avars
    <3>2. CASE Reply(a, FALSE)
        BY <3>2, ReplySpent
    <3> QED BY <2>1, <3>1, <3>2
  <2> QED BY <2>1, <2>3, <2>4, QuietSpent
<1>2. ASSUME NEW t \in ReadTime, Accept(a, t) PROVE RunsAreSpent'
  <2> DEFINE s == sub[a].job
  <2>1. /\ s \in Sessions /\ who[s] = a
        /\ AcceptObservation(s, a, sub[a].checked, t)
      BY <1>2, AcceptIsManagers
  <2>2. UNCHANGED <<queue, who, runs, losses>> /\ UNCHANGED avars
      BY <1>2 DEF Accept, cvars
  <2> HIDE DEF s
  <2>3. (\A x \in Sessions : x # s => Passive(x)) /\ jstate'[s][a] # "none"
      BY <2>1, AcceptEffect
  <2>4. \A x \in Sessions :
           sstate'[x] \notin {"none", "gone"} /\ jstate'[x][who[x]] = "none" =>
                 sstate[x] \notin {"none", "gone"} /\ jstate[x][who[x]] = "none"
      BY <2>1, <2>3 DEF Passive, Live
  <2> QED BY <2>2, <2>4, SpentKept DEF avars
<1>3. ASSUME DropAccepted(a) PROVE RunsAreSpent'
  <2>1. /\ UNCHANGED mvars /\ UNCHANGED <<node, who, due, dropJobs, dropNodes, runs, losses>>
        /\ sub[a].pc = "drop" /\ queue' = [queue EXCEPT ![sub[a].job] = "none"]
        /\ Reply(a, TRUE)
      BY <1>3 DEF DropAccepted
  <2>2. queue'[sub[a].job] = "none"
      BY <1>0, <2>1 DEF ProbeInv, SubmissionsAreOwn
  <2>3. \A x \in Sessions : queue'[x] # "none" => queue[x] # "none" /\ x # sub[a].job
      BY <1>0, <2>1, <2>2
  <2>4. \A b \in Agents, x \in Sessions :
           /\ x \in refused[b] => x \in refused'[b]
           /\ apc[b] \in Busy /\ ajob[b] = x =>
                 \/ apc'[b] \in Busy /\ ajob'[b] = x
                 \/ x \in refused'[b]
                 \/ x = sub[a].job
      BY <2>1, ReplySpent
  <2> QED BY <2>1, <2>3, <2>4, SpentKept DEF mvars
<1> QED BY <1>1, <1>2, <1>3 DEF Acceptance

\* The agents' own steps; a loss allows one more probe.
LEMMA AgentSpent ==
    ASSUME ProbeInv, RunsAreSpent
    PROVE  (\E a \in Agents : AgentLoop(a)) \/ Fault \/ Refresh
              \/ (\E n \in Pausable : SetMaintenance(n)) \/ Time \/ UNCHANGED pvars
                 => RunsAreSpent'
<1>0. now \in Nat /\ losses \in Nat /\ runs \in [Sessions -> Nat] /\ AgentTypeOK
    BY DEF ProbeInv, ManagerInv, ManagerTypeOK, AgentTypeOK
<1>1. ASSUME NEW a \in Agents, AgentLoop(a) PROVE RunsAreSpent'
  <2>1. /\ UNCHANGED mvars /\ UNCHANGED <<queue, who, runs, losses, refused, ajob>>
        /\ \/ apc[a] = "idle" /\ apc' = [apc EXCEPT ![a] = "polling"]
           \/ apc[a] = "probing" /\ apc' = [apc EXCEPT ![a] = "waiting"]
      BY <1>1 DEF AgentLoop, StartPoll, Submit, cvars
  <2>2. \A b \in Agents : apc[b] \in Busy => apc'[b] \in Busy
      BY <1>0, <2>1 DEF Busy, AgentTypeOK
  <2> QED BY <2>1, <2>2, SpentKept DEF mvars
<1>2. ASSUME Fault PROVE RunsAreSpent'
  <2>1. /\ losses' = losses + 1
        /\ UNCHANGED mvars /\ UNCHANGED <<queue, who, runs>>
      BY <1>2 DEF Fault, Disconnect, AgentRestart, cvars
  <2>2. \A x \in Sessions : runs[x] <= 1 + losses => runs'[x] <= 1 + losses' /\ runs'[x] # 1 + losses'
      BY <1>0, <2>1
  <2> QED BY <2>1, <2>2 DEF RunsAreSpent, Live, mvars
<1>3. ASSUME Refresh \/ (\E n \in Pausable : SetMaintenance(n)) \/ Time \/ UNCHANGED pvars
      PROVE  RunsAreSpent'
  <2>1. UNCHANGED <<sstate, jstate, queue, who, runs, losses, apc, ajob, refused>>
      BY <1>3 DEF Refresh, SetMaintenance, Time, Tick, pvars, mvars, cvars, avars
  <2> QED BY <2>1, SpentKept
<1> QED BY <1>1, <1>2, <1>3

(***************************************************************************)
(* An agent executes a job again only after a loss or a restart, as long   *)
(* as it has not been refused more jobs than refusedJobs holds: then it    *)
(* empties the map and forgets.                                            *)
(***************************************************************************)
THEOREM ProbedOnceWithoutLoss ==
    ASSUME IsFiniteSet(Sessions), Cardinality(Sessions) <= RefusedCap
    PROVE  ProbeSpec => []ProbedAgainOnlyAfterLoss
<1>1. ProbeInit => RunsAreSpent
    BY DEF ProbeInit, RunsAreSpent
<1>2. ProbeInv /\ RunsAreSpent /\ [ProbeNext]_pvars => RunsAreSpent'
    BY RequestSpent, OperatorSpent, DeliverySpent, AcceptanceSpent, AgentSpent DEF ProbeNext
<1>3. RunsAreSpent => ProbedAgainOnlyAfterLoss
    BY DEF RunsAreSpent, ProbedAgainOnlyAfterLoss
<1> QED BY <1>1, <1>2, <1>3, ProbeInvariant, PTL DEF ProbeSpec

-----------------------------------------------------------------------------
(***************************************************************************)
(* What the manager promises on its own it keeps under the controller, the *)
(* handlers and faulty agents: an ended session is settled, and no job has *)
(* two observations however often it is delivered.                         *)
(***************************************************************************)
THEOREM DiagnosticsKeepPromises ==
    ProbeSpec => []EndedSessionsAreSettled /\ []AtMostOneObservation
BY ProbeRefinesManager, SessionsSettle, OneObservation, PTL
=============================================================================

---------------------- MODULE DiagnosticSessionsProofs ----------------------
(***************************************************************************)
(* Proofs about the session manager, for any sets of sessions and agents,  *)
(* any limits and any wait for the lock.                                   *)
(***************************************************************************)
EXTENDS DiagnosticSessions, TLAPS

JobStates == OpenJobs \cup ClosedJobs \cup {"none"}
JobTable == [Sessions -> [Agents -> JobStates]]

(***************************************************************************)
(* What a session's state says of its jobs, row, and of the agents that    *)
(* were asked, req.                                                        *)
(***************************************************************************)
Consistent(state, row, req) ==
    /\ \A a \in Agents : row[a] # "none" => a \in req
    /\ state \in {"none", "gone"} => \A a \in Agents : row[a] = "none"
    /\ state \in TerminalStates => \A a \in Agents : row[a] \notin OpenJobs
    /\ state = "completed" => req # {} /\ \A a \in req : row[a] = "completed"
    /\ state = "partial" => /\ \E a \in Agents : row[a] = "completed"
                            /\ ~(req # {} /\ \A a \in req : row[a] = "completed")
    /\ state = "expired" => ~\E a \in Agents : row[a] = "completed"

AllConsistent == \A s \in Sessions : Consistent(sstate[s], jstate[s], requested[s])

\* A session that does not exist yet holds no observation.
UnusedIsEmpty ==
    \A s \in Sessions, a \in Agents : sstate[s] = "none" => accepted[s][a] = 0

\* The inductive invariant of the session manager.
ManagerInv == ManagerTypeOK /\ AllConsistent /\ UnusedIsEmpty /\ AtMostOneObservation

-----------------------------------------------------------------------------
(* What expireLocked and deriveSessionStateLocked do to one session. *)

\* A clock read before the lock is behind the time, by LockWait at most.
LEMMA ReadTimeFacts ==
    ASSUME ManagerTypeOK, NEW t \in ReadTime
    PROVE  t \in Nat /\ t <= now /\ now <= t + LockWait
BY ManagerAssumption DEF ManagerTypeOK, ReadTime

\* Expiry only closes open jobs of active sessions.
LEMMA LapsedFacts ==
    ASSUME ManagerTypeOK, NEW t
    PROVE  /\ Lapsed(t) \in JobTable
           /\ \A s \in Sessions : ~Active(s) => Lapsed(t)[s] = jstate[s]
           /\ \A s \in Sessions, a \in Agents :
                 \/ Lapsed(t)[s][a] = jstate[s][a]
                 \/ jstate[s][a] \in OpenJobs /\ Lapsed(t)[s][a] = "expired"
BY DEF Lapsed, ManagerTypeOK, JobTable, JobStates, OpenJobs, ClosedJobs

\* Deriving a session anew yields one of the states and completes nothing.
LEMMA DerivedFacts ==
    ASSUME ManagerTypeOK, NEW t, NEW js \in JobTable
    PROVE  /\ StatesAfter(js, t) \in [Sessions -> ActiveStates \cup TerminalStates \cup {"none", "gone"}]
           /\ JobsAfter(js, t) \in JobTable
           /\ \A s \in Sessions : ~Active(s) => /\ StatesAfter(js, t)[s] = sstate[s]
                                                /\ JobsAfter(js, t)[s] = js[s]
           /\ \A s \in Sessions : Active(s) => StatesAfter(js, t)[s] \in ActiveStates \cup TerminalStates
           /\ \A s \in Sessions, a \in Agents :
                 \/ JobsAfter(js, t)[s][a] = js[s][a]
                 \/ js[s][a] \in OpenJobs /\ JobsAfter(js, t)[s][a] = "expired"
<1>1. /\ StatesAfter(js, t) \in [Sessions -> ActiveStates \cup TerminalStates \cup {"none", "gone"}]
      /\ \A s \in Sessions : ~Active(s) => StatesAfter(js, t)[s] = sstate[s]
      /\ \A s \in Sessions : Active(s) => StatesAfter(js, t)[s] \in ActiveStates \cup TerminalStates
    BY DEF StatesAfter, DerivedState, ManagerTypeOK, ActiveStates, TerminalStates
<1>2. /\ JobsAfter(js, t) \in JobTable
      /\ \A s \in Sessions : ~Active(s) => JobsAfter(js, t)[s] = js[s]
      /\ \A s \in Sessions, a \in Agents :
            \/ JobsAfter(js, t)[s][a] = js[s][a]
            \/ js[s][a] \in OpenJobs /\ JobsAfter(js, t)[s][a] = "expired"
    BY DEF JobsAfter, JobTable, JobStates, OpenJobs, ClosedJobs
<1> QED BY <1>1, <1>2

\* Deriving leaves every session in a state that agrees with its jobs.
LEMMA DerivedConsistent ==
    ASSUME ManagerInv, NEW t, NEW js \in JobTable, NEW s \in Sessions,
           ~Active(s) => js[s] = jstate[s],
           \A a \in Agents : js[s][a] # "none" => a \in requested[s]
    PROVE  Consistent(StatesAfter(js, t)[s], JobsAfter(js, t)[s], requested[s])
<1> DEFINE row == JobsAfter(js, t)[s]
           st == StatesAfter(js, t)[s]
<1>1. CASE ~Active(s)
    BY <1>1, DerivedFacts DEF ManagerInv, AllConsistent
<1>2. CASE Active(s)
  <2>1. /\ st = DerivedState(s, js, t)
        /\ \A a \in Agents : row[a] = IF Closes(s, js, t) /\ js[s][a] \in OpenJobs
                                      THEN "expired" ELSE js[s][a]
      BY <1>2 DEF StatesAfter, JobsAfter
  <2>2. requested[s] \subseteq Agents /\ \A a \in Agents : js[s][a] \in JobStates
      BY DEF ManagerInv, ManagerTypeOK, JobTable
  <2>3. \A a \in Agents : row[a] = "completed" <=> js[s][a] = "completed"
      BY <2>1, <2>2 DEF OpenJobs
  <2>4. \A a \in Agents : row[a] # "none" => a \in requested[s]
      BY <2>1, <2>2 DEF OpenJobs
  <2>5. CASE AllCompleted(s, js)
    <3>1. st = "completed"
        BY <2>1, <2>5 DEF DerivedState
    <3>2. \A a \in Agents : row[a] \notin OpenJobs
        BY <2>1, <2>2, <2>5 DEF AllCompleted, OpenJobs, Closes
    <3> QED BY <2>2, <2>3, <2>4, <2>5, <3>1, <3>2 DEF Consistent, AllCompleted
  <2>6. CASE ~AllCompleted(s, js) /\ Closes(s, js, t)
    <3>1. st = IF SomeCompleted(s, js) THEN "partial" ELSE "expired"
        BY <2>1, <2>6 DEF DerivedState
    <3>2. \A a \in Agents : row[a] \notin OpenJobs
        BY <2>1, <2>2, <2>6 DEF OpenJobs
    <3> QED BY <2>2, <2>3, <2>4, <2>6, <3>1, <3>2 DEF Consistent, AllCompleted, SomeCompleted
  <2>7. CASE ~AllCompleted(s, js) /\ ~Closes(s, js, t)
    <3>1. st \in ActiveStates
        BY <2>1, <2>7 DEF DerivedState, ActiveStates
    <3> QED BY <2>4, <3>1 DEF Consistent, ActiveStates, TerminalStates
  <2> QED BY <2>5, <2>6, <2>7
<1> QED BY <1>1, <1>2

-----------------------------------------------------------------------------
(* The steps. *)

\* The job table once the job of agent a in session s has become state st.
Moved(s, a, st, t) == [Lapsed(t) EXCEPT ![s][a] = st]

\* Moving one job changes that job in the table, and open jobs that lapse.
LEMMA MovedFacts ==
    ASSUME ManagerTypeOK, NEW t, NEW s \in Sessions, NEW a \in Agents, Active(s)
    PROVE  \A st \in JobStates :
              /\ Moved(s, a, st, t) \in JobTable
              /\ \A o \in Sessions : ~Active(o) => Moved(s, a, st, t)[o] = jstate[o]
              /\ \A o \in Sessions, b \in Agents :
                    Moved(s, a, st, t)[o][b] = IF o = s /\ b = a THEN st ELSE Lapsed(t)[o][b]
BY LapsedFacts DEF Moved, JobTable

\* A step that derives every session from the job table js, with the agents
\* that were asked left alone.
LEMMA DeriveStep ==
    ASSUME ManagerInv, NEW t, NEW js \in JobTable,
           \A s \in Sessions : ~Active(s) => js[s] = jstate[s],
           \A s \in Sessions, a \in Agents : js[s][a] # "none" => a \in requested[s],
           Derive(js, t), requested' = requested
    PROVE  /\ AllConsistent'
           /\ sstate' \in [Sessions -> ActiveStates \cup TerminalStates \cup {"none", "gone"}]
           /\ jstate' \in JobTable
           /\ \A s \in Sessions : /\ (sstate'[s] = "none") <=> (sstate[s] = "none")
                                  /\ (sstate'[s] = "gone") <=> (sstate[s] = "gone")
           /\ \A s \in Sessions, a \in Agents :
                 (jstate'[s][a] = "completed") <=> (js[s][a] = "completed")
<1>1. ManagerTypeOK
    BY DEF ManagerInv
<1>2. AllConsistent'
  <2> SUFFICES ASSUME NEW s \in Sessions
               PROVE  Consistent(sstate'[s], jstate'[s], requested'[s])
      BY DEF AllConsistent
  <2>1. Consistent(StatesAfter(js, t)[s], JobsAfter(js, t)[s], requested[s])
      BY DerivedConsistent
  <2> QED BY <2>1 DEF Derive
<1>3. /\ sstate' \in [Sessions -> ActiveStates \cup TerminalStates \cup {"none", "gone"}]
      /\ jstate' \in JobTable
    BY <1>1, DerivedFacts DEF Derive
<1>4. \A s \in Sessions : /\ (sstate'[s] = "none") <=> (sstate[s] = "none")
                          /\ (sstate'[s] = "gone") <=> (sstate[s] = "gone")
  <2> TAKE s \in Sessions
  <2>1. CASE Active(s)
      BY <1>1, <2>1, DerivedFacts DEF Derive, Active, ActiveStates, TerminalStates
  <2>2. CASE ~Active(s)
      BY <1>1, <2>2, DerivedFacts DEF Derive
  <2> QED BY <2>1, <2>2
<1>5. \A s \in Sessions, a \in Agents :
         (jstate'[s][a] = "completed") <=> (js[s][a] = "completed")
  <2> TAKE s \in Sessions, a \in Agents
  <2>1. \/ JobsAfter(js, t)[s][a] = js[s][a]
        \/ js[s][a] \in OpenJobs /\ JobsAfter(js, t)[s][a] = "expired"
      BY <1>1, DerivedFacts
  <2> QED BY <2>1 DEF Derive, OpenJobs
<1> QED BY <1>2, <1>3, <1>4, <1>5

\* A step that only expires what is due.
LEMMA ExpireStep ==
    ASSUME ManagerInv, NEW t \in ReadTime, Expire(t)
    PROVE  ManagerInv'
<1>1. ManagerTypeOK
    BY DEF ManagerInv
<1> DEFINE js == Lapsed(t)
<1>2. /\ js \in JobTable
      /\ \A s \in Sessions : ~Active(s) => js[s] = jstate[s]
      /\ \A s \in Sessions, a \in Agents : js[s][a] # "none" => a \in requested[s]
      /\ \A s \in Sessions, a \in Agents : (js[s][a] = "completed") <=> (jstate[s][a] = "completed")
    BY <1>1, LapsedFacts DEF ManagerInv, AllConsistent, Consistent, OpenJobs
<1>3. Derive(js, t) /\ requested' = requested
    BY DEF Expire
<1> HIDE DEF js
<1>4. /\ AllConsistent'
      /\ sstate' \in [Sessions -> ActiveStates \cup TerminalStates \cup {"none", "gone"}]
      /\ jstate' \in JobTable
      /\ \A s \in Sessions : /\ (sstate'[s] = "none") <=> (sstate[s] = "none")
                             /\ (sstate'[s] = "gone") <=> (sstate[s] = "gone")
      /\ \A s \in Sessions, a \in Agents :
            (jstate'[s][a] = "completed") <=> (js[s][a] = "completed")
    BY <1>2, <1>3, DeriveStep
<1>5. ManagerTypeOK'
    BY <1>1, <1>4 DEF ManagerTypeOK, Expire, JobTable, JobStates
<1>6. UnusedIsEmpty' /\ AtMostOneObservation'
    BY <1>2, <1>4 DEF ManagerInv, UnusedIsEmpty, AtMostOneObservation, Live, Expire
<1> QED BY <1>4, <1>5, <1>6 DEF ManagerInv

\* A job of an active session becomes st, which is not completed.
LEMMA MoveStep ==
    ASSUME ManagerInv, NEW t, NEW s \in Sessions, NEW a \in Agents,
           NEW st, st \in OpenJobs, Active(s), a \in requested[s], jstate[s][a] # "completed",
           Derive(Moved(s, a, st, t), t),
           jcreated' \in [Sessions -> [Agents -> Nat]],
           jdeadline' \in [Sessions -> [Agents -> Nat]],
           UNCHANGED <<now, requested, created, deadline, accepted>>
    PROVE  ManagerInv'
<1>1. ManagerTypeOK /\ st \in JobStates
    BY DEF ManagerInv, JobStates
<1>2. /\ Moved(s, a, st, t) \in JobTable
      /\ \A o \in Sessions : ~Active(o) => Moved(s, a, st, t)[o] = jstate[o]
      /\ \A o \in Sessions, b \in Agents :
            Moved(s, a, st, t)[o][b] = IF o = s /\ b = a THEN st ELSE Lapsed(t)[o][b]
    BY <1>1, MovedFacts
<1>3. \A o \in Sessions, b \in Agents :
         /\ Moved(s, a, st, t)[o][b] # "none" => b \in requested[o]
         /\ (Moved(s, a, st, t)[o][b] = "completed") <=> (jstate[o][b] = "completed")
  <2> TAKE o \in Sessions, b \in Agents
  <2>1. Moved(s, a, st, t)[o][b] = IF o = s /\ b = a THEN st ELSE Lapsed(t)[o][b]
      BY <1>2
  <2>2. \/ Lapsed(t)[o][b] = jstate[o][b]
        \/ jstate[o][b] \in OpenJobs /\ Lapsed(t)[o][b] = "expired"
      BY <1>1, LapsedFacts
  <2> QED BY <2>1, <2>2 DEF ManagerInv, AllConsistent, Consistent, OpenJobs
<1>5. /\ AllConsistent'
      /\ sstate' \in [Sessions -> ActiveStates \cup TerminalStates \cup {"none", "gone"}]
      /\ jstate' \in JobTable
      /\ \A o \in Sessions : /\ (sstate'[o] = "none") <=> (sstate[o] = "none")
                             /\ (sstate'[o] = "gone") <=> (sstate[o] = "gone")
      /\ \A o \in Sessions, b \in Agents :
            (jstate'[o][b] = "completed") <=> (Moved(s, a, st, t)[o][b] = "completed")
    BY <1>2, <1>3, DeriveStep
<1>6. ManagerTypeOK'
    BY <1>1, <1>5 DEF ManagerTypeOK, JobTable, JobStates
<1>7. UnusedIsEmpty' /\ AtMostOneObservation'
    BY <1>3, <1>5 DEF ManagerInv, UnusedIsEmpty, AtMostOneObservation, Live
<1> QED BY <1>5, <1>6, <1>7 DEF ManagerInv

\* RegisterJob keeps the invariant.
LEMMA RegisterJobStep ==
    ASSUME ManagerInv, NEW t \in ReadTime, NEW s \in Sessions, NEW a \in Agents,
           NEW expires \in Int, RegisterJob(s, a, expires, t)
    PROVE  ManagerInv'
<1>1. /\ Active(s) /\ a \in requested[s] /\ jstate[s][a] # "completed"
      /\ Derive(Moved(s, a, "pending", t), t)
      /\ UNCHANGED <<now, requested, created, deadline, accepted>>
    BY DEF RegisterJob, ActiveAt, Moved
<1>2. t \in Nat /\ expires \in Nat
    BY ReadTimeFacts DEF ManagerInv, RegisterJob
<1>3. /\ jcreated' \in [Sessions -> [Agents -> Nat]]
      /\ jdeadline' \in [Sessions -> [Agents -> Nat]]
    BY <1>2 DEF ManagerInv, ManagerTypeOK, RegisterJob
<1> QED BY <1>1, <1>3, MoveStep DEF OpenJobs

\* TransitionJob keeps the invariant.
LEMMA TransitionJobStep ==
    ASSUME ManagerInv, NEW t \in ReadTime, NEW s \in Sessions, NEW a \in Agents,
           NEW next \in {"dispatched", "running"}, TransitionJob(s, a, next, t)
    PROVE  ManagerInv'
<1>1. /\ Active(s)
      /\ Derive(Moved(s, a, next, t), t)
      /\ UNCHANGED <<now, requested, created, deadline, jcreated, jdeadline, accepted>>
      /\ Lapsed(t)[s][a] \in {"pending", "dispatched"}
    BY DEF TransitionJob, ActiveAt, Moved
<1>2. jstate[s][a] \notin {"none", "completed"}
    BY <1>1, LapsedFacts DEF ManagerInv, OpenJobs
<1>3. a \in requested[s]
    BY <1>2 DEF ManagerInv, AllConsistent, Consistent
<1>4. /\ jcreated' \in [Sessions -> [Agents -> Nat]]
      /\ jdeadline' \in [Sessions -> [Agents -> Nat]]
    BY <1>1 DEF ManagerInv, ManagerTypeOK
<1> QED BY <1>1, <1>2, <1>3, <1>4, MoveStep DEF OpenJobs

\* AcceptObservation keeps the invariant: the one observation of its job.
LEMMA AcceptObservationStep ==
    ASSUME ManagerInv, NEW t \in ReadTime, NEW s \in Sessions, NEW a \in Agents,
           NEW checked, AcceptObservation(s, a, checked, t)
    PROVE  ManagerInv'
<1>1. ManagerTypeOK /\ "completed" \in JobStates
    BY DEF ManagerInv, JobStates, ClosedJobs
<1>2. /\ Active(s) /\ s \in Live
      /\ jstate[s][a] # "none"
      /\ Lapsed(t)[s][a] # "completed"
      /\ UNCHANGED <<now, requested, created, deadline, jcreated, jdeadline>>
      /\ accepted' = [accepted EXCEPT ![s][a] = @ + 1]
    BY DEF AcceptObservation, ActiveAt
<1>3. jstate[s][a] # "completed" /\ a \in requested[s]
    BY <1>1, <1>2, LapsedFacts DEF OpenJobs, ManagerInv, AllConsistent, Consistent
<1> DEFINE js == Moved(s, a, "completed", t)
<1>4. /\ js \in JobTable
      /\ \A o \in Sessions : ~Active(o) => js[o] = jstate[o]
    BY <1>1, <1>2, MovedFacts
<1>5. \A o \in Sessions, b \in Agents :
         /\ js[o][b] # "none" => b \in requested[o]
         /\ (js[o][b] = "completed") <=> (jstate[o][b] = "completed" \/ (o = s /\ b = a))
    BY <1>1, <1>2, <1>3, MovedFacts, LapsedFacts DEF ManagerInv, AllConsistent, Consistent, OpenJobs
<1>6. Derive(js, t)
    BY DEF AcceptObservation, Moved
<1> HIDE DEF js
<1>7. /\ AllConsistent'
      /\ sstate' \in [Sessions -> ActiveStates \cup TerminalStates \cup {"none", "gone"}]
      /\ jstate' \in JobTable
      /\ \A o \in Sessions : /\ (sstate'[o] = "none") <=> (sstate[o] = "none")
                             /\ (sstate'[o] = "gone") <=> (sstate[o] = "gone")
      /\ \A o \in Sessions, b \in Agents :
            (jstate'[o][b] = "completed") <=> (js[o][b] = "completed")
    BY <1>2, <1>4, <1>5, <1>6, DeriveStep
<1>8. accepted \in [Sessions -> [Agents -> Nat]] /\ accepted[s][a] \in Nat
    BY <1>1 DEF ManagerTypeOK
<1>12. accepted' \in [Sessions -> [Agents -> Nat]]
  <2>1. accepted[s][a] + 1 \in Nat
      BY <1>8
  <2>2. accepted' = [accepted EXCEPT ![s][a] = accepted[s][a] + 1]
      BY <1>2
  <2> QED BY <1>8, <2>1, <2>2
<1>13. ManagerTypeOK'
    BY <1>1, <1>2, <1>7, <1>12 DEF ManagerTypeOK, JobTable, JobStates
<1>9. accepted[s][a] = 0
  <2>1. accepted[s][a] <= 1 /\ accepted[s][a] # 1
      BY <1>2, <1>3 DEF ManagerInv, AtMostOneObservation
  <2> QED BY <1>8, <2>1
<1>10. \A o \in Sessions, b \in Agents :
          accepted'[o][b] = IF o = s /\ b = a THEN 1 ELSE accepted[o][b]
    BY <1>1, <1>2, <1>9 DEF ManagerTypeOK
<1>11. UnusedIsEmpty' /\ AtMostOneObservation'
    BY <1>2, <1>5, <1>7, <1>10 DEF ManagerInv, UnusedIsEmpty, AtMostOneObservation, Live
<1> QED BY <1>7, <1>11, <1>13 DEF ManagerInv

\* Expiry alone leaves every session consistent, which is where the remaining
\* operations start from.
LEMMA ExpiredFacts ==
    ASSUME ManagerInv, NEW t
    PROVE  /\ StatesAfter(Lapsed(t), t) \in [Sessions -> ActiveStates \cup TerminalStates \cup {"none", "gone"}]
           /\ JobsAfter(Lapsed(t), t) \in JobTable
           /\ \A s \in Sessions :
                 /\ Consistent(StatesAfter(Lapsed(t), t)[s], JobsAfter(Lapsed(t), t)[s], requested[s])
                 /\ ~Active(s) => StatesAfter(Lapsed(t), t)[s] = sstate[s]
                 /\ Active(s) => StatesAfter(Lapsed(t), t)[s] \in ActiveStates \cup TerminalStates
           /\ \A s \in Sessions, a \in Agents :
                 (JobsAfter(Lapsed(t), t)[s][a] = "completed") <=> (jstate[s][a] = "completed")
<1>1. ManagerTypeOK
    BY DEF ManagerInv
<1>2. /\ Lapsed(t) \in JobTable
      /\ \A s \in Sessions : ~Active(s) => Lapsed(t)[s] = jstate[s]
      /\ \A s \in Sessions, a \in Agents :
            /\ Lapsed(t)[s][a] # "none" => a \in requested[s]
            /\ (Lapsed(t)[s][a] = "completed") <=> (jstate[s][a] = "completed")
    BY <1>1, LapsedFacts DEF ManagerInv, AllConsistent, Consistent, OpenJobs
<1>3. \A s \in Sessions :
         Consistent(StatesAfter(Lapsed(t), t)[s], JobsAfter(Lapsed(t), t)[s], requested[s])
    BY <1>2, DerivedConsistent
<1>4. \A s \in Sessions, a \in Agents :
         \/ JobsAfter(Lapsed(t), t)[s][a] = Lapsed(t)[s][a]
         \/ Lapsed(t)[s][a] \in OpenJobs /\ JobsAfter(Lapsed(t), t)[s][a] = "expired"
    BY <1>1, <1>2, DerivedFacts
<1>5. \A s \in Sessions, a \in Agents :
         (JobsAfter(Lapsed(t), t)[s][a] = "completed") <=> (jstate[s][a] = "completed")
    BY <1>2, <1>4 DEF OpenJobs
<1> QED BY <1>1, <1>2, <1>3, <1>5, DerivedFacts

\* makeCapacityLocked removes sessions that are there, and no new one.
LEMMA EvictsFacts ==
    ASSUME ManagerInv, NEW t, NEW ev, Evicts(ev, t)
    PROVE  \A x \in ev : /\ x \in Sessions
                         /\ sstate[x] \notin {"none", "gone"}
                         /\ StatesAfter(Lapsed(t), t)[x] \in TerminalStates
BY DEF Evicts, Ended, Live

\* CreateSession keeps the invariant, whatever it evicts to make room.
LEMMA CreateSessionStep ==
    ASSUME ManagerInv, NEW t \in ReadTime, NEW s \in Sessions, NEW agents \in SUBSET Agents,
           NEW ttl \in Nat, NEW ev, CreateSession(s, agents, ttl, ev, t)
    PROVE  ManagerInv'
<1> DEFINE st == StatesAfter(Lapsed(t), t)
           js == JobsAfter(Lapsed(t), t)
<1>1. /\ ManagerTypeOK
      /\ t \in Nat
      /\ t + ttl \in Nat
    BY ReadTimeFacts DEF ManagerInv
<1>2. /\ sstate[s] = "none"
      /\ \A x \in ev : x \in Sessions /\ sstate[x] \notin {"none", "gone"}
    BY EvictsFacts DEF CreateSession
<1>3. /\ st \in [Sessions -> ActiveStates \cup TerminalStates \cup {"none", "gone"}]
      /\ js \in JobTable
      /\ \A x \in Sessions : /\ Consistent(st[x], js[x], requested[x])
                             /\ ~Active(x) => st[x] = sstate[x]
                             /\ Active(x) => st[x] \in ActiveStates \cup TerminalStates
      /\ \A x \in Sessions, a \in Agents : (js[x][a] = "completed") <=> (jstate[x][a] = "completed")
    BY ExpiredFacts
<1>4. \A x \in Sessions :
         /\ sstate'[x] = IF x = s THEN "requested" ELSE IF x \in ev THEN "gone" ELSE st[x]
         /\ jstate'[x] = IF x \in ev THEN [a \in Agents |-> "none"] ELSE js[x]
         /\ requested'[x] = IF x = s THEN agents ELSE IF x \in ev THEN {} ELSE requested[x]
    BY DEF CreateSession
<1> HIDE DEF st, js
<1>5. ManagerTypeOK'
  <2>1. /\ sstate' \in [Sessions -> ActiveStates \cup TerminalStates \cup {"none", "gone"}]
        /\ jstate' \in JobTable
      BY <1>3 DEF CreateSession, st, js, JobTable, JobStates, ActiveStates
  <2>2. /\ requested' \in [Sessions -> SUBSET Agents]
        /\ created' \in [Sessions -> Nat]
        /\ deadline' \in [Sessions -> Nat]
        /\ jcreated' \in [Sessions -> [Agents -> Nat]]
        /\ jdeadline' \in [Sessions -> [Agents -> Nat]]
      BY <1>1 DEF CreateSession, Forget, NoTimes, ManagerTypeOK
  <2>3. now' = now /\ accepted' = accepted
      BY DEF CreateSession
  <2> QED BY <1>1, <2>1, <2>2, <2>3 DEF ManagerTypeOK, JobTable, JobStates
<1>6. s \notin ev /\ st[s] = "none"
    BY <1>2, <1>3 DEF Active, ActiveStates
<1>7. AllConsistent'
  <2> SUFFICES ASSUME NEW x \in Sessions
               PROVE  Consistent(sstate'[x], jstate'[x], requested'[x])
      BY DEF AllConsistent
  <2>1. CASE x = s
    <3>1. \A a \in Agents : js[s][a] = "none"
        BY <1>3, <1>6 DEF Consistent
    <3> QED BY <1>4, <1>6, <2>1, <3>1 DEF Consistent, TerminalStates
  <2>2. CASE x # s /\ x \in ev
      BY <1>4, <2>2 DEF Consistent, TerminalStates
  <2>3. CASE x # s /\ x \notin ev
      BY <1>3, <1>4, <2>3
  <2> QED BY <2>1, <2>2, <2>3
<1>8. UnusedIsEmpty' /\ AtMostOneObservation'
  <2> SUFFICES ASSUME NEW x \in Sessions, NEW a \in Agents
               PROVE  /\ sstate'[x] = "none" => accepted[x][a] = 0
                      /\ accepted[x][a] <= 1
                      /\ sstate'[x] \notin {"none", "gone"}
                            => (accepted[x][a] = 1 <=> jstate'[x][a] = "completed")
      BY DEF UnusedIsEmpty, AtMostOneObservation, Live, CreateSession
  <2>1. /\ sstate[x] = "none" => accepted[x][a] = 0
        /\ accepted[x][a] <= 1
        /\ sstate[x] \notin {"none", "gone"} => (accepted[x][a] = 1 <=> jstate[x][a] = "completed")
      BY DEF ManagerInv, UnusedIsEmpty, AtMostOneObservation, Live
  <2>2. CASE x = s
    <3>1. js[x][a] = "none"
        BY <1>3, <1>6, <2>2 DEF Consistent
    <3> QED BY <1>2, <1>4, <1>6, <2>1, <2>2, <3>1
  <2>3. CASE x # s /\ x \in ev
      BY <1>4, <2>1, <2>3
  <2>4. CASE x # s /\ x \notin ev
      BY <1>3, <1>4, <2>1, <2>4 DEF Active, ActiveStates, TerminalStates
  <2> QED BY <2>2, <2>3, <2>4
<1> QED BY <1>5, <1>7, <1>8 DEF ManagerInv

\* CancelSession keeps the invariant: the open jobs are cancelled with it.
LEMMA CancelSessionStep ==
    ASSUME ManagerInv, NEW t \in ReadTime, NEW s \in Sessions, CancelSession(s, t)
    PROVE  ManagerInv'
<1> DEFINE st == StatesAfter(Lapsed(t), t)
           js == JobsAfter(Lapsed(t), t)
           row == [a \in Agents |-> IF Lapsed(t)[s][a] \in OpenJobs THEN "cancelled" ELSE Lapsed(t)[s][a]]
<1>1. ManagerTypeOK /\ sstate[s] \in ActiveStates
    BY DEF ManagerInv, CancelSession, ActiveAt, Active
<1>2. /\ st \in [Sessions -> ActiveStates \cup TerminalStates \cup {"none", "gone"}]
      /\ js \in JobTable
      /\ \A x \in Sessions : /\ Consistent(st[x], js[x], requested[x])
                             /\ ~Active(x) => st[x] = sstate[x]
                             /\ Active(x) => st[x] \in ActiveStates \cup TerminalStates
      /\ \A x \in Sessions, a \in Agents : (js[x][a] = "completed") <=> (jstate[x][a] = "completed")
    BY ExpiredFacts
<1>3. /\ row \in [Agents -> JobStates]
      /\ \A a \in Agents : /\ row[a] \notin OpenJobs
                           /\ row[a] # "none" => a \in requested[s]
                           /\ (row[a] = "completed") <=> (jstate[s][a] = "completed")
    BY <1>1, LapsedFacts DEF JobTable, JobStates, OpenJobs, ClosedJobs, ManagerInv, AllConsistent, Consistent
<1>4. /\ sstate' = [st EXCEPT ![s] = "cancelled"]
      /\ jstate' = [js EXCEPT ![s] = row]
      /\ UNCHANGED <<now, requested, created, deadline, jcreated, jdeadline, accepted>>
    BY DEF CancelSession
<1> HIDE DEF st, js, row
<1>5. /\ sstate' \in [Sessions -> ActiveStates \cup TerminalStates \cup {"none", "gone"}]
      /\ jstate' \in JobTable
    BY <1>2, <1>3, <1>4 DEF JobTable, TerminalStates
<1>6. ManagerTypeOK'
    BY <1>1, <1>4, <1>5 DEF ManagerTypeOK, JobTable, JobStates
<1>7. \A x \in Sessions : /\ sstate'[x] = IF x = s THEN "cancelled" ELSE st[x]
                          /\ jstate'[x] = IF x = s THEN row ELSE js[x]
    BY <1>2, <1>4 DEF JobTable
<1>8. AllConsistent'
  <2> SUFFICES ASSUME NEW x \in Sessions
               PROVE  Consistent(sstate'[x], jstate'[x], requested[x])
      BY <1>4 DEF AllConsistent
  <2>1. CASE x = s
      BY <1>3, <1>7, <2>1 DEF Consistent
  <2>2. CASE x # s
      BY <1>2, <1>7, <2>2
  <2> QED BY <2>1, <2>2
<1>9. UnusedIsEmpty' /\ AtMostOneObservation'
  <2> SUFFICES ASSUME NEW x \in Sessions, NEW a \in Agents
               PROVE  /\ sstate'[x] = "none" => accepted[x][a] = 0
                      /\ accepted[x][a] <= 1
                      /\ sstate'[x] \notin {"none", "gone"}
                            => (accepted[x][a] = 1 <=> jstate'[x][a] = "completed")
      BY <1>4 DEF UnusedIsEmpty, AtMostOneObservation, Live
  <2>1. /\ sstate[x] = "none" => accepted[x][a] = 0
        /\ accepted[x][a] <= 1
        /\ sstate[x] \notin {"none", "gone"} => (accepted[x][a] = 1 <=> jstate[x][a] = "completed")
      BY DEF ManagerInv, UnusedIsEmpty, AtMostOneObservation, Live
  <2>2. CASE x = s
      BY <1>1, <1>3, <1>7, <2>1, <2>2 DEF ActiveStates
  <2>3. CASE x # s
      BY <1>2, <1>7, <2>1, <2>3 DEF Active, ActiveStates, TerminalStates
  <2> QED BY <2>2, <2>3
<1> QED BY <1>6, <1>8, <1>9 DEF ManagerInv

\* DeleteSessions keeps the invariant: what is removed leaves nothing behind.
LEMMA DeleteSessionsStep ==
    ASSUME ManagerInv, NEW ss, DeleteSessions(ss)
    PROVE  ManagerInv'
<1> USE DEF DeleteSessions
<1>1. ManagerTypeOK
    BY DEF ManagerInv
<1>2. ManagerTypeOK'
  <2>1. /\ sstate' \in [Sessions -> ActiveStates \cup TerminalStates \cup {"none", "gone"}]
        /\ jstate' \in JobTable
      BY <1>1 DEF ManagerTypeOK, JobTable, JobStates
  <2>2. /\ requested' \in [Sessions -> SUBSET Agents]
        /\ created' \in [Sessions -> Nat]
        /\ deadline' \in [Sessions -> Nat]
        /\ jcreated' \in [Sessions -> [Agents -> Nat]]
        /\ jdeadline' \in [Sessions -> [Agents -> Nat]]
      BY <1>1 DEF Forget, NoTimes, ManagerTypeOK
  <2> QED BY <1>1, <2>1, <2>2 DEF ManagerTypeOK, JobTable, JobStates
<1>3. AllConsistent'
    BY <1>1 DEF ManagerInv, ManagerTypeOK, AllConsistent, Consistent, TerminalStates
<1>4. UnusedIsEmpty' /\ AtMostOneObservation'
    BY <1>1 DEF ManagerInv, ManagerTypeOK, UnusedIsEmpty, AtMostOneObservation, Live
<1> QED BY <1>2, <1>3, <1>4 DEF ManagerInv

-----------------------------------------------------------------------------
(* The theorems. *)

\* The invariant holds when the checker starts.
LEMMA ManagerInvInit == ManagerInit => ManagerInv
BY DEF ManagerInit, ManagerInv, ManagerTypeOK, AllConsistent, Consistent, UnusedIsEmpty,
       AtMostOneObservation, Live, TerminalStates, AllCompleted

\* Every operation of the manager, and the clock, preserves it.
LEMMA ManagerInvStep == ManagerInv /\ [ManagerNext]_mvars => ManagerInv'
<1> SUFFICES ASSUME ManagerInv, [ManagerNext]_mvars PROVE ManagerInv'
    OBVIOUS
<1>1. CASE Tick
    BY <1>1 DEF Tick, ManagerInv, ManagerTypeOK, AllConsistent, UnusedIsEmpty, AtMostOneObservation, Live
<1>2. ASSUME NEW t \in ReadTime, Expire(t) PROVE ManagerInv'
    BY <1>2, ExpireStep
<1>3. ASSUME NEW t \in ReadTime, NEW s \in Sessions, NEW agents \in SUBSET Agents,
             NEW ttl \in 1..SessionTTL, NEW ev \in {{}} \cup {{v} : v \in Sessions},
             CreateSession(s, agents, ttl, ev, t)
      PROVE  ManagerInv'
  <2>1. ttl \in Nat
      BY ManagerAssumption
  <2> QED BY <1>3, <2>1, CreateSessionStep
<1>4. ASSUME NEW t \in ReadTime, NEW s \in Sessions, NEW a \in Agents,
             NEW expires \in t+1..deadline[s], RegisterJob(s, a, expires, t)
      PROVE  ManagerInv'
    BY <1>4, RegisterJobStep
<1>5. ASSUME NEW t \in ReadTime, NEW s \in Sessions, NEW a \in Agents,
             NEW next \in {"dispatched", "running"}, TransitionJob(s, a, next, t)
      PROVE  ManagerInv'
    BY <1>5, TransitionJobStep
<1>6. ASSUME NEW t \in ReadTime, NEW s \in Sessions, NEW a \in Agents,
             NEW checked \in t-MaxAge..t+ClockSkew, AcceptObservation(s, a, checked, t)
      PROVE  ManagerInv'
    BY <1>6, AcceptObservationStep
<1>7. ASSUME NEW t \in ReadTime, NEW s \in Sessions, CancelSession(s, t) PROVE ManagerInv'
    BY <1>7, CancelSessionStep
<1>8. ASSUME NEW ss \in SUBSET Sessions, DeleteSessions(ss) PROVE ManagerInv'
    BY <1>8, DeleteSessionsStep
<1>9. CASE UNCHANGED mvars
    BY <1>9 DEF mvars, ManagerInv, ManagerTypeOK, AllConsistent, UnusedIsEmpty, AtMostOneObservation, Live
<1> QED BY <1>1, <1>2, <1>3, <1>4, <1>5, <1>6, <1>7, <1>8, <1>9 DEF ManagerNext

\* The inductive invariant holds in every reachable state of the manager.
LEMMA ManagerInvariant == ManagerSpec => []ManagerInv
<1>1. ManagerInit => ManagerInv
    BY ManagerInvInit
<1>2. ManagerInv /\ [ManagerNext]_mvars => ManagerInv'
    BY ManagerInvStep
<1> QED BY <1>1, <1>2, PTL DEF ManagerSpec

\* Every variable of the manager keeps its type.
THEOREM ManagerTyped == ManagerSpec => []ManagerTypeOK
<1>1. ManagerInv => ManagerTypeOK
    BY DEF ManagerInv
<1> QED BY <1>1, ManagerInvariant, PTL

\* The invariant makes the end of a session agree with its jobs.
LEMMA InvSettled == ManagerInv => EndedSessionsAreSettled
BY DEF ManagerInv, AllConsistent, Consistent, EndedSessionsAreSettled, AllCompleted, SomeCompleted

(***************************************************************************)
(* However its jobs end, whoever cancels and whatever time an operation    *)
(* read: an ended session has no open job, and its state says which        *)
(* observations it holds.                                                  *)
(***************************************************************************)
THEOREM SessionsSettle == ManagerSpec => []EndedSessionsAreSettled
BY ManagerInvariant, InvSettled, PTL

(***************************************************************************)
(* No sequence of submissions, cancellations, removals and evictions makes *)
(* a job yield two observations.                                           *)
(***************************************************************************)
THEOREM OneObservation == ManagerSpec => []AtMostOneObservation
<1>1. ManagerInv => AtMostOneObservation
    BY DEF ManagerInv
<1> QED BY <1>1, ManagerInvariant, PTL

\* A session that has ended at the time an operation read has ended by now:
\* a stale clock never evicts one that is still waiting.
LEMMA EndedStaysEnded ==
    ASSUME ManagerTypeOK, NEW t \in ReadTime, NEW s \in Sessions, Active(s),
           StatesAfter(Lapsed(t), t)[s] \in TerminalStates
    PROVE  ~ActiveAt(s, now)
<1>1. t \in Nat /\ now \in Nat /\ t <= now /\ deadline[s] \in Nat
    BY ReadTimeFacts DEF ManagerTypeOK
<1>2. requested[s] \subseteq Agents /\ \A a \in Agents : jdeadline[s][a] \in Nat
    BY DEF ManagerTypeOK
<1>3. DerivedState(s, Lapsed(t), t) \in TerminalStates
    BY DEF StatesAfter
<1>4. AllCompleted(s, Lapsed(t)) \/ Closes(s, Lapsed(t), t)
    BY <1>3 DEF DerivedState, TerminalStates
<1>5. \A a \in Agents : Lapsed(t)[s][a] \in ClosedJobs => Lapsed(now)[s][a] = Lapsed(t)[s][a]
    BY <1>1, <1>2 DEF Lapsed, ClosedJobs, OpenJobs
<1>6. \A a \in requested[s] : Lapsed(t)[s][a] \in ClosedJobs => Lapsed(now)[s][a] = Lapsed(t)[s][a]
    BY <1>2, <1>5
<1>7. CASE AllCompleted(s, Lapsed(t))
  <2>1. AllCompleted(s, Lapsed(now))
      BY <1>6, <1>7 DEF AllCompleted, ClosedJobs
  <2> QED BY <2>1 DEF ActiveAt, DerivedState, ActiveStates
<1>8. CASE Closes(s, Lapsed(t), t)
  <2>1. AllCompleted(s, Lapsed(now)) \/ Closes(s, Lapsed(now), now)
      BY <1>1, <1>6, <1>8 DEF Closes, AllClosed
  <2> QED BY <2>1 DEF ActiveAt, DerivedState, ActiveStates
<1> QED BY <1>4, <1>7, <1>8

\* A derivation leaves ended, removed and unused sessions as they are.
LEMMA DeriveKeepsEnded ==
    ASSUME NEW js, NEW t, Derive(js, t)
    PROVE  \A s \in Sessions : ~Active(s) => sstate'[s] = sstate[s]
BY DEF Derive, StatesAfter

(***************************************************************************)
(* An ended session keeps its state until it is removed, a removed one     *)
(* never comes back, and no session that still waits is removed for room.  *)
(***************************************************************************)
THEOREM SessionsStayEnded == ManagerSpec => EndedSessionsStayEnded
<1> DEFINE Kept == /\ \A s \in Sessions :
                         /\ sstate[s] \in TerminalStates => sstate'[s] \in {sstate[s], "gone"}
                         /\ sstate[s] = "gone" => sstate'[s] = "gone"
                   /\ (\E n \in Sessions : sstate[n] = "none" /\ sstate'[n] = "requested")
                         => \A s \in Sessions : ActiveAt(s, now) => sstate'[s] # "gone"
<1>1. ManagerInv /\ [ManagerNext]_mvars => [Kept]_mvars
  <2> SUFFICES ASSUME ManagerInv, ManagerNext PROVE Kept
      OBVIOUS
  <2>1. ASSUME \A s \in Sessions : ~Active(s) => sstate'[s] \in {sstate[s], "gone"},
               \A s \in Sessions : sstate[s] = "gone" => sstate'[s] = "gone",
               \A s \in Sessions : sstate[s] = "none" => sstate'[s] # "requested"
        PROVE  Kept
      BY <2>1 DEF Active, ActiveStates, TerminalStates
  <2>2. ASSUME NEW js, NEW t, Derive(js, t) PROVE Kept
      BY <2>1, <2>2, DeriveKeepsEnded DEF Active, ActiveStates
  <2>3. CASE Tick
      BY <2>1, <2>3 DEF Tick
  <2>4. ASSUME NEW t \in ReadTime, NEW s \in Sessions, NEW agents \in SUBSET Agents, NEW ttl,
               NEW ev, CreateSession(s, agents, ttl, ev, t)
        PROVE  Kept
    <3>1. /\ ManagerTypeOK
          /\ Evicts(ev, t)
          /\ sstate[s] = "none"
          /\ \A x \in Sessions :
                sstate'[x] = IF x = s THEN "requested" ELSE IF x \in ev THEN "gone"
                             ELSE StatesAfter(Lapsed(t), t)[x]
        BY <2>4 DEF CreateSession, ManagerInv
    <3>2. \A x \in ev : /\ x \in Sessions
                        /\ sstate[x] \notin {"none", "gone"}
                        /\ StatesAfter(Lapsed(t), t)[x] \in TerminalStates
        BY <3>1, EvictsFacts
    <3>3. \A x \in Sessions : /\ ~Active(x) => StatesAfter(Lapsed(t), t)[x] = sstate[x]
                              /\ Active(x) => StatesAfter(Lapsed(t), t)[x] # "gone"
        BY ExpiredFacts DEF ActiveStates, TerminalStates
    <3>4. ASSUME NEW x \in Sessions, ActiveAt(x, now) PROVE sstate'[x] # "gone"
      <4>1. Active(x)
          BY <3>4 DEF ActiveAt
      <4>2. x \notin ev
          BY <3>1, <3>2, <3>4, <4>1, EndedStaysEnded
      <4> QED BY <3>1, <3>3, <4>1, <4>2
    <3> QED BY <3>1, <3>3, <3>4 DEF Active, ActiveStates, TerminalStates
  <2>5. ASSUME NEW t \in ReadTime, NEW s \in Sessions, CancelSession(s, t) PROVE Kept
    <3>1. /\ Active(s)
          /\ \A x \in Sessions :
                sstate'[x] = IF x = s THEN "cancelled" ELSE StatesAfter(Lapsed(t), t)[x]
        BY <2>5 DEF CancelSession, ActiveAt, StatesAfter
    <3>2. \A x \in Sessions : ~Active(x) => StatesAfter(Lapsed(t), t)[x] = sstate[x]
        BY DEF StatesAfter
    <3> QED BY <2>1, <3>1, <3>2 DEF Active, ActiveStates
  <2>6. ASSUME NEW ss \in SUBSET Sessions, DeleteSessions(ss) PROVE Kept
      BY <2>1, <2>6 DEF DeleteSessions
  <2>7. \A t : /\ Expire(t) => Kept
               /\ \A s, a, x : /\ RegisterJob(s, a, x, t) => Kept
                               /\ TransitionJob(s, a, x, t) => Kept
                               /\ AcceptObservation(s, a, x, t) => Kept
      BY <2>2 DEF Expire, RegisterJob, TransitionJob, AcceptObservation
  <2> HIDE DEF Kept
  <2> QED BY <2>3, <2>4, <2>5, <2>6, <2>7 DEF ManagerNext
<1> QED BY <1>1, ManagerInvariant, PTL DEF ManagerSpec, EndedSessionsStayEnded

(***************************************************************************)
(* Only an active session takes an observation, and not later than its     *)
(* deadline plus the longest wait for the lock.                            *)
(***************************************************************************)
THEOREM ObservationsInTime == ManagerSpec => AcceptedInTime
<1> DEFINE InTime == \A s \in Sessions :
              accepted'[s] # accepted[s] => Active(s) /\ now < deadline[s] + LockWait
<1>1. ManagerInv /\ [ManagerNext]_mvars => [InTime]_mvars
  <2> SUFFICES ASSUME ManagerInv, ManagerNext PROVE InTime
      OBVIOUS
  <2>1. ASSUME NEW t \in ReadTime, NEW s \in Sessions, NEW a \in Agents, NEW checked,
               AcceptObservation(s, a, checked, t)
        PROVE  InTime
    <3>1. ManagerTypeOK
        BY DEF ManagerInv
    <3>2. /\ t \in Nat /\ now \in Nat /\ now <= t + LockWait
          /\ deadline[s] \in Nat
        BY <3>1, ReadTimeFacts DEF ManagerTypeOK
    <3>3. Active(s) /\ ~(deadline[s] <= t)
        BY <2>1 DEF AcceptObservation, ActiveAt, DerivedState, Closes, ActiveStates
    <3>4. Active(s) /\ now < deadline[s] + LockWait
        BY <3>2, <3>3, ManagerAssumption
    <3>5. \A x \in Sessions : x # s => accepted'[x] = accepted[x]
        BY <2>1, <3>1 DEF AcceptObservation, ManagerTypeOK
    <3> QED BY <3>4, <3>5
  <2>2. CASE accepted' = accepted
      BY <2>2
  <2>3. /\ Tick => accepted' = accepted
        /\ \A t : Expire(t) => accepted' = accepted
        /\ \A s, agents, ttl, ev, t : CreateSession(s, agents, ttl, ev, t) => accepted' = accepted
        /\ \A s, a, x, t : RegisterJob(s, a, x, t) \/ TransitionJob(s, a, x, t) => accepted' = accepted
        /\ \A s, t : CancelSession(s, t) => accepted' = accepted
        /\ \A ss : DeleteSessions(ss) => accepted' = accepted
      BY DEF Tick, Expire, CreateSession, RegisterJob, TransitionJob, CancelSession, DeleteSessions
  <2> HIDE DEF InTime
  <2> QED BY <2>1, <2>2, <2>3 DEF ManagerNext
<1> QED BY <1>1, ManagerInvariant, PTL DEF ManagerSpec, AcceptedInTime
=============================================================================

------------------------ MODULE DiagnosticSessions ------------------------
(***************************************************************************)
(* The in-memory DiagnosticSessionManager of diagnostics/manager.go: the   *)
(* sessions, the one job each requested agent may have in a session, and   *)
(* the acceptance of signed observations.                                  *)
(*                                                                         *)
(* Every operation reads the clock BEFORE it waits for the manager's lock, *)
(* so it runs with a time that may be LockWait behind; under the lock it   *)
(* first expires what is due at that time, then acts, then derives the     *)
(* session's state anew.  Session and job IDs are random and never come    *)
(* back; a job is named by its session and its agent, and its nonce with   *)
(* it.                                                                     *)
(***************************************************************************)
EXTENDS Integers, FiniteSets

CONSTANTS
    Sessions,       \* session IDs
    Agents,
    MaxSessions,    \* MaxSessions of ManagerConfig
    SessionTTL,     \* SessionTTL
    MaxAge,         \* ObservationMaxAge
    ClockSkew,      \* ClockSkew
    LockWait,       \* bound: how long an operation waits for the lock
    MaxTime         \* bound: the clock

ASSUME ManagerAssumption ==
    /\ MaxSessions \in Nat \ {0}
    /\ SessionTTL \in Nat \ {0}
    /\ MaxAge \in Nat
    /\ ClockSkew \in Nat
    /\ LockWait \in Nat
    /\ MaxTime \in Nat

VARIABLES
    now,        \* the clock
    sstate,     \* session -> state; "none" before it exists, "gone" once removed
    requested,  \* session -> RequestedAgents
    created,    \* session -> CreatedAt
    deadline,   \* session -> ExpiresAt
    jstate,     \* session -> agent -> job state; "none" if not registered
    jcreated,   \* session -> agent -> CreatedAt of the job
    jdeadline,  \* session -> agent -> ExpiresAt of the job
    accepted    \* session -> agent -> number of AgentObservations (history)

mvars == <<now, sstate, requested, created, deadline, jstate, jcreated, jdeadline, accepted>>

ActiveStates == {"requested", "dispatching", "running"}
TerminalStates == {"completed", "partial", "expired", "cancelled"}
OpenJobs == {"pending", "dispatched", "running"}
ClosedJobs == {"completed", "expired", "cancelled"}

ManagerTypeOK ==
    /\ now \in Nat
    /\ sstate \in [Sessions -> ActiveStates \cup TerminalStates \cup {"none", "gone"}]
    /\ requested \in [Sessions -> SUBSET Agents]
    /\ created \in [Sessions -> Nat]
    /\ deadline \in [Sessions -> Nat]
    /\ jstate \in [Sessions -> [Agents -> OpenJobs \cup ClosedJobs \cup {"none"}]]
    /\ jcreated \in [Sessions -> [Agents -> Nat]]
    /\ jdeadline \in [Sessions -> [Agents -> Nat]]
    /\ accepted \in [Sessions -> [Agents -> Nat]]

ManagerInit ==
    /\ now = 0
    /\ sstate = [s \in Sessions |-> "none"]
    /\ requested = [s \in Sessions |-> {}]
    /\ created = [s \in Sessions |-> 0]
    /\ deadline = [s \in Sessions |-> 0]
    /\ jstate = [s \in Sessions |-> [a \in Agents |-> "none"]]
    /\ jcreated = [s \in Sessions |-> [a \in Agents |-> 0]]
    /\ jdeadline = [s \in Sessions |-> [a \in Agents |-> 0]]
    /\ accepted = [s \in Sessions |-> [a \in Agents |-> 0]]

-----------------------------------------------------------------------------
(* deriveSessionStateLocked and expireLocked. *)

Live == {s \in Sessions : sstate[s] \notin {"none", "gone"}}
Active(s) == sstate[s] \in ActiveStates

\* A time an operation may have read before it got the lock.
ReadTime == {t \in 0..now : now <= t + LockWait}

\* RegisterJob admits one job per requested agent, so counting the completed
\* jobs is the same as asking that every requested agent has one.
AllCompleted(s, js) ==
    requested[s] # {} /\ \A a \in requested[s] : js[s][a] = "completed"

AllClosed(s, js) == \A a \in requested[s] : js[s][a] \in ClosedJobs

SomeCompleted(s, js) == \E a \in Agents : js[s][a] = "completed"

\* The deadline has come or every registered job has ended.
Closes(s, js, t) ==
    ~AllCompleted(s, js) /\ (deadline[s] <= t \/ AllClosed(s, js))

DerivedState(s, js, t) ==
    IF AllCompleted(s, js) THEN "completed"
    ELSE IF Closes(s, js, t) THEN (IF SomeCompleted(s, js) THEN "partial" ELSE "expired")
    ELSE IF SomeCompleted(s, js) \/ \E a \in Agents : js[s][a] = "running" THEN "running"
    ELSE IF \E a \in Agents : js[s][a] # "none" THEN "dispatching"
    ELSE "requested"

\* The jobs of active sessions after those whose time has come are expired.
Lapsed(t) ==
    [s \in Sessions |-> [a \in Agents |->
        IF Active(s) /\ jstate[s][a] \in OpenJobs /\ jdeadline[s][a] <= t
        THEN "expired" ELSE jstate[s][a]]]

\* The session is still active once expireLocked has run at time t.
ActiveAt(s, t) == Active(s) /\ DerivedState(s, Lapsed(t), t) \in ActiveStates

\* Mutant: ended sessions are derived again as well.
StatesAfterAll(js, t) ==
    [s \in Sessions |-> IF s \in Live /\ sstate[s] # "cancelled"
                        THEN DerivedState(s, js, t) ELSE sstate[s]]

\* Session states and job states once every active session is derived anew.
StatesAfter(js, t) ==
    [s \in Sessions |-> IF Active(s) THEN DerivedState(s, js, t) ELSE sstate[s]]

JobsAfter(js, t) ==
    [s \in Sessions |-> [a \in Agents |->
        IF Active(s) /\ Closes(s, js, t) /\ js[s][a] \in OpenJobs
        THEN "expired" ELSE js[s][a]]]

Derive(js, t) ==
    /\ sstate' = StatesAfter(js, t)
    /\ jstate' = JobsAfter(js, t)

-----------------------------------------------------------------------------
(* The operations.  A refused one has still expired what was due. *)

\* Session, Sessions, ExportSession, and every refused operation.
Expire(t) ==
    /\ Derive(Lapsed(t), t)
    /\ UNCHANGED <<now, requested, created, deadline, jcreated, jdeadline, accepted>>

(***************************************************************************)
(* CreateSession of s: makeCapacityLocked makes room by removing the       *)
(* oldest ended session, ev, when MaxSessions are there.                   *)
(***************************************************************************)
Ended(s, t) == s \in Live /\ StatesAfter(Lapsed(t), t)[s] \in TerminalStates

Evicts(ev, t) ==
    IF Cardinality(Live) < MaxSessions
    THEN ev = {}
    ELSE \E v \in Sessions :
            /\ Ended(v, t)
            /\ \A o \in Sessions : Ended(o, t) => created[v] <= created[o]
            /\ ev = {v}

HasCapacity(t) == Cardinality(Live) < MaxSessions \/ \E v \in Sessions : Ended(v, t)

\* removeSessionLocked for the sessions of ss: what is known of them is dropped.
NoTimes == [a \in Agents |-> 0]

Forget(ss) ==
    /\ jcreated' = [x \in Sessions |-> IF x \in ss THEN NoTimes ELSE jcreated[x]]
    /\ jdeadline' = [x \in Sessions |-> IF x \in ss THEN NoTimes ELSE jdeadline[x]]

CreateSession(s, agents, ttl, ev, t) ==
    /\ sstate[s] = "none"
    /\ agents # {}
    /\ Evicts(ev, t)
    /\ sstate' = [x \in Sessions |-> IF x = s THEN "requested"
                                     ELSE IF x \in ev THEN "gone"
                                     ELSE StatesAfter(Lapsed(t), t)[x]]
    /\ jstate' = [x \in Sessions |-> IF x \in ev THEN [a \in Agents |-> "none"]
                                     ELSE JobsAfter(Lapsed(t), t)[x]]
    /\ requested' = [x \in Sessions |-> IF x = s THEN agents
                                        ELSE IF x \in ev THEN {} ELSE requested[x]]
    /\ created' = [x \in Sessions |-> IF x = s THEN t ELSE IF x \in ev THEN 0 ELSE created[x]]
    /\ deadline' = [x \in Sessions |-> IF x = s THEN t + ttl
                                       ELSE IF x \in ev THEN 0 ELSE deadline[x]]
    /\ Forget(ev)
    /\ UNCHANGED <<now, accepted>>

RegisterJob(s, a, expires, t) ==
    /\ ActiveAt(s, t)
    /\ a \in requested[s]
    /\ jstate[s][a] = "none"
    /\ t < expires /\ expires <= deadline[s]
    /\ Derive([Lapsed(t) EXCEPT ![s][a] = "pending"], t)
    /\ jcreated' = [jcreated EXCEPT ![s][a] = t]
    /\ jdeadline' = [jdeadline EXCEPT ![s][a] = expires]
    /\ UNCHANGED <<now, requested, created, deadline, accepted>>

\* transitionJob for MarkJobDispatched and MarkJobRunning.
TransitionJob(s, a, next, t) ==
    /\ ActiveAt(s, t)
    /\ Lapsed(t)[s][a] \in IF next = "dispatched" THEN {"pending"} ELSE {"pending", "dispatched"}
    /\ Derive([Lapsed(t) EXCEPT ![s][a] = next], t)
    /\ UNCHANGED <<now, requested, created, deadline, jcreated, jdeadline, accepted>>

\* validateObservationTime
TimelyObservation(s, a, checked, t) ==
    /\ t - MaxAge <= checked /\ checked <= t + ClockSkew
    /\ jcreated[s][a] - ClockSkew <= checked /\ checked <= jdeadline[s][a] + ClockSkew

\* Mutant: a completed job is not recognised.
AcceptAgain(s, a, checked, t) ==
    /\ jstate[s][a] # "none"
    /\ TimelyObservation(s, a, checked, t)
    /\ ActiveAt(s, t)
    /\ Derive([Lapsed(t) EXCEPT ![s][a] = "completed"], t)
    /\ accepted' = [accepted EXCEPT ![s][a] = @ + 1]
    /\ UNCHANGED <<now, requested, created, deadline, jcreated, jdeadline>>

\* Mutant: what is due is not expired first.
AcceptUnexpired(s, a, checked, t) ==
    /\ jstate[s][a] \notin {"none", "completed"}
    /\ TimelyObservation(s, a, checked, t)
    /\ Active(s)
    /\ Derive([Lapsed(t) EXCEPT ![s][a] = "completed"], t)
    /\ accepted' = [accepted EXCEPT ![s][a] = @ + 1]
    /\ UNCHANGED <<now, requested, created, deadline, jcreated, jdeadline>>

(***************************************************************************)
(* AcceptObservation of a well-formed, correctly signed observation bound  *)
(* to the job of agent a in session s; a wrong signature or binding is     *)
(* refused, which is Expire.                                               *)
(***************************************************************************)
AcceptObservation(s, a, checked, t) ==
    /\ s \in Live
    /\ jstate[s][a] # "none"
    /\ TimelyObservation(s, a, checked, t)
    /\ Lapsed(t)[s][a] # "completed"
    /\ ActiveAt(s, t)
    /\ Derive([Lapsed(t) EXCEPT ![s][a] = "completed"], t)
    /\ accepted' = [accepted EXCEPT ![s][a] = @ + 1]
    /\ UNCHANGED <<now, requested, created, deadline, jcreated, jdeadline>>

\* Mutant: the jobs of a cancelled session are left alone.
CancelSessionOnly(s, t) ==
    /\ ActiveAt(s, t)
    /\ sstate' = [StatesAfter(Lapsed(t), t) EXCEPT ![s] = "cancelled"]
    /\ jstate' = JobsAfter(Lapsed(t), t)
    /\ UNCHANGED <<now, requested, created, deadline, jcreated, jdeadline, accepted>>

CancelSession(s, t) ==
    /\ ActiveAt(s, t)
    /\ sstate' = [StatesAfter(Lapsed(t), t) EXCEPT ![s] = "cancelled"]
    /\ jstate' = [JobsAfter(Lapsed(t), t) EXCEPT ![s] =
           [a \in Agents |-> IF Lapsed(t)[s][a] \in OpenJobs THEN "cancelled" ELSE Lapsed(t)[s][a]]]
    /\ UNCHANGED <<now, requested, created, deadline, jcreated, jdeadline, accepted>>

\* DeleteSession and DeleteSessions; nothing else is expired by them.
DeleteSessions(ss) ==
    /\ ss # {} /\ ss \subseteq Live
    /\ sstate' = [s \in Sessions |-> IF s \in ss THEN "gone" ELSE sstate[s]]
    /\ jstate' = [s \in Sessions |-> IF s \in ss THEN [a \in Agents |-> "none"] ELSE jstate[s]]
    /\ requested' = [s \in Sessions |-> IF s \in ss THEN {} ELSE requested[s]]
    /\ created' = [s \in Sessions |-> IF s \in ss THEN 0 ELSE created[s]]
    /\ deadline' = [s \in Sessions |-> IF s \in ss THEN 0 ELSE deadline[s]]
    /\ Forget(ss)
    /\ UNCHANGED <<now, accepted>>

Tick ==
    /\ now < MaxTime
    /\ now' = now + 1
    /\ UNCHANGED <<sstate, requested, created, deadline, jstate, jcreated, jdeadline, accepted>>

ManagerNext ==
    \/ Tick
    \/ \E t \in ReadTime :
         \/ Expire(t)
         \/ \E s \in Sessions, agents \in SUBSET Agents, ttl \in 1..SessionTTL,
               ev \in {{}} \cup {{v} : v \in Sessions} : CreateSession(s, agents, ttl, ev, t)
         \/ \E s \in Sessions, a \in Agents :
              \/ \E expires \in t+1..deadline[s] : RegisterJob(s, a, expires, t)
              \/ \E next \in {"dispatched", "running"} : TransitionJob(s, a, next, t)
              \/ \E checked \in t-MaxAge..t+ClockSkew : AcceptObservation(s, a, checked, t)
         \/ \E s \in Sessions : CancelSession(s, t)
    \/ \E ss \in SUBSET Sessions : DeleteSessions(ss)

ManagerSpec == ManagerInit /\ [][ManagerNext]_mvars

-----------------------------------------------------------------------------
(* What must hold. *)

(***************************************************************************)
(* A session that ended has no job left open, and how it ended says which  *)
(* observations it holds: completed means all that were requested, partial *)
(* some, expired none.                                                     *)
(***************************************************************************)
EndedSessionsAreSettled ==
    \A s \in Sessions :
        /\ sstate[s] \in TerminalStates => \A a \in Agents : jstate[s][a] \notin OpenJobs
        /\ sstate[s] = "completed" => AllCompleted(s, jstate)
        /\ sstate[s] = "partial" => SomeCompleted(s, jstate) /\ ~AllCompleted(s, jstate)
        /\ sstate[s] = "expired" => ~SomeCompleted(s, jstate)

(***************************************************************************)
(* No job ever yields two observations, however often an agent submits one *)
(* and whatever is cancelled, removed or evicted in between; a session     *)
(* still held has exactly the observations of its completed jobs.          *)
(***************************************************************************)
AtMostOneObservation ==
    \A s \in Sessions, a \in Agents :
        /\ accepted[s][a] <= 1
        /\ s \in Live => (accepted[s][a] = 1 <=> jstate[s][a] = "completed")

(***************************************************************************)
(* A session that ended keeps its state until it is removed, and a removed *)
(* one never comes back: late observations, a stale clock and expiry have  *)
(* no effect on it.  One that still waits for an observation is not        *)
(* removed to make room for a new one.                                     *)
(***************************************************************************)
EndedSessionsStayEnded ==
    [][/\ \A s \in Sessions :
             /\ sstate[s] \in TerminalStates => sstate'[s] \in {sstate[s], "gone"}
             /\ sstate[s] = "gone" => sstate'[s] = "gone"
       /\ (\E n \in Sessions : sstate[n] = "none" /\ sstate'[n] = "requested")
             => \A s \in Sessions : ActiveAt(s, now) => sstate'[s] # "gone"]_mvars

(***************************************************************************)
(* An observation is only taken by a session that is active and within its *)
(* deadline, give or take the wait for the lock.                           *)
(***************************************************************************)
AcceptedInTime ==
    [][\A s \in Sessions :
          accepted'[s] # accepted[s] => Active(s) /\ now < deadline[s] + LockWait]_mvars
=============================================================================

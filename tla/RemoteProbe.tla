---------------------------- MODULE RemoteProbe ----------------------------
(***************************************************************************)
(* Remote diagnostics end to end: the Controller of remoteprobe/ on top of *)
(* the session manager, the HTTP handlers that serve the agents, and the   *)
(* job loop of every agent (probeagent/client.go).                         *)
(*                                                                         *)
(* Controller state is guarded by c.mu and manager state by its own lock:  *)
(* a handler that needs both takes them one after the other, so each part  *)
(* is a step.  Requests and replies may be lost (the agent gives up and    *)
(* comes back while the handler still runs) and agents may restart.        *)
(* Every session here has one agent, and its job expires with it.          *)
(***************************************************************************)
EXTENDS DiagnosticSessions

CONSTANTS
    Nodes,          \* StableIDs
    Triggers,       \* is a request automatic: the values that occur
    Pausable,       \* the nodes an operator puts into maintenance
    Creators,       \* threads that create sessions: admin, sweep, automation
    Polls,          \* bound: job polls of one agent the controller serves at once
    JobTTL,         \* Config.JobTTL
    Operated,       \* the sessions an operator cancels or deletes
    ClearScopes,    \* the sets of nodes an operator clears at once
    RefusedCap,     \* the size at which an agent empties refusedJobs
    MaxGen,         \* bound: subscription refreshes
    MaxLosses,      \* bound: broken connections and agent restarts
    NoOne           \* no thread, no poll

ASSUME ProbeAssumption ==
    /\ Sessions \subseteq Nat \ {0}
    /\ JobTTL \in 1..SessionTTL
    /\ ClearScopes \subseteq SUBSET Nodes
    /\ Pausable \subseteq Nodes
    /\ Operated \subseteq Sessions
    /\ Triggers \subseteq BOOLEAN
    /\ RefusedCap \in Nat \ {0}
    /\ MaxGen \in Nat
    /\ MaxLosses \in Nat
    /\ NoOne \notin Creators \cup Polls

NoJob == 0

VARIABLES
    \* the controller
    queue,      \* session -> "none" | "queued" | "claimed": its assignment
    node,       \* session -> the node it is about
    who,        \* session -> its agent
    due,        \* session -> ExpiresAt of its assignment
    sgen,       \* session -> ConfigGeneration it was made for
    holder,     \* who holds c.mu across steps
    ask,        \* creator -> its request
    dropJobs,   \* sessions whose assignments an operator is dropping
    dropNodes,  \* nodes whose assignments an operator is dropping
    token,      \* agents with a wake-up in their waiter channel
    \* the handlers
    poll,       \* agent -> poll -> "none" | "awake" | "asleep"
    sub,        \* agent -> the observation being handled
    \* the agents
    apc,        \* agent -> what its job loop does
    conn,       \* agent -> the poll it listens to
    ajob,       \* agent -> the job it works on
    refused,    \* agent -> refusedJobs
    \* the surroundings
    gen,        \* generation of the checker's configuration
    paused,     \* nodes in maintenance
    runs,       \* session -> probes executed for it (history)
    losses

cvars == <<queue, node, who, due, sgen, holder, ask, dropJobs, dropNodes, token>>
hvars == <<poll, sub>>
avars == <<apc, conn, ajob, refused>>
wvars == <<gen, paused>>
pvars == <<mvars, cvars, hvars, avars, wvars, runs, losses>>

Idle == [pc |-> "idle", auto |-> FALSE, node |-> NoOne, agent |-> NoOne, gen |-> 0, sess |-> NoJob]
NoSub == [pc |-> "none", job |-> NoJob, checked |-> 0]

ProbeInit ==
    /\ ManagerInit
    /\ queue = [s \in Sessions |-> "none"]
    /\ node = [s \in Sessions |-> NoOne]
    /\ who = [s \in Sessions |-> NoOne]
    /\ due = [s \in Sessions |-> 0]
    /\ sgen = [s \in Sessions |-> 0]
    /\ holder = NoOne
    /\ ask = [c \in Creators |-> Idle]
    /\ dropJobs = {}
    /\ dropNodes = {}
    /\ token = {}
    /\ poll = [a \in Agents |-> [p \in Polls |-> "none"]]
    /\ sub = [a \in Agents |-> NoSub]
    /\ apc = [a \in Agents |-> "idle"]
    /\ conn = [a \in Agents |-> NoOne]
    /\ ajob = [a \in Agents |-> NoJob]
    /\ refused = [a \in Agents |-> {}]
    /\ gen = 1
    /\ paused = {}
    /\ runs = [s \in Sessions |-> 0]
    /\ losses = 0

-----------------------------------------------------------------------------
(* Creating a session: createTargeted and CreateAutomatic. *)

\* Mutant: an assignment that was claimed is never removed for its age.
ClaimedStay(t) ==
    [s \in Sessions |-> IF due[s] <= t /\ queue[s] = "queued" THEN "none" ELSE queue[s]]

\* The assignments left once the ones due at time t are removed.
Unexpired(t) == [s \in Sessions |-> IF due[s] <= t THEN "none" ELSE queue[s]]

\* The snapshot of the node is read before c.mu is taken; only a request of
\* an operator goes on for a paused node.
Ask(c, n, auto, a) ==
    /\ ask[c].pc = "idle"
    /\ auto => n \notin paused
    /\ ask' = [ask EXCEPT ![c] = [pc |-> "asked", auto |-> auto, node |-> n,
                                  agent |-> IF auto THEN NoOne ELSE a, gen |-> gen, sess |-> NoJob]]
    /\ UNCHANGED <<mvars, queue, node, who, due, sgen, holder, dropJobs, dropNodes, token,
                   hvars, avars, wvars, runs, losses>>

\* Mutant: a targeted request does not look at the assignments there are.
EligibleAlways(r, a, q) == r.auto \/ r.agent = a

(***************************************************************************)
(* May agent a get the job?  A targeted request is refused while an        *)
(* assignment for the same node and agent is there, an automatic one       *)
(* chooses among the agents with no assignment at all.                     *)
(***************************************************************************)
Eligible(r, a, q) ==
    LET held == {s \in Sessions : q[s] # "none" /\ who[s] = a} IN
    IF r.auto THEN held = {}
    ELSE r.agent = a /\ \A s \in held : node[s] # r.node

\* CreateSession, under c.mu; tc is the time read before the lock.
Create(c, s, a, ev, tc, t) ==
    LET r == ask[c] IN
    /\ r.pc = "asked" /\ holder = NoOne
    /\ tc <= t /\ t < tc + JobTTL
    /\ tc + JobTTL <= MaxTime
    /\ Eligible(r, a, Unexpired(tc))
    /\ CreateSession(s, {a}, tc + JobTTL - t, ev, t)
    /\ queue' = Unexpired(tc)
    /\ node' = [node EXCEPT ![s] = r.node]
    /\ who' = [who EXCEPT ![s] = a]
    /\ sgen' = [sgen EXCEPT ![s] = r.gen]
    /\ ask' = [ask EXCEPT ![c].pc = "register", ![c].agent = a, ![c].sess = s]
    /\ holder' = c
    /\ UNCHANGED <<due, dropJobs, dropNodes, token, hvars, avars, wvars, runs, losses>>

\* No agent may get the job, or the manager is full.  An automatic request
\* also finds no agent when none is connected, healthy and off the node's host.
CreateRefused(c, tc, t) ==
    LET r == ask[c]
        found == \E a \in Agents : Eligible(r, a, Unexpired(tc)) IN
    /\ r.pc = "asked" /\ holder = NoOne
    /\ tc <= t
    /\ queue' = Unexpired(tc)
    /\ \/ (r.auto \/ ~found) /\ UNCHANGED mvars
       \/ found /\ ~HasCapacity(t) /\ Expire(t)
    /\ ask' = [ask EXCEPT ![c] = Idle]
    /\ UNCHANGED <<node, who, due, sgen, holder, dropJobs, dropNodes, token,
                   hvars, avars, wvars, runs, losses>>

\* Mutant: the agent is not woken up.
RegisterSilently(c, t) ==
    LET r == ask[c] IN
    /\ r.pc = "register"
    /\ RegisterJob(r.sess, r.agent, deadline[r.sess], t)
    /\ queue' = [queue EXCEPT ![r.sess] = "queued"]
    /\ due' = [due EXCEPT ![r.sess] = deadline[r.sess]]
    /\ ask' = [ask EXCEPT ![c] = Idle]
    /\ holder' = NoOne
    /\ UNCHANGED <<node, who, sgen, dropJobs, dropNodes, token, hvars, avars, wvars, runs, losses>>

\* RegisterJob, the assignment and the wake-up of the agent.
Register(c, t) ==
    LET r == ask[c] IN
    /\ r.pc = "register"
    /\ RegisterJob(r.sess, r.agent, deadline[r.sess], t)
    /\ queue' = [queue EXCEPT ![r.sess] = "queued"]
    /\ due' = [due EXCEPT ![r.sess] = deadline[r.sess]]
    /\ token' = token \cup {r.agent}
    /\ ask' = [ask EXCEPT ![c] = Idle]
    /\ holder' = NoOne
    /\ UNCHANGED <<node, who, sgen, dropJobs, dropNodes, hvars, avars, wvars, runs, losses>>

\* Mutant: the refused registration keeps c.mu.
RegisterKeepsLock(c, t) ==
    LET r == ask[c] IN
    /\ r.pc = "register"
    /\ ~ActiveAt(r.sess, t)
    /\ Expire(t)
    /\ ask' = [ask EXCEPT ![c] = Idle]
    /\ UNCHANGED <<queue, node, who, due, sgen, holder, dropJobs, dropNodes, token, hvars, avars, wvars, runs, losses>>

\* The session was removed or expired meanwhile, and there is nothing that
\* CancelSession could still cancel.
RegisterRefused(c, t) ==
    LET r == ask[c] IN
    /\ r.pc = "register"
    /\ ~ActiveAt(r.sess, t)
    /\ Expire(t)
    /\ ask' = [ask EXCEPT ![c] = Idle]
    /\ holder' = NoOne
    /\ UNCHANGED <<queue, node, who, due, sgen, dropJobs, dropNodes, token,
                   hvars, avars, wvars, runs, losses>>
-----------------------------------------------------------------------------
(* The operator: Cancel, Delete, Clear and the session list. *)

NoDrop == dropJobs = {} /\ dropNodes = {}

\* The manager's part comes first, the assignments follow in a step of their own.
Cancel(s, t) ==
    /\ NoDrop
    /\ CancelSession(s, t)
    /\ dropJobs' = {s}
    /\ UNCHANGED <<queue, node, who, due, sgen, holder, ask, dropNodes, token,
                   hvars, avars, wvars, runs, losses>>

Delete(s) ==
    /\ NoDrop
    /\ DeleteSessions({s})
    /\ dropJobs' = {s}
    /\ UNCHANGED <<queue, node, who, due, sgen, holder, ask, dropNodes, token,
                   hvars, avars, wvars, runs, losses>>

Clear(ns) ==
    LET matched == {s \in Live : node[s] \in ns} IN
    /\ NoDrop
    /\ IF matched = {} THEN UNCHANGED mvars ELSE DeleteSessions(matched)
    /\ dropNodes' = ns
    /\ UNCHANGED <<queue, node, who, due, sgen, holder, ask, dropJobs, token,
                   hvars, avars, wvars, runs, losses>>

\* Mutant: only assignments named by their session are dropped.
DropByJobOnly ==
    /\ ~NoDrop /\ holder = NoOne
    /\ queue' = [s \in Sessions |-> IF s \in dropJobs THEN "none" ELSE queue[s]]
    /\ dropJobs' = {} /\ dropNodes' = {}
    /\ UNCHANGED <<mvars, node, who, due, sgen, holder, ask, token,
                   hvars, avars, wvars, runs, losses>>

DropAssignments ==
    /\ ~NoDrop /\ holder = NoOne
    /\ queue' = [s \in Sessions |->
           IF s \in dropJobs \/ node[s] \in dropNodes THEN "none" ELSE queue[s]]
    /\ dropJobs' = {} /\ dropNodes' = {}
    /\ UNCHANGED <<mvars, node, who, due, sgen, holder, ask, token,
                   hvars, avars, wvars, runs, losses>>

\* Sessions first lists the manager's sessions, under the manager's lock ...
ListSessions(t) ==
    /\ Expire(t)
    /\ UNCHANGED <<cvars, hvars, avars, wvars, runs, losses>>

\* ... and then, under c.mu, removes the expired assignments.  A listing may
\* have begun at any time and hands nothing over to this half, so that it may
\* come at any time.
ListDropsExpired ==
    /\ holder = NoOne
    /\ queue' = Unexpired(now)
    /\ UNCHANGED <<mvars, node, who, due, sgen, holder, ask, dropJobs, dropNodes, token,
                   hvars, avars, wvars, runs, losses>>
-----------------------------------------------------------------------------
(* Job delivery: Claim and its long poll. *)

\* The agent's job loop asks for a job.
StartPoll(a, p) ==
    /\ apc[a] = "idle" /\ poll[a][p] = "none"
    /\ poll' = [poll EXCEPT ![a][p] = "awake"]
    /\ apc' = [apc EXCEPT ![a] = "polling"]
    /\ conn' = [conn EXCEPT ![a] = p]
    /\ UNCHANGED <<mvars, cvars, sub, ajob, refused, wvars, runs, losses>>

\* The answer of poll p reaches the agent, if it still listens: a job it has
\* not been refused is executed.
Answer(a, p, s) ==
    IF conn[a] # p
    THEN UNCHANGED <<apc, conn, ajob, runs>>
    ELSE /\ conn' = [conn EXCEPT ![a] = NoOne]
         /\ IF s \in {NoJob} \cup refused[a]
            THEN /\ apc' = [apc EXCEPT ![a] = "idle"]
                 /\ UNCHANGED <<ajob, runs>>
            ELSE /\ apc' = [apc EXCEPT ![a] = "probing"]
                 /\ ajob' = [ajob EXCEPT ![a] = s]
                 /\ runs' = [runs EXCEPT ![s] = @ + 1]

\* The agent's unexpired assignments; claimNow takes the least job ID, and
\* reads the clock under c.mu.
Mine(a) == {s \in Sessions : queue[s] # "none" /\ now < due[s] /\ who[s] = a}
First(s, a) == s \in Mine(a) /\ \A o \in Mine(a) : s <= o

\* claimNow finds a job: one not yet claimed is marked dispatched and running.
\* A cancellation between the two marks has the effect of one before them.
ClaimJob(a, p, s, t) ==
    /\ poll[a][p] = "awake" /\ holder = NoOne
    /\ First(s, a)
    /\ IF queue[s] = "queued" THEN TransitionJob(s, a, "running", t) ELSE UNCHANGED mvars
    /\ queue' = [o \in Sessions |-> IF o = s THEN "claimed"
                                    ELSE IF o < s THEN Unexpired(now)[o] ELSE queue[o]]
    /\ poll' = [poll EXCEPT ![a][p] = "none"]
    /\ Answer(a, p, s)
    /\ UNCHANGED <<node, who, due, sgen, holder, ask, dropJobs, dropNodes, token,
                   sub, refused, wvars, losses>>

\* The manager no longer takes the job: its assignment is dropped.
ClaimFails(a, p, s, t) ==
    /\ poll[a][p] = "awake" /\ holder = NoOne
    /\ First(s, a) /\ queue[s] = "queued" /\ ~ActiveAt(s, t)
    /\ Expire(t)
    /\ queue' = [o \in Sessions |-> IF o = s THEN "none"
                                    ELSE IF o < s THEN Unexpired(now)[o] ELSE queue[o]]
    /\ poll' = [poll EXCEPT ![a][p] = "none"]
    /\ Answer(a, p, NoJob)
    /\ UNCHANGED <<node, who, due, sgen, holder, ask, dropJobs, dropNodes, token,
                   sub, refused, wvars, losses>>

\* Nothing to deliver: the handler waits on the agent's channel.
ClaimNothing(a, p) ==
    /\ poll[a][p] = "awake" /\ holder = NoOne
    /\ Mine(a) = {}
    /\ queue' = Unexpired(now)
    /\ poll' = [poll EXCEPT ![a][p] = "asleep"]
    /\ UNCHANGED <<mvars, node, who, due, sgen, holder, ask, dropJobs, dropNodes, token,
                   sub, avars, wvars, runs, losses>>

WakeUp(a, p) ==
    /\ poll[a][p] = "asleep" /\ a \in token
    /\ token' = token \ {a}
    /\ poll' = [poll EXCEPT ![a][p] = "awake"]
    /\ UNCHANGED <<mvars, queue, node, who, due, sgen, holder, ask, dropJobs, dropNodes,
                   sub, avars, wvars, runs, losses>>

\* DefaultLongPollWait is over, or the request's context is done.
PollEnds(a, p) ==
    /\ poll[a][p] = "asleep"
    /\ poll' = [poll EXCEPT ![a][p] = "none"]
    /\ Answer(a, p, NoJob)
    /\ UNCHANGED <<mvars, cvars, sub, refused, wvars, losses>>
-----------------------------------------------------------------------------
(* The observation: executed, submitted, accepted. *)

\* Execute returns and the observation, with the agent's clock, is sent.
Submit(a, checked) ==
    /\ apc[a] = "probing" /\ sub[a].pc = "none"
    /\ now - ClockSkew <= checked /\ checked <= now + ClockSkew
    /\ sub' = [sub EXCEPT ![a] = [pc |-> "check", job |-> ajob[a], checked |-> checked]]
    /\ apc' = [apc EXCEPT ![a] = "waiting"]
    /\ UNCHANGED <<mvars, cvars, poll, conn, ajob, refused, wvars, runs, losses>>

\* Mutant: the agent does not remember what it was refused.
ReplyForgotten(a, ok) ==
    IF apc[a] = "waiting" /\ ajob[a] = sub[a].job
    THEN /\ apc' = [apc EXCEPT ![a] = "idle"]
         /\ ajob' = [ajob EXCEPT ![a] = NoJob]
         /\ UNCHANGED refused
    ELSE UNCHANGED <<apc, ajob, refused>>

\* The reply, if the agent still waits; a refusal makes it skip the job.
Reply(a, ok) ==
    IF apc[a] = "waiting" /\ ajob[a] = sub[a].job
    THEN /\ apc' = [apc EXCEPT ![a] = "idle"]
         /\ ajob' = [ajob EXCEPT ![a] = NoJob]
         /\ refused' = IF ok THEN refused
                       ELSE [refused EXCEPT ![a] =
                                (IF Cardinality(@) >= RefusedCap THEN {} ELSE @) \cup {sub[a].job}]
    ELSE UNCHANGED <<apc, ajob, refused>>

\* The current snapshot must have the generation of the observation.
CheckGeneration(a) ==
    /\ sub[a].pc = "check"
    /\ IF gen = sgen[sub[a].job]
       THEN /\ sub' = [sub EXCEPT ![a].pc = "accept"]
            /\ UNCHANGED avars
       ELSE /\ Reply(a, FALSE)
            /\ sub' = [sub EXCEPT ![a] = NoSub]
            /\ UNCHANGED conn
    /\ UNCHANGED <<mvars, cvars, poll, wvars, runs, losses>>

Accept(a, t) ==
    /\ sub[a].pc = "accept"
    /\ AcceptObservation(sub[a].job, a, sub[a].checked, t)
    /\ sub' = [sub EXCEPT ![a].pc = "drop"]
    /\ UNCHANGED <<cvars, poll, avars, wvars, runs, losses>>

AcceptRefused(a, t) ==
    LET s == sub[a].job IN
    /\ sub[a].pc = "accept"
    /\ \/ ~ActiveAt(s, t)
       \/ jstate[s][a] = "completed"
       \/ ~TimelyObservation(s, a, sub[a].checked, t)
    /\ Expire(t)
    /\ Reply(a, FALSE)
    /\ sub' = [sub EXCEPT ![a] = NoSub]
    /\ UNCHANGED <<cvars, poll, conn, wvars, runs, losses>>

\* The assignment goes only after the manager has taken the observation.
DropAccepted(a) ==
    /\ sub[a].pc = "drop" /\ holder = NoOne
    /\ queue' = [queue EXCEPT ![sub[a].job] = "none"]
    /\ Reply(a, TRUE)
    /\ sub' = [sub EXCEPT ![a] = NoSub]
    /\ UNCHANGED <<mvars, node, who, due, sgen, holder, ask, dropJobs, dropNodes, token,
                   poll, conn, wvars, runs, losses>>
-----------------------------------------------------------------------------
(* What goes wrong, and what changes around. *)

\* The connection breaks: the agent starts over, the handler does not know.
Disconnect(a) ==
    /\ apc[a] \in {"polling", "waiting"}
    /\ losses < MaxLosses
    /\ losses' = losses + 1
    /\ apc' = [apc EXCEPT ![a] = "idle"]
    /\ conn' = [conn EXCEPT ![a] = NoOne]
    /\ ajob' = [ajob EXCEPT ![a] = NoJob]
    /\ UNCHANGED <<mvars, cvars, hvars, refused, wvars, runs>>

\* The agent process restarts and forgets what it was refused.
AgentRestart(a) ==
    /\ losses < MaxLosses
    /\ losses' = losses + 1
    /\ apc' = [apc EXCEPT ![a] = "idle"]
    /\ conn' = [conn EXCEPT ![a] = NoOne]
    /\ ajob' = [ajob EXCEPT ![a] = NoJob]
    /\ refused' = [refused EXCEPT ![a] = {}]
    /\ UNCHANGED <<mvars, cvars, hvars, wvars, runs>>

\* A subscription refresh installs a new configuration.
Refresh ==
    /\ gen < MaxGen
    /\ gen' = gen + 1
    /\ UNCHANGED <<mvars, cvars, hvars, avars, paused, runs, losses>>

SetMaintenance(n) ==
    /\ paused' = IF n \in paused THEN paused \ {n} ELSE paused \cup {n}
    /\ UNCHANGED <<mvars, cvars, hvars, avars, gen, runs, losses>>

Time ==
    /\ Tick
    /\ UNCHANGED <<cvars, hvars, avars, wvars, runs, losses>>
-----------------------------------------------------------------------------
Creation ==
    \E c \in Creators :
        \/ \E n \in Nodes, auto \in Triggers, a \in Agents : Ask(c, n, auto, a)
        \/ \E tc, t \in ReadTime :
              \/ \E s \in Sessions, a \in Agents, ev \in {{}} \cup {{v} : v \in Sessions} :
                    Create(c, s, a, ev, tc, t)
              \/ CreateRefused(c, tc, t)

Registration == \E c \in Creators, t \in ReadTime : Register(c, t) \/ RegisterRefused(c, t)

Operator ==
    \/ \E s \in Operated : Delete(s) \/ \E t \in ReadTime : Cancel(s, t)
    \/ \E ns \in ClearScopes : Clear(ns)

Delivery(a) ==
    \E p \in Polls :
        \/ \E s \in Sessions, t \in ReadTime : ClaimJob(a, p, s, t) \/ ClaimFails(a, p, s, t)
        \/ ClaimNothing(a, p)
        \/ WakeUp(a, p)
        \/ PollEnds(a, p)

Acceptance(a) ==
    \/ CheckGeneration(a)
    \/ \E t \in ReadTime : Accept(a, t) \/ AcceptRefused(a, t)
    \/ DropAccepted(a)

AgentLoop(a) ==
    \/ \E p \in Polls : StartPoll(a, p)
    \/ \E checked \in now - ClockSkew..now + ClockSkew : Submit(a, checked)

Fault == \E a \in Agents : Disconnect(a) \/ AgentRestart(a)

Listing == ListDropsExpired \/ \E t \in ReadTime : ListSessions(t)

ProbeNext ==
    \/ Creation
    \/ Registration
    \/ Operator
    \/ DropAssignments
    \/ Listing
    \/ \E a \in Agents : Delivery(a) \/ Acceptance(a) \/ AgentLoop(a)
    \/ Fault
    \/ Refresh
    \/ \E n \in Pausable : SetMaintenance(n)
    \/ Time

ProbeSpec == ProbeInit /\ [][ProbeNext]_pvars

\* Handlers run on, agents keep polling and time passes; nobody is obliged to
\* create, cancel or list sessions.
ProbeFairSpec ==
    /\ ProbeSpec
    /\ WF_pvars(Registration)
    /\ WF_pvars(DropAssignments)
    /\ WF_pvars(Time)
    /\ \A a \in Agents : WF_pvars(Delivery(a)) /\ WF_pvars(Acceptance(a)) /\ WF_pvars(AgentLoop(a))
-----------------------------------------------------------------------------
(* What must hold. *)

(***************************************************************************)
(* An assignment is offered to an agent only while its session waits for   *)
(* the observation, or is past its deadline, or the handler that ended the *)
(* session is about to drop it: Cancel, Delete, Clear and                  *)
(* AcceptObservation forget none.                                          *)
(***************************************************************************)
AssignmentsAreBacked ==
    \A s \in Sessions : queue[s] # "none" =>
        \/ Active(s)
        \/ due[s] <= now
        \/ s \in dropJobs
        \/ node[s] \in dropNodes
        \/ \E a \in Agents : sub[a].pc = "drop" /\ sub[a].job = s

(***************************************************************************)
(* PROJECT_CONTEXT.md: the controller "атомарно разрешает не более одной   *)
(* активной session для пары StableID + agent" (atomically allows at most  *)
(* one active session for a node and an agent).                            *)
(***************************************************************************)
OneSessionPerPair ==
    \A s, o \in Sessions :
        s # o /\ ActiveAt(s, now) /\ ActiveAt(o, now) => <<node[s], who[s]>> # <<node[o], who[o]>>

(***************************************************************************)
(* No wake-up is lost: while the one poll of an agent sleeps in Claim, a   *)
(* job waiting for that agent has left a token in its channel.             *)
(***************************************************************************)
NoLostWakeUp ==
    \A a \in Agents, p \in Polls, s \in Sessions :
        poll[a][p] = "asleep" /\ queue[s] = "queued" /\ who[s] = a /\ now < due[s]
            => a \in token

(***************************************************************************)
(* Redelivery costs a second probe only when a message was lost or the     *)
(* agent restarted: refusedJobs and the order of AcceptObservation see to  *)
(* that.                                                                   *)
(***************************************************************************)
ProbedAgainOnlyAfterLoss == \A s \in Sessions : runs[s] <= 1 + losses

\* Every observation an agent submits is answered.
SubmissionsAnswered == \A a \in Agents : apc[a] = "waiting" ~> apc[a] # "waiting"

(***************************************************************************)
(* Every assignment leaves the queue, by an observation, an operator or    *)
(* its deadline, as long as its agent keeps polling.                       *)
(***************************************************************************)
AssignmentsLeave == \A s \in Sessions : queue[s] # "none" ~> queue[s] = "none"
=============================================================================

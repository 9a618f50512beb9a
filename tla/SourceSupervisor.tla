-------------------------- MODULE SourceSupervisor --------------------------
(***************************************************************************)
(* The durable half of the source supervisor: the singleton epoch, the run *)
(* claims, the request attempts, the runtime lanes and the connection      *)
(* health episode that the supervisor processes of one environment share   *)
(* (packages/database/src/provider-source-supervisor-*.ts,                 *)
(* provider-source-request-repository.ts, provider-source-page-*.ts), and  *)
(* the turn a process drives through them (provider-source-supervisor.ts,  *)
(* provider-source-supervisor-executor.ts).                                *)
(*                                                                         *)
(* Every action that touches the database is one transaction.  A process   *)
(* is named by the number of the epoch it acquired, so a process that lost *)
(* its epoch keeps its turns until an operation refuses it.  All sources   *)
(* are bound to one connection profile with one revision.  Permits and     *)
(* execution slots are ConnectionPermits' subject: here a turn that found  *)
(* no capacity is one that releases its claim unstarted.                   *)
(***************************************************************************)
EXTENDS Naturals, FiniteSets

CONSTANTS
    Sources,                \* provider source instances of the profile
    MaxEpochs,              \* bound: epochs acquired
    MaxGeneration,          \* bound: connection health generations
    MaximumAttempts,        \* providerSourceTransientRetryPolicy
    MaximumCommittedPages,  \* providerSourceRunBounds
    Environments            \* what may surround a behaviour, see given

\* How a request may end.
Outcomes == {"captured", "retryable", "source_action_required", "cancelled",
             "connection_action_required"}

ASSUME SupervisorAssumption ==
    /\ IsFiniteSet(Sources)
    /\ MaxEpochs \in Nat \ {0} /\ MaxGeneration \in Nat
    /\ MaximumAttempts \in Nat /\ MaximumCommittedPages \in Nat \ {0}
    /\ Environments \subseteq [sources : SUBSET Sources, outcomes : SUBSET Outcomes,
                               pages : Nat, faults : Nat, watched : BOOLEAN]

VARIABLES
    epoch,    \* the newest source_supervisor_epochs row
    owner,    \* the process of each epoch
    source,   \* provider_source_instances, cursor and schedule
    run,      \* the newest import_runs row of a source
    attempt,  \* the newest source_request_attempts row of that run
    lane,     \* provider_source_runtime_states
    health,   \* health_generation and the open episode (0: none)
    turn,     \* per process and source, the work in hand
    given,    \* the enabled sources, the outcomes their provider gives, the cursor
              \* positions of its feeds, how many disturbances (crashes, stalls,
              \* refusals, commands) are left, and whether liveness is asked
    failures  \* retryable answers in a row, since the connection last failed (history)

durable == <<epoch, source, run, attempt, lane, health>>
vars == <<durable, owner, turn, given, failures>>

Owners == 1..MaxEpochs
Claims == 1..MaxEpochs + 2

Alive == {"queued", "running"}
EpochStates == {"none", "active", "fenced_draining", "released"}
OwnerStates == {"absent", "starting", "serving", "stopping", "fenced", "gone"}
RunStates == {"none", "queued", "running", "succeeded", "incomplete", "failed"}
AttemptStates == {"none", "in_flight", "captured", "retryable",
                  "source_action_required", "cancelled",
                  "connection_action_required", "uncertain"}
TurnPhases == {"idle", "claimed", "called", "captured", "committed", "retryable",
               "source_action_required", "stale"}

NoRun(st) ==
    [state |-> st, from |-> 0, at |-> 0, pages |-> 0,
     counted |-> 0, last |-> "none", claim |-> 0, live |-> FALSE]
NewRun(c) == [NoRun("queued") EXCEPT !.from = c, !.at = c]
NoAttempt == [state |-> "none", owner |-> 0, claim |-> 0, page |-> 0, at |-> 0,
              gen |-> 0, episode |-> 0]
NoTurn == [phase |-> "idle", claim |-> 0, gen |-> 0, retry |-> 0]

SourceRows == [state : {"active", "paused", "disabled"}, pausing : BOOLEAN,
               cursor : 0..given.pages, due : BOOLEAN]
RunRows == [state : RunStates, from : 0..given.pages, at : 0..given.pages,
            pages : 0..MaximumCommittedPages, counted : 0..MaximumCommittedPages,
            last : {"none", "continue", "poll_after"},
            claim : {0} \cup Claims, live : BOOLEAN]
AttemptRows == [state : AttemptStates, owner : 0..MaxEpochs, claim : {0} \cup Claims,
                page : 0..MaximumCommittedPages, at : 0..given.pages,
                gen : 0..MaxGeneration, episode : 0..MaxGeneration]
LaneRows == [action : BOOLEAN, retry : 0..MaximumAttempts, wait : BOOLEAN,
             cur : BOOLEAN, blockedBy : 0..MaxGeneration]
Turns == [phase : TurnPhases, claim : {0} \cup Claims, gen : 0..MaxGeneration,
          retry : 0..MaximumAttempts]

SupervisorTypeOK ==
    /\ epoch \in [n : 0..MaxEpochs, state : EpochStates, live : BOOLEAN]
    /\ owner \in [Owners -> OwnerStates]
    /\ source \in [Sources -> SourceRows] /\ run \in [Sources -> RunRows]
    /\ attempt \in [Sources -> AttemptRows] /\ lane \in [Sources -> LaneRows]
    /\ turn \in [Owners -> [Sources -> Turns]]
    /\ health \in [gen : 0..MaxGeneration, episode : 0..MaxGeneration]
    /\ given \in [sources : SUBSET Sources, outcomes : SUBSET Outcomes,
                  pages : Nat, faults : Nat, watched : BOOLEAN]
    /\ failures \in [Sources -> Nat]

Init ==
    /\ epoch = [n |-> 0, state |-> "none", live |-> FALSE]
    /\ owner = [o \in Owners |-> "absent"]
    /\ given \in Environments
    /\ source = [s \in Sources |->
                   [state |-> IF s \in given.sources THEN "active" ELSE "disabled",
                    pausing |-> FALSE, cursor |-> 0, due |-> TRUE]]
    /\ run = [s \in Sources |-> NoRun("none")]
    /\ attempt = [s \in Sources |-> NoAttempt]
    /\ lane = [s \in Sources |-> [action |-> FALSE, retry |-> 0, wait |-> FALSE,
                                  cur |-> FALSE, blockedBy |-> 0]]
    /\ health = [gen |-> 0, episode |-> 0]
    /\ turn = [o \in Owners |-> [s \in Sources |-> NoTurn]]
    /\ failures = [s \in Sources |-> 0]

-----------------------------------------------------------------------------
(***************************************************************************)
(* What the transactions share.                                            *)
(***************************************************************************)
\* One of the disturbances a behaviour is given.
Fault ==
    /\ given.faults > 0
    /\ given' = [given EXCEPT !.faults = @ - 1]

\* lockProviderSourceSupervisorActiveEpoch: the check every operation of a
\* supervisor makes first.
Owns(o) == epoch.n = o /\ epoch.state = "active" /\ epoch.live
Working(o) == o \in Owners /\ owner[o] \in {"starting", "serving", "stopping"}

Blocked == health.episode # 0
Eligible(s) == source[s].state = "active" /\ ~source[s].pausing
Pausing(s) == source[s].state = "paused" \/ source[s].pausing

\* The claim a turn holds is still the run's claim.
Exact(o, s) == run[s].state = "running" /\ run[s].claim = turn[o][s].claim
ExactLive(o, s) == Exact(o, s) /\ run[s].live

Queued(l) == [l EXCEPT !.action = FALSE, !.retry = 0, !.wait = FALSE, !.cur = TRUE]
Quiet(l) == [l EXCEPT !.action = FALSE, !.retry = 0, !.wait = FALSE, !.cur = FALSE]
ActionRequired(l) == [Quiet(l) EXCEPT !.action = TRUE]
ConnectionBlocked(l) == [Quiet(l) EXCEPT !.blockedBy = health.episode]

\* setStaleLaneState.
StaleLane(s) ==
    LET l == [lane[s] EXCEPT !.blockedBy = health.episode]
    IN IF Pausing(s) \/ source[s].state # "active" \/ Blocked
       THEN Quiet(l) ELSE ActionRequired(l)

Paused(s) == [source[s] EXCEPT !.state = "paused", !.pausing = FALSE]
Requeued(s) == [run[s] EXCEPT !.state = "queued", !.claim = 0, !.live = FALSE,
                                     !.counted = 0]

\* One source's rows after a transaction.  The attempts of a run that ended
\* are never read again, unless one is still in flight.
Settle(s, r, l, src) ==
    /\ run' = [run EXCEPT ![s] = r]
    /\ lane' = [lane EXCEPT ![s] = l]
    /\ source' = [source EXCEPT ![s] = src]
    /\ LET over == /\ attempt[s].state # "in_flight"
                   /\ r.state \notin Alive \/ r.pages < run[s].pages
       IN /\ attempt' = [attempt EXCEPT ![s] = IF over THEN NoAttempt ELSE @]
          /\ failures' = [failures EXCEPT ![s] = IF over THEN 0 ELSE @]

\* requestRunInTransaction creates a run, when no other is queued or running.
Requestable(s) == Eligible(s) /\ ~lane[s].action /\ ~Blocked

\* The rollover bounds: the page count, or an elapsed time any page may reach.
Rolls(s, elapsed) == run[s].pages >= MaximumCommittedPages \/ elapsed

\* A rollover outside a turn: a continuation run, or a lane that needs action
\* when the continuation could not be created and the lane still names the run.
Rollover(s, l) ==
    IF Requestable(s)
    THEN Settle(s, NewRun(source[s].cursor), Queued(l), source[s])
    ELSE Settle(s, NoRun("incomplete"),
                IF lane[s].cur THEN ActionRequired(lane[s]) ELSE lane[s], source[s])

-----------------------------------------------------------------------------
(***************************************************************************)
(* The epoch and its process.                                              *)
(***************************************************************************)
SetTurn(o, s, t) == turn' = [turn EXCEPT ![o][s] = t]
Phase(o, s, p) == SetTurn(o, s, [turn[o][s] EXCEPT !.phase = p])
Idle(o, s) == SetTurn(o, s, NoTurn)
NoTurns(o) == turn' = [turn EXCEPT ![o] = [s \in Sources |-> NoTurn]]

\* acquire: after a release, or once the current lease has run out.
Acquire(o) ==
    /\ o = epoch.n + 1
    /\ \/ epoch.state \in {"none", "released"}
       \/ epoch.state \in {"active", "fenced_draining"} /\ ~epoch.live
    /\ epoch' = [n |-> o, state |-> "active", live |-> TRUE]
    /\ owner' = [owner EXCEPT ![o] = "starting"]
    /\ UNCHANGED <<source, run, attempt, lane, health, turn, given, failures>>

EpochLapses ==
    /\ epoch.state \in {"active", "fenced_draining"} /\ epoch.live
    /\ epoch' = [epoch EXCEPT !.live = FALSE]
    /\ UNCHANGED <<owner, source, run, attempt, lane, health, turn, failures>>

\* Time passes and nobody is left to renew.
EpochLeaseExpires ==
    /\ epoch.n > 0 /\ owner[epoch.n] \in {"fenced", "gone"}
    /\ EpochLapses
    /\ UNCHANGED given

\* A live process misses its renewals.
EpochStalls ==
    /\ Fault
    /\ Working(epoch.n)
    /\ EpochLapses

\* #beginFence: admission stops and every turn is abandoned where it is.
Fence(o) ==
    /\ owner' = [owner EXCEPT ![o] = "fenced"]
    /\ NoTurns(o)

\* Any operation of a process that is no longer the owner is refused.
OwnershipLost(o) ==
    /\ Working(o) /\ ~Owns(o)
    /\ Fence(o)
    /\ UNCHANGED <<durable, given, failures>>

\* The claim's renewal finds the claim gone or expired.
ClaimRenewalLost(o, s) ==
    /\ Owns(o) /\ owner[o] \in {"starting", "serving"}
    /\ turn[o][s].phase # "idle" /\ ~ExactLive(o, s)
    /\ Fence(o)
    /\ UNCHANGED <<durable, given, failures>>

\* #persistFence, then #releaseFencedAfterDrain.
PersistFence(o) ==
    /\ owner[o] = "fenced" /\ Owns(o)
    /\ epoch' = [epoch EXCEPT !.state = "fenced_draining"]
    /\ UNCHANGED <<owner, source, run, attempt, lane, health, turn, given, failures>>

InFlightOf(o) == {s \in Sources : attempt[s].state = "in_flight" /\ attempt[s].owner = o}

Release(o) ==
    /\ epoch.n = o /\ epoch.live
    /\ \/ epoch.state = "fenced_draining" /\ owner[o] = "fenced"
       \/ /\ epoch.state = "active" /\ owner[o] = "stopping"
          /\ \A s \in Sources : turn[o][s].phase = "idle"
    /\ InFlightOf(o) = {}
    /\ epoch' = [epoch EXCEPT !.state = "released"]
    /\ owner' = [owner EXCEPT ![o] = "gone"]
    /\ UNCHANGED <<source, run, attempt, lane, health, turn, given, failures>>

Crash(o) ==
    /\ Fault
    /\ owner[o] \notin {"absent", "gone"}
    /\ owner' = [owner EXCEPT ![o] = "gone"]
    /\ NoTurns(o)
    /\ UNCHANGED <<durable, failures>>

Stop(o) ==
    /\ Fault
    /\ owner[o] \in {"starting", "serving"}
    /\ owner' = [owner EXCEPT ![o] = "stopping"]
    /\ UNCHANGED <<durable, turn, failures>>

-----------------------------------------------------------------------------
(***************************************************************************)
(* Takeover: predecessors' requests, then expired claims.                  *)
(***************************************************************************)
\* #blockQueuedProfileWork: queued runs wait out the episode, every lane of
\* the profile shows it.
BlockProfile(e, own, rec) ==
    /\ run' = [s \in Sources |->
                 IF run[s].state = "queued" \/ s \in own
                 THEN NoRun("incomplete") ELSE run[s]]
    /\ lane' = [s \in Sources |->
                 [lane[s] EXCEPT !.action = FALSE, !.cur = FALSE, !.blockedBy = e]]
    /\ attempt' = [s \in Sources |->
                     IF s \in DOMAIN rec THEN rec[s]
                     ELSE IF run[s].state = "queued" THEN NoAttempt ELSE attempt[s]]
    /\ failures' = [s \in Sources |-> 0]

\* reconcilePredecessorAttempt: a request whose outcome nobody knows blocks
\* the profile, or joins the episode that already does.
Reconcile(o, s) ==
    /\ Owns(o) /\ owner[o] = "starting"
    /\ attempt[s].state = "in_flight" /\ attempt[s].owner < o
    /\ IF Blocked
       THEN /\ attempt' = [attempt EXCEPT ![s].state = "uncertain",
                                          ![s].episode = health.episode]
            /\ UNCHANGED <<run, lane, health, failures>>
       ELSE /\ health.gen < MaxGeneration
            /\ health' = [gen |-> health.gen + 1, episode |-> health.gen + 1]
            /\ BlockProfile(health.gen + 1, {},
                 [x \in {s} |-> [attempt[s] EXCEPT !.state = "uncertain",
                                                   !.episode = health.gen + 1]])
    /\ UNCHANGED <<epoch, owner, source, turn, given>>

Recoverable(s) ==
    run[s].state = "running" /\ ~run[s].live /\ attempt[s].state # "in_flight"

\* The page the claim committed before it expired: the lane's pages_committed,
\* kept here with the run whose claim wrote it, is behind the run's own count.
CommittedUnfinished(s) == run[s].pages > run[s].counted

\* The newest terminal request at the run's own page and cursor.
Proof(s) == IF attempt[s].page = run[s].pages + 1 /\ attempt[s].at = run[s].at
            THEN attempt[s].state ELSE "none"

\* Mutation: a claim that died before its request began is not recovered.
RecoverBoundaryProven(s) ==
    /\ Proof(s) # "none"
    /\ Settle(s, Requeued(s), Queued(lane[s]), source[s])

\* #recoverTerminalRequestBoundary.
RecoverBoundary(s) ==
    \/ /\ Proof(s) \in {"connection_action_required", "uncertain"}
       /\ LET open == Blocked /\ attempt[s].episode = health.episode
          IN Settle(s, NoRun("incomplete"),
                    IF open THEN ConnectionBlocked(lane[s]) ELSE ActionRequired(lane[s]),
                    source[s])
    \/ /\ Proof(s) = "captured"
       /\ IF Pausing(s)
          THEN Settle(s, NoRun("incomplete"), Quiet(lane[s]), Paused(s))
          ELSE Settle(s, Requeued(s), Queued(lane[s]), source[s])
    \/ /\ Proof(s) = "retryable" /\ lane[s].retry < MaximumAttempts
       /\ Settle(s, Requeued(s),
                 [lane[s] EXCEPT !.action = FALSE, !.retry = @ + 1, !.wait = TRUE,
                                 !.cur = TRUE], source[s])
    \/ /\ \/ Proof(s) \in {"source_action_required", "cancelled"}
          \/ Proof(s) = "retryable" /\ lane[s].retry = MaximumAttempts
       /\ Settle(s, NoRun("failed"), ActionRequired(lane[s]), source[s])
    \/ /\ Proof(s) = "none"
       /\ Settle(s, Requeued(s), Queued(lane[s]), source[s])

\* Mutation: a committed page is not looked for.
RecoverUncommitted(o, s) ==
    /\ Owns(o) /\ owner[o] \in {"starting", "serving"} /\ Recoverable(s)
    /\ source[s].state # "disabled" /\ CommittedUnfinished(s)
    /\ Settle(s, [Requeued(s) EXCEPT !.at = run[s].from], Queued(lane[s]), source[s])
    /\ UNCHANGED <<epoch, owner, health, turn, given>>

\* recoverExpiredPageClaims.
Recover(o, s) ==
    /\ Owns(o) /\ owner[o] \in {"starting", "serving"} /\ Recoverable(s)
    /\ LET l == lane[s]
       IN \/ /\ source[s].state = "disabled"
             /\ Settle(s, NoRun("failed"), lane[s], source[s])
          \/ /\ source[s].state # "disabled" /\ ~CommittedUnfinished(s)
             /\ RecoverBoundary(s)
          \/ /\ source[s].state # "disabled" /\ CommittedUnfinished(s) /\ Pausing(s)
             /\ Settle(s, NoRun("incomplete"), Quiet(l), Paused(s))
          \/ /\ source[s].state # "disabled" /\ CommittedUnfinished(s) /\ ~Pausing(s)
             /\ run[s].last = "poll_after"
             /\ Settle(s, NoRun("succeeded"), Quiet(l),
                       [source[s] EXCEPT !.due = FALSE])
          \/ /\ source[s].state # "disabled" /\ CommittedUnfinished(s) /\ ~Pausing(s)
             /\ run[s].last = "continue"
             /\ \E elapsed \in BOOLEAN :
                  IF Rolls(s, elapsed)
                  THEN Rollover(s, l)
                  ELSE Settle(s, Requeued(s), Queued(l), source[s])
    /\ UNCHANGED <<epoch, owner, health, turn, given>>

\* The process admits work once every predecessor is dealt with.
Started(o) ==
    /\ Owns(o) /\ owner[o] = "starting"
    /\ \A s \in Sources : /\ ~Recoverable(s)
                          /\ ~(attempt[s].state = "in_flight" /\ attempt[s].owner < o)
    /\ owner' = [owner EXCEPT ![o] = "serving"]
    /\ UNCHANGED <<durable, turn, given, failures>>

-----------------------------------------------------------------------------
(***************************************************************************)
(* Runs and claims.                                                        *)
(***************************************************************************)
Request(s) ==
    /\ Requestable(s) /\ run[s].state \notin Alive
    /\ Settle(s, NewRun(source[s].cursor), lane[s], source[s])

\* listDueSources and materializeScheduledRun.
Materialize(o, s) ==
    /\ Owns(o) /\ owner[o] = "serving"
    /\ source[s].due /\ ~lane[s].wait
    /\ Request(s)
    /\ UNCHANGED <<epoch, owner, health, turn, given>>

\* Claim tokens are never reused: a fresh one is any that no row or turn names.
Fresh(s) ==
    LET used == {turn[o][s].claim : o \in Owners} \cup {attempt[s].claim, run[s].claim}
        free == Claims \ used
    IN CHOOSE c \in free : \A d \in free : c <= d

\* claimNext for one candidate: roll an exhausted run over, else claim it,
\* and fence it if its source or connection is no longer eligible.
ClaimNext(o, s) ==
    /\ Owns(o) /\ owner[o] = "serving" /\ turn[o][s].phase = "idle"
    /\ run[s].state = "queued"
    /\ ~lane[s].wait /\ ~lane[s].action /\ ~source[s].pausing
    /\ \E elapsed \in BOOLEAN :
         \/ /\ run[s].last = "continue" /\ Rolls(s, elapsed)
            /\ Rollover(s, lane[s])
            /\ UNCHANGED turn
         \/ /\ ~(run[s].last = "continue" /\ Rolls(s, elapsed))
            /\ Eligible(s) /\ ~Blocked
            /\ Settle(s, [run[s] EXCEPT !.state = "running", !.claim = Fresh(s),
                                        !.live = TRUE, !.counted = run[s].pages],
                      [lane[s] EXCEPT !.action = FALSE, !.wait = FALSE, !.cur = TRUE],
                      source[s])
            /\ SetTurn(o, s, [phase |-> "claimed", claim |-> Fresh(s),
                              gen |-> health.gen, retry |-> lane[s].retry])
         \/ /\ ~(run[s].last = "continue" /\ Rolls(s, elapsed))
            /\ ~Eligible(s) \/ Blocked
            /\ Settle(s, NoRun("failed"), StaleLane(s), source[s])
            /\ UNCHANGED turn
    /\ UNCHANGED <<epoch, owner, health, given>>

ClaimLapses(s) ==
    /\ run[s].state = "running" /\ run[s].live
    /\ run' = [run EXCEPT ![s].live = FALSE]
    /\ UNCHANGED <<epoch, owner, source, attempt, lane, health, turn, failures>>

\* Time passes and no turn is left to renew the claim.
ClaimLeaseExpires(s) ==
    /\ \A o \in Owners : turn[o][s].claim # run[s].claim
    /\ ClaimLapses(s)
    /\ UNCHANGED given

\* A turn misses the renewals of its claim.
ClaimStalls(s) ==
    /\ Fault
    /\ \E o \in Owners : turn[o][s].claim = run[s].claim
    /\ ClaimLapses(s)

\* releaseUnstartedClaim: no capacity, or the process is stopping.
ReleaseUnstarted(o, s) ==
    /\ Owns(o) /\ Working(o) /\ turn[o][s].phase = "claimed"
    /\ IF owner[o] = "stopping" THEN UNCHANGED given ELSE Fault
    /\ LET requeue == IF Exact(o, s) THEN Requeued(s) ELSE run[s]
       IN \/ /\ Blocked
             /\ Settle(s, IF Exact(o, s) THEN NoRun("incomplete")
                                         ELSE run[s],
                       ConnectionBlocked(lane[s]), source[s])
          \/ /\ ~Blocked /\ Pausing(s)
             /\ IF Exact(o, s)
                THEN Settle(s, NoRun("incomplete"), Quiet(lane[s]),
                            Paused(s))
                ELSE UNCHANGED <<run, lane, source, attempt, failures>>
          \/ /\ ~Blocked /\ ~Pausing(s)
             /\ Settle(s, requeue,
                       [lane[s] EXCEPT !.action = FALSE, !.wait = FALSE, !.cur = TRUE,
                                       !.retry = turn[o][s].retry], source[s])
    /\ Idle(o, s)
    /\ UNCHANGED <<epoch, owner, health>>

-----------------------------------------------------------------------------
(***************************************************************************)
(* The request.                                                            *)
(***************************************************************************)
\* The work the claim names is still there to be read.
Admissible(o, s) ==
    /\ turn[o][s].gen = health.gen /\ ~Blocked
    /\ Eligible(s)
    /\ ExactLive(o, s) /\ run[s].at = source[s].cursor

Began(o, s) == [state |-> "in_flight", owner |-> o, claim |-> turn[o][s].claim,
                page |-> run[s].pages + 1, at |-> run[s].at,
                gen |-> turn[o][s].gen, episode |-> 0]

\* begin.
Begin(o, s) ==
    /\ Owns(o) /\ Working(o) /\ turn[o][s].phase = "claimed"
    /\ \A r \in Sources : ~(attempt[r].state = "in_flight" /\ attempt[r].owner < o)
    /\ Admissible(o, s)
    /\ attempt' = [attempt EXCEPT ![s] = Began(o, s)]
    /\ Phase(o, s, "called")
    /\ UNCHANGED <<epoch, owner, source, run, lane, health, given, failures>>

\* A begin that is refused for the work's sake tries to terminalize a row that
\* does not exist, and fences the process.
BeginRefused(o, s) ==
    /\ Owns(o) /\ Working(o) /\ turn[o][s].phase = "claimed" /\ ~Admissible(o, s)
    /\ Fence(o)
    /\ UNCHANGED <<durable, given, failures>>

\* terminalize, for an outcome that blocks nothing; a cancelled attempt leaves
\* its work stale.
Terminalize(o, s, outcome) ==
    /\ Owns(o) /\ Working(o) /\ turn[o][s].phase = "called"
    /\ outcome \in given.outcomes \ {"connection_action_required"}
    /\ attempt' = [attempt EXCEPT ![s].state = outcome]
    /\ failures' = [failures EXCEPT ![s] = IF outcome = "retryable" THEN @ + 1
                                           ELSE IF outcome = "captured" THEN 0 ELSE @]
    /\ Phase(o, s, IF outcome = "cancelled" THEN "stale" ELSE outcome)
    /\ UNCHANGED <<epoch, owner, source, run, lane, health, given>>

\* What terminalize demands of a blocking failure.  The run is looked up by
\* the cursor it was requested at, not by the one it is reading.
BlockingRecordable(o, s) ==
    /\ \/ health.gen = attempt[s].gen
       \/ Blocked /\ health.episode = attempt[s].gen + 1 /\ health.gen = health.episode
    /\ ExactLive(o, s) /\ run[s].from = attempt[s].at
    /\ source[s].state = "active" /\ source[s].cursor = attempt[s].at

\* terminalize, for a failure of the connection: one episode per profile.
Blocking(o, s) ==
    /\ Owns(o) /\ Working(o) /\ turn[o][s].phase = "called"
    /\ "connection_action_required" \in given.outcomes
    /\ BlockingRecordable(o, s)
    /\ Blocked \/ health.gen < MaxGeneration
    /\ LET e == IF Blocked THEN health.episode ELSE health.gen + 1
       IN /\ health' = IF Blocked THEN health ELSE [gen |-> e, episode |-> e]
          /\ BlockProfile(e, {s}, [x \in {s} |-> NoAttempt])
    /\ Idle(o, s)
    /\ UNCHANGED <<epoch, owner, source, given>>

\* The failure cannot be recorded: the process abandons the request in flight
\* and fences itself.
BlockingRefused(o, s) ==
    /\ Owns(o) /\ Working(o) /\ turn[o][s].phase = "called"
    /\ "connection_action_required" \in given.outcomes
    /\ ~BlockingRecordable(o, s)
    /\ Fence(o)
    /\ UNCHANGED <<durable, given, failures>>

-----------------------------------------------------------------------------
(***************************************************************************)
(* The page.                                                               *)
(***************************************************************************)
\* Mutation: an open episode does not stop a page that was already captured.
PageOwnedWhileBlocked(o, s) ==
    /\ source[s].state = "active"
    /\ ExactLive(o, s) /\ run[s].at = source[s].cursor
    /\ attempt[s].state = "captured" /\ attempt[s].owner = o
    /\ attempt[s].claim = turn[o][s].claim /\ attempt[s].page = run[s].pages + 1

\* lockProviderSourcePageOwnership.
PageOwned(o, s) ==
    /\ source[s].state = "active"
    /\ turn[o][s].gen = health.gen /\ ~Blocked
    /\ ExactLive(o, s) /\ run[s].at = source[s].cursor
    /\ attempt[s].state = "captured" /\ attempt[s].owner = o
    /\ attempt[s].claim = turn[o][s].claim /\ attempt[s].page = run[s].pages + 1

\* commitPage: the page, the run's and the source's cursor, and a pause that
\* was waiting for this boundary.  A continue page moves the cursor on; the
\* head may answer the cursor it was asked for.
CommitPage(o, s, continuation) ==
    /\ Owns(o) /\ Working(o) /\ turn[o][s].phase = "captured"
    /\ PageOwned(o, s)
    /\ continuation = "continue" => source[s].cursor < given.pages
    /\ LET next == source[s].cursor + IF continuation = "continue" THEN 1 ELSE 0
       IN /\ source' = [source EXCEPT ![s] =
                          [IF @.pausing THEN Paused(s) ELSE @ EXCEPT !.cursor = next]]
          /\ run' = [run EXCEPT ![s].at = next, ![s].pages = @ + 1,
                                ![s].last = continuation]
    /\ Phase(o, s, "committed")
    /\ UNCHANGED <<epoch, owner, attempt, lane, health, given, failures>>

CommitRefused(o, s) ==
    /\ Owns(o) /\ Working(o) /\ turn[o][s].phase = "captured" /\ ~PageOwned(o, s)
    /\ Phase(o, s, "stale")
    /\ UNCHANGED <<durable, owner, given, failures>>

\* A serialization failure or timeout proves the page did not commit; a page
\* the adapter or the cursor check rejects needs action.
CommitFails(o, s) ==
    /\ Owns(o) /\ Working(o) /\ turn[o][s].phase = "captured"
    /\ \E p \in {"retryable", "source_action_required"} \cap given.outcomes : Phase(o, s, p)
    /\ UNCHANGED <<durable, owner, given, failures>>

-----------------------------------------------------------------------------
(***************************************************************************)
(* The end of a turn.                                                      *)
(***************************************************************************)
\* finishPageTurn, the part that has no pause to complete.
FinishOutcome(o, s) ==
    LET l == lane[s]
        retry == turn[o][s].retry + 1
    IN \/ /\ turn[o][s].phase = "committed" /\ run[s].last = "poll_after"
          /\ Settle(s, NoRun("succeeded"), Quiet(l),
                    [source[s] EXCEPT !.due = FALSE])
          /\ Idle(o, s)
       \/ /\ turn[o][s].phase = "committed" /\ run[s].last = "continue"
          /\ \E elapsed \in BOOLEAN :
               \/ /\ ~Rolls(s, elapsed)
                  /\ Settle(s, Requeued(s), Queued(l), source[s])
                  /\ Idle(o, s)
               \/ /\ Rolls(s, elapsed) /\ Requestable(s)
                  /\ Settle(s, NewRun(source[s].cursor), Queued(l), source[s])
                  /\ Idle(o, s)
               \/ /\ Rolls(s, elapsed) /\ ~Requestable(s)
                  /\ Phase(o, s, "stale")
                  /\ UNCHANGED <<run, lane, source, attempt, failures>>
       \/ /\ turn[o][s].phase = "retryable" /\ retry <= MaximumAttempts
          /\ Settle(s, Requeued(s),
                    [lane[s] EXCEPT !.action = FALSE, !.retry = retry, !.wait = TRUE,
                                    !.cur = TRUE], source[s])
          /\ Idle(o, s)
       \/ /\ \/ turn[o][s].phase = "source_action_required"
             \/ turn[o][s].phase = "retryable" /\ retry > MaximumAttempts
          /\ Settle(s, NoRun("failed"), ActionRequired(lane[s]), source[s])
          /\ Idle(o, s)

Finishing == {"committed", "retryable", "source_action_required"}

\* finishPageTurn.  A claim that is gone makes the work stale.
FinishPageTurn(o, s) ==
    /\ Owns(o) /\ Working(o) /\ turn[o][s].phase \in Finishing
    /\ \/ /\ ~ExactLive(o, s)
          /\ Phase(o, s, "stale")
          /\ UNCHANGED <<run, lane, source, attempt, failures>>
       \/ /\ ExactLive(o, s) /\ Pausing(s)
          /\ Settle(s, NoRun("incomplete"), Quiet(lane[s]), Paused(s))
          /\ Idle(o, s)
       \/ /\ ExactLive(o, s) /\ ~Pausing(s)
          /\ FinishOutcome(o, s)
    /\ UNCHANGED <<epoch, owner, health, given>>

\* finishFencedPageClaim.
FinishFenced(o, s) ==
    /\ Owns(o) /\ Working(o) /\ turn[o][s].phase = "stale"
    /\ \/ /\ ~ExactLive(o, s)
          /\ UNCHANGED <<run, lane, source, attempt, failures>>
       \/ /\ ExactLive(o, s) /\ Blocked
          /\ Settle(s, NoRun("incomplete"),
                    ConnectionBlocked(lane[s]), source[s])
       \/ /\ ExactLive(o, s) /\ ~Blocked /\ Pausing(s)
          /\ Settle(s, NoRun("incomplete"), Quiet(lane[s]), Paused(s))
       \/ /\ ExactLive(o, s) /\ ~Blocked /\ ~Pausing(s)
          /\ Settle(s, NoRun("failed"), StaleLane(s), source[s])
    /\ Idle(o, s)
    /\ UNCHANGED <<epoch, owner, health, given>>

-----------------------------------------------------------------------------
(***************************************************************************)
(* Operators and the clock.                                                *)
(***************************************************************************)
RunNow(s) ==
    /\ Fault
    /\ Request(s)
    /\ UNCHANGED <<epoch, owner, health, turn>>

RequestPause(s) ==
    /\ Fault
    /\ Eligible(s)
    /\ Settle(s, IF run[s].state = "queued" THEN NoRun("incomplete")
                 ELSE run[s],
              lane[s],
              IF run[s].state = "running" THEN [source[s] EXCEPT !.pausing = TRUE]
              ELSE Paused(s))
    /\ UNCHANGED <<epoch, owner, health, turn>>

Resume(s) ==
    /\ Fault
    /\ Pausing(s) /\ source[s].state # "disabled" /\ ~lane[s].action
    /\ source' = [source EXCEPT ![s].state = "active", ![s].pausing = FALSE,
                                ![s].due = TRUE]
    /\ UNCHANGED <<epoch, owner, run, attempt, lane, health, turn, failures>>

\* Mutation: a run is failed under a request that is still in flight.
DisableInFlight(s) ==
    /\ Fault
    /\ source[s].state # "disabled"
    /\ Settle(s, IF run[s].state \in Alive THEN NoRun("failed")
                 ELSE run[s],
              lane[s], [source[s] EXCEPT !.state = "disabled", !.pausing = FALSE])
    /\ UNCHANGED <<epoch, owner, health, turn>>

Disable(s) ==
    /\ Fault
    /\ source[s].state # "disabled"
    /\ Settle(s, IF \/ run[s].state = "queued"
                    \/ run[s].state = "running" /\ attempt[s].state # "in_flight"
                 THEN NoRun("failed") ELSE run[s],
              lane[s], [source[s] EXCEPT !.state = "disabled", !.pausing = FALSE])
    /\ UNCHANGED <<epoch, owner, health, turn>>

\* completeConnectionTest, for a recovery test of the blocked revision that
\* succeeded: one recovery run for every active source, or nothing at all.
RecoveryTest(o) ==
    LET resumed == {s \in Sources : Eligible(s)}
        freed == {s \in Sources \ resumed :
                    lane[s].blockedBy = health.episode /\ ~lane[s].cur}
    IN /\ Fault
       /\ Owns(o) /\ owner[o] = "serving" /\ Blocked /\ health.gen < MaxGeneration
       /\ \A s \in resumed : run[s].state \notin Alive /\ ~lane[s].action
       /\ health' = [gen |-> health.gen + 1, episode |-> 0]
       /\ run' = [s \in Sources |-> IF s \in resumed THEN NewRun(source[s].cursor)
                                    ELSE run[s]]
       /\ lane' = [s \in Sources |->
                     IF s \in resumed THEN [Queued(lane[s]) EXCEPT !.blockedBy = 0]
                     ELSE IF s \in freed THEN [Quiet(lane[s]) EXCEPT !.blockedBy = 0]
                     ELSE lane[s]]
       /\ UNCHANGED <<epoch, owner, source, attempt, turn, failures>>

RetryComesDue(s) ==
    /\ lane[s].wait
    /\ lane' = [lane EXCEPT ![s].wait = FALSE]
    /\ UNCHANGED <<epoch, owner, source, run, attempt, health, turn, given, failures>>

ComesDue(s) ==
    /\ ~source[s].due
    /\ source' = [source EXCEPT ![s].due = TRUE]
    /\ UNCHANGED <<epoch, owner, run, attempt, lane, health, turn, given, failures>>

-----------------------------------------------------------------------------
TurnStep(o, s) ==
    \/ Begin(o, s) \/ BeginRefused(o, s)
    \/ \E outcome \in Outcomes : Terminalize(o, s, outcome)
    \/ Blocking(o, s) \/ BlockingRefused(o, s)
    \/ \E c \in {"continue", "poll_after"} : CommitPage(o, s, c)
    \/ CommitRefused(o, s) \/ CommitFails(o, s)
    \/ FinishPageTurn(o, s) \/ FinishFenced(o, s)
    \/ ReleaseUnstarted(o, s)

Next ==
    \/ EpochLeaseExpires \/ EpochStalls
    \/ \E o \in Owners :
         \/ Acquire(o) \/ OwnershipLost(o) \/ PersistFence(o) \/ Release(o)
         \/ Crash(o) \/ Stop(o) \/ Started(o) \/ RecoveryTest(o)
         \/ \E s \in Sources :
              \/ ClaimRenewalLost(o, s) \/ Reconcile(o, s) \/ Recover(o, s)
              \/ Materialize(o, s) \/ ClaimNext(o, s) \/ TurnStep(o, s)
    \/ \E s \in Sources :
         \/ ClaimLeaseExpires(s) \/ ClaimStalls(s) \/ RunNow(s) \/ RequestPause(s) \/ Resume(s)
         \/ Disable(s) \/ RetryComesDue(s) \/ ComesDue(s)

Spec == Init /\ [][Next]_vars

Watched == given.watched

\* A live process runs its cycles, drives its turns and notices a lost epoch;
\* a process is restarted; time passes, so that what nobody renews expires.
Fairness ==
    /\ WF_vars(Watched /\ EpochLeaseExpires)
    /\ \A o \in Owners :
         /\ WF_vars(Watched /\ Acquire(o))
         /\ WF_vars(Watched /\ OwnershipLost(o))
         /\ WF_vars(Watched /\ PersistFence(o))
         /\ WF_vars(Watched /\ Release(o))
         /\ WF_vars(Watched /\ Started(o))
         /\ \A s \in Sources :
              /\ WF_vars(Watched /\ Reconcile(o, s))
              /\ WF_vars(Watched /\ Recover(o, s))
              /\ WF_vars(Watched /\ Materialize(o, s))
              /\ WF_vars(Watched /\ ClaimNext(o, s))
              /\ WF_vars(Watched /\ TurnStep(o, s))
    /\ \A s \in Sources :
         WF_vars(Watched /\ ClaimLeaseExpires(s)) /\ WF_vars(Watched /\ RetryComesDue(s))

FairSpec == Spec /\ Fairness

-----------------------------------------------------------------------------
(***************************************************************************)
(* Properties.                                                             *)
(***************************************************************************)
\* A request in flight belongs to a run that is running, under the same claim
\* and at the same page: no pause, disable, recovery or sibling's outage ends a
\* run whose request has no known outcome, so takeover finds both together.
InFlightIsRunning ==
    \A s \in Sources : attempt[s].state = "in_flight" =>
        /\ run[s].state = "running" /\ run[s].claim = attempt[s].claim
        /\ run[s].at = attempt[s].at /\ run[s].pages + 1 = attempt[s].page

\* Requests in flight all belong to one epoch: a replacement never calls the
\* provider while a request of a predecessor is unresolved.
OneEpochInFlight ==
    \A r, s \in Sources :
        attempt[r].state = "in_flight" /\ attempt[s].state = "in_flight"
          => attempt[r].owner = attempt[s].owner

\* A run that is queued or running reads from the source's committed cursor,
\* through claims, crashes, recoveries and rollovers: no page is skipped and
\* none is read into the source twice.
CursorInStep ==
    \A s \in Sources : run[s].state \in Alive =>
        run[s].at = source[s].cursor /\ run[s].from <= run[s].at

\* The provider is asked again after a retryable answer at most
\* MaximumAttempts times in a row, whoever counts: turns, or the recoveries of
\* turns that died before counting.  An outage gives the budget anew: a claim
\* released under an open episode and a recovery test both quiet the lane of a
\* run they leave waiting, so answers before the outage no longer count.
RetriesBounded == \A s \in Sources : failures[s] <= MaximumAttempts + 1

\* An epoch that was given back left no request without an outcome.
ReleasedIsDrained == epoch.state = "released" => InFlightOf(epoch.n) = {}

\* A queued run is one the queue will hand out: its lane never asks for action,
\* which would hide the run from every claim.
QueuedIsClaimable ==
    \A s \in Sources : run[s].state = "queued" => ~lane[s].action

\* What an epoch has in flight, it answers for: the run, the claim and the epoch
\* stay until the outcome is known, and every waiting run can be claimed.
SupervisorInvariant ==
    /\ SupervisorTypeOK /\ InFlightIsRunning /\ OneEpochInFlight
    /\ ReleasedIsDrained /\ RetriesBounded /\ QueuedIsClaimable

\* While the connection's episode is open no source of the profile moves,
\* whatever was captured before it opened.
EpisodeHoldsCursors ==
    [][\A s \in Sources :
         Blocked => /\ source'[s].cursor = source[s].cursor
                    /\ run'[s].state \in Alive => run'[s].pages <= run[s].pages]_vars

\* A bound of the instance has been reached: no process is left to make
\* progress, or no health generation for the next episode.
Exhausted ==
    \/ epoch.n = MaxEpochs /\ owner[MaxEpochs] \in {"stopping", "fenced", "gone"}
    \/ health.gen = MaxGeneration

\* A due source reaches its head, unless an operator can see why not.
HeadOrVisible ==
    \A s \in Sources :
        Watched /\ source[s].due ~> \/ ~source[s].due \/ ~Eligible(s)
                                    \/ lane[s].action \/ Blocked \/ Exhausted

\* A disabled source's last run ends, even one whose request was in flight.
DisabledSettles ==
    \A s \in Sources :
        Watched /\ source[s].state = "disabled" ~> run[s].state \notin Alive \/ Exhausted

\* Work settles, for the sources that are on and for those turned off.
WorkSettles == HeadOrVisible /\ DisabledSettles
=============================================================================

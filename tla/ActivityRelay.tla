---------------------------- MODULE ActivityRelay ----------------------------
(***************************************************************************)
(* Provider activity: events in the outbox of each provider database, the  *)
(* relay coordinators that carry them to the central observer, and the     *)
(* central provider_health row.                                            *)
(*                                                                         *)
(* Every process that imports builds its own coordinator, and outbox rows  *)
(* are not claimed, so several coordinators may carry the same event; the  *)
(* batch and the health a coordinator holds age while it works.  Any call  *)
(* may fail before or after its transaction committed, a provider database *)
(* may be unreachable, a coordinator's process may die.                    *)
(*                                                                         *)
(* One clock stands for the clocks of the databases and processes; it may  *)
(* stand still between two stamps, as millisecond stamps do.  0 is null.   *)
(* Left out: attempt counters and failure codes of an outbox row, the      *)
(* copied health fields, and how long a backoff lasts.                     *)
(***************************************************************************)
EXTENDS Integers, Sequences, FiniteSets, FiniteSetsExt

CONSTANTS Relay,       \* coordinators
          Provider,    \* providers in listing order
          Event,       \* event ids
          BatchSize,   \* events read at a time
          PageSize,    \* providers listed at a time (maximumProviders)
          Concurrency, \* maximumConcurrentProviders
          MaxClock,    \* bound on the clock
          MaxFaults,   \* bound on failed calls, unreachable databases, crashes
          None

ASSUME RelayAssumption ==
    /\ Provider \subseteq Nat \ {0} /\ IsFiniteSet(Provider)
    /\ Event \subseteq Nat /\ None \notin Event
    /\ {BatchSize, PageSize, Concurrency, MaxClock} \subseteq Nat \ {0} /\ MaxFaults \in Nat

VARIABLES clock,    \* wall clock
          outbox,   \* provider_activity_outbox per provider, in created_at order
          at,       \* event_at of each event
          central,  \* provider_activity_events per provider
          health,   \* provider_health row per provider
          probes,   \* direct-probe events per provider, in order
          cursor,   \* #cursor of each coordinator
          backoff,  \* #backoff of each coordinator, per provider
          lane,     \* processProvider of each coordinator, per provider
          faults

vars == <<clock, outbox, at, central, health, probes, cursor, backoff, lane, faults>>

-----------------------------------------------------------------------------
Time == 0 .. MaxClock
OutboxRow == [event : Event, delivered : BOOLEAN]

HealthRow == [state : {"absent", "local", "unreachable"},
              observedAt : Time, probeAt : Time, last : Event \cup {None}]
Lane == [at : {"idle", "ready", "probe", "observe", "accept", "ack"},
         batch : Seq(Event), health : Time]

IdleLane == [at |-> "idle", batch |-> <<>>, health |-> 0]
NoHealth == [state |-> "absent", observedAt |-> 0, probeAt |-> 0, last |-> None]

\* Every variable has its type.
TypeOK ==
    /\ clock \in Time /\ faults \in Nat
    /\ outbox \in [Provider -> Seq(OutboxRow)]
    /\ at \in [Event -> Time]
    /\ central \in [Provider -> SUBSET Event]
    /\ health \in [Provider -> HealthRow]
    /\ probes \in [Provider -> Seq({"unreachable", "recovered"})]
    /\ cursor \in [Relay -> Provider \cup {0}]
    /\ backoff \in [Relay -> [Provider -> {"none", "waiting"}]]
    /\ lane \in [Relay -> [Provider -> Lane]]

Init ==
    /\ clock = 1 /\ faults = 0
    /\ outbox = [p \in Provider |-> <<>>]
    /\ at = [e \in Event |-> 0]
    /\ central = [p \in Provider |-> {}]
    /\ health = [p \in Provider |-> NoHealth]
    /\ probes = [p \in Provider |-> <<>>]
    /\ cursor = [c \in Relay |-> 0]
    /\ backoff = [c \in Relay |-> [p \in Provider |-> "none"]]
    /\ lane = [c \in Relay |-> [p \in Provider |-> IdleLane]]

Tick == /\ clock < MaxClock
        /\ clock' = clock + 1
        /\ UNCHANGED <<outbox, at, central, health, probes, cursor, backoff, lane, faults>>

-----------------------------------------------------------------------------
(* The outbox of a provider database.                                      *)

Rows(p) == {outbox[p][i] : i \in 1 .. Len(outbox[p])}
EventsOf(p) == {row.event : row \in Rows(p)}
Delivered(p) == {row.event : row \in {r \in Rows(p) : r.delivered}}
Emitted == UNION {EventsOf(p) : p \in Provider}

\* appendProviderActivityOutbox, inside any transaction of the provider: a random
\* id, so ids follow no order.
AppendEvent(p, e) ==
    /\ e \notin Emitted
    /\ outbox' = [outbox EXCEPT ![p] = Append(@, [event |-> e, delivered |-> FALSE])]
    /\ at' = [at EXCEPT ![e] = clock]
    /\ UNCHANGED <<clock, central, health, probes, cursor, backoff, lane, faults>>

Pending(p) == {i \in DOMAIN outbox[p] : ~outbox[p][i].delivered}

\* readPendingBatch: the oldest pending rows.
PendingBatch(p) ==
    LET place(n) == CHOOSE i \in Pending(p) : Cardinality({j \in Pending(p) : j <= i}) = n
    IN  [n \in 1 .. Min({BatchSize, Cardinality(Pending(p))}) |-> outbox[p][place(n)].event]

MarkDelivered(p, e) ==
    outbox' = [outbox EXCEPT ![p] =
                 [i \in DOMAIN @ |-> IF @[i].event = e THEN [@[i] EXCEPT !.delivered = TRUE]
                                     ELSE @[i]]]

-----------------------------------------------------------------------------
(* The central health row.                                                 *)

\* The order on (last_activity_at, last_activity_event_id).
NewerActivity(e, f) ==
    \/ f = None
    \/ at[e] > at[f]
    \/ at[e] = at[f] /\ e > f

\* Variant: only a newer observation updates the row.
ObserveHealthByTime(row, h, e) ==
    IF row.state = "absent"
    THEN [NoHealth EXCEPT !.state = "local", !.observedAt = h, !.last = e]
    ELSE IF h > row.observedAt
    THEN [row EXCEPT !.state = "local", !.observedAt = h,
                     !.last = IF e # None /\ NewerActivity(e, row.last) THEN e ELSE @]
    ELSE row

\* observeHealth, the upsert: it writes when the observation or the activity is
\* newer, and then all of the health fields.
ObserveHealth(row, h, e) ==
    IF row.state = "absent"
    THEN [NoHealth EXCEPT !.state = "local", !.observedAt = h, !.last = e]
    ELSE IF h > row.observedAt \/ (e # None /\ NewerActivity(e, row.last))
    THEN [row EXCEPT !.state = "local", !.observedAt = h,
                     !.last = IF e # None /\ NewerActivity(e, row.last) THEN e ELSE @]
    ELSE row

ProbeIsNewer(row, t) == row.probeAt = 0 \/ t > row.probeAt

\* observeReachableHealth, probed at t.
ObserveReachable(row, h, t) ==
    IF ~ProbeIsNewer(row, t) THEN ObserveHealth(row, h, None)
    ELSE IF row.state = "unreachable"
    THEN [row EXCEPT !.state = "local", !.probeAt = t,
                     !.observedAt = Max({@, h, t})]
    ELSE [ObserveHealth(row, h, None) EXCEPT !.probeAt = t]

\* Variant: the recovery event does not ask for an outage.
RecoversOnAnyProbe(row, t) == ProbeIsNewer(row, t)

\* It appends a recovery event exactly when it ends an outage.
Recovers(row, t) == ProbeIsNewer(row, t) /\ row.state = "unreachable"

\* recordDirectProbe of an unreachable database, observed at t.
ObserveUnreachable(row, t) ==
    [row EXCEPT !.state = "unreachable", !.probeAt = t, !.observedAt = Max({@, t})]

-----------------------------------------------------------------------------
(* The coordinators.                                                       *)

Busy(c) == \E p \in Provider : lane[c][p].at # "idle"
Working(c) == {p \in Provider : lane[c][p].at \notin {"idle", "ready"}}

Faulty == faults < MaxFaults /\ faults' = faults + 1

SetLane(c, p, l) == lane' = [lane EXCEPT ![c][p] = l]
Step(c, p, where) == SetLane(c, p, [lane[c][p] EXCEPT !.at = where])

\* fail: the provider is left alone until its backoff has passed.
Fail(c, p) == /\ backoff' = [backoff EXCEPT ![c][p] = "waiting"]
              /\ SetLane(c, p, IdleLane)

\* listRelayTargets.
TargetPage(after) ==
    {p \in Provider : /\ p > after
                      /\ Cardinality({q \in Provider : after < q /\ q < p}) < PageSize}

\* Variant: the listing does not start over after its last page.
NextCursorStays(page) == Max(IF page = {} THEN Provider ELSE page)

NextCursor(page) == IF Cardinality(page) < PageSize THEN 0 ELSE Max(page)

\* executeCycle: a cycle starts only when the previous one is over; targets in
\* backoff are skipped.
StartCycle(c) ==
    /\ ~Busy(c)
    /\ LET page == TargetPage(cursor[c]) IN
         /\ cursor' = [cursor EXCEPT ![c] = NextCursor(page)]
         /\ lane' = [lane EXCEPT ![c] =
              [p \in Provider |-> IF p \in page /\ backoff[c][p] # "waiting"
                                  THEN [IdleLane EXCEPT !.at = "ready"] ELSE IdleLane]]
    /\ UNCHANGED <<clock, outbox, at, central, health, probes, backoff, faults>>

BackoffPasses(c, p) ==
    /\ backoff[c][p] = "waiting"
    /\ backoff' = [backoff EXCEPT ![c][p] = "none"]
    /\ UNCHANGED <<clock, outbox, at, central, health, probes, cursor, lane, faults>>

\* mapConcurrent takes the next target; its outbox and health are read in one
\* repeatable-read transaction.
ReadBatch(c, p) ==
    /\ lane[c][p].at = "ready" /\ Cardinality(Working(c)) < Concurrency
    /\ SetLane(c, p, [at |-> "observe", batch |-> PendingBatch(p), health |-> clock])
    /\ UNCHANGED <<clock, outbox, at, central, health, probes, cursor, backoff, faults>>

ReadFails(c, p) ==
    /\ lane[c][p].at = "ready" /\ Cardinality(Working(c)) < Concurrency
    /\ Faulty /\ Fail(c, p)
    /\ UNCHANGED <<clock, outbox, at, central, health, probes, cursor>>

\* The database cannot be reached: the backoff starts, and the observation goes
\* to the centre.
ReadUnreachable(c, p) ==
    /\ lane[c][p].at = "ready" /\ Cardinality(Working(c)) < Concurrency
    /\ Faulty
    /\ backoff' = [backoff EXCEPT ![c][p] = "waiting"]
    /\ SetLane(c, p, [at |-> "probe", batch |-> <<>>, health |-> clock])
    /\ UNCHANGED <<clock, outbox, at, central, health, probes, cursor>>

RecordProbe(c, p) ==
    LET t == lane[c][p].health IN
    /\ lane[c][p].at = "probe"
    /\ IF ProbeIsNewer(health[p], t)
       THEN /\ health' = [health EXCEPT ![p] = ObserveUnreachable(@, t)]
            /\ probes' = IF health[p].state = "unreachable" THEN probes
                         ELSE [probes EXCEPT ![p] = Append(@, "unreachable")]
       ELSE UNCHANGED <<health, probes>>
    /\ SetLane(c, p, IdleLane)
    /\ UNCHANGED <<clock, outbox, at, central, cursor, backoff, faults>>

\* The observer is unavailable too, in the same outage: the failure is swallowed.
ProbeFails(c, p) ==
    /\ lane[c][p].at = "probe"
    /\ SetLane(c, p, IdleLane)
    /\ UNCHANGED <<clock, outbox, at, central, health, probes, cursor, backoff,
                   faults>>

\* observeReachableHealth, then the events of the batch one by one; with none
\* the provider is done.
AfterEvent(c, p, batch) ==
    IF batch = <<>>
    THEN /\ backoff' = [backoff EXCEPT ![c][p] = "none"]
         /\ SetLane(c, p, IdleLane)
    ELSE /\ SetLane(c, p, [lane[c][p] EXCEPT !.at = "accept", !.batch = batch])
         /\ UNCHANGED backoff

ObserveCentrally(c, p) ==
    /\ lane[c][p].at = "observe"
    /\ health' = [health EXCEPT ![p] = ObserveReachable(@, lane[c][p].health, clock)]
    /\ probes' = IF Recovers(health[p], clock)
                 THEN [probes EXCEPT ![p] = Append(@, "recovered")] ELSE probes
    /\ AfterEvent(c, p, lane[c][p].batch)
    /\ UNCHANGED <<clock, outbox, at, central, cursor, faults>>

\* acceptProviderActivity: the event, unless it is there already, and the health.
Accept(c, p) ==
    LET e == Head(lane[c][p].batch) IN
    /\ central' = [central EXCEPT ![p] = @ \cup {e}]
    /\ health' = [health EXCEPT ![p] = ObserveHealth(@, lane[c][p].health, e)]

\* Variant: delivered before the centre has it.
AcknowledgeFirst(c, p) ==
    /\ lane[c][p].at = "accept"
    /\ MarkDelivered(p, Head(lane[c][p].batch))
    /\ AfterEvent(c, p, Tail(lane[c][p].batch))
    /\ UNCHANGED <<clock, at, central, health, probes, cursor, faults>>

AcceptEvent(c, p) ==
    /\ lane[c][p].at = "accept"
    /\ Accept(c, p) /\ Step(c, p, "ack")
    /\ UNCHANGED <<clock, outbox, at, probes, cursor, backoff, faults>>

\* The transaction commits and its caller sees an exception.
AcceptOutcomeLost(c, p) ==
    /\ lane[c][p].at = "accept"
    /\ Faulty /\ Accept(c, p) /\ Fail(c, p)
    /\ UNCHANGED <<clock, outbox, at, probes, cursor>>

\* markDelivered; a row another coordinator has marked is left alone.
AcknowledgeEvent(c, p) ==
    /\ lane[c][p].at = "ack"
    /\ MarkDelivered(p, Head(lane[c][p].batch))
    /\ AfterEvent(c, p, Tail(lane[c][p].batch))
    /\ UNCHANGED <<clock, at, central, health, probes, cursor, faults>>

\* A central or provider call throws: the batch ends here.  markFailed, which
\* follows, changes only counters.
CallFails(c, p) ==
    /\ lane[c][p].at \in {"observe", "accept", "ack"}
    /\ Faulty /\ Fail(c, p)
    /\ UNCHANGED <<clock, outbox, at, central, health, probes, cursor>>

\* The process dies; the next one has a coordinator of its own.
CrashRelay(c) ==
    /\ Faulty /\ Busy(c)
    /\ lane' = [lane EXCEPT ![c] = [p \in Provider |-> IdleLane]]
    /\ cursor' = [cursor EXCEPT ![c] = 0]
    /\ backoff' = [backoff EXCEPT ![c] = [p \in Provider |-> "none"]]
    /\ UNCHANGED <<clock, outbox, at, central, health, probes>>

\* An undisturbed step of coordinator c on provider p.
Relays(c, p) ==
    \/ ReadBatch(c, p) \/ RecordProbe(c, p) \/ ObserveCentrally(c, p)
    \/ AcceptEvent(c, p) \/ AcknowledgeEvent(c, p)

Next ==
    \/ Tick
    \/ \E p \in Provider, e \in Event : AppendEvent(p, e)
    \/ \E c \in Relay : StartCycle(c) \/ CrashRelay(c)
    \/ \E c \in Relay, p \in Provider :
         \/ Relays(c, p) \/ BackoffPasses(c, p)
         \/ ReadFails(c, p) \/ ReadUnreachable(c, p) \/ ProbeFails(c, p)
         \/ AcceptOutcomeLost(c, p) \/ CallFails(c, p)

Spec == Init /\ [][Next]_vars

\* Cycles are run again and again, a started cycle goes on with each target, and
\* a backoff ends.
FairSpec ==
    /\ Spec
    /\ \A c \in Relay : WF_vars(StartCycle(c))
    /\ \A c \in Relay, p \in Provider : WF_vars(Relays(c, p)) /\ WF_vars(BackoffPasses(c, p))

-----------------------------------------------------------------------------
(* Properties.                                                             *)

Ledger == INSTANCE ReliableOutbox WITH
    Item <- Event,
    emitted <- Emitted,
    applied <- UNION {central[p] : p \in Provider},
    acknowledged <- UNION {Delivered(p) : p \in Provider}

\* The relay is an outbox: the centre never holds an event the provider did not
\* commit, and a row is marked delivered only once the centre has its event,
\* whatever crashes, is retried or is carried twice.
RelayIsReliable == Ledger!Spec

\* The health row points at the latest activity the centre holds, in whatever
\* order coordinators with older and newer batches and health deliver it.
LastActivityIsLatest ==
    \A p \in Provider :
        /\ health[p].last = None <=> central[p] = {}
        /\ \A e \in central[p] : e = health[p].last \/ ~NewerActivity(e, health[p].last)

\* Reachability events tell a story: a recovery is reported once, and only right
\* after an outage that was reported.
RecoveryFollowsOutage ==
    \A p \in Provider : \A i \in 1 .. Len(probes[p]) :
        probes[p][i] = "recovered" => i > 1 /\ probes[p][i - 1] = "unreachable"

\* No provider's outbox is starved: every event of every provider, also of those
\* behind the page a cycle lists, reaches the centre and leaves the outbox once
\* calls stop failing.  (Events are finitely many here and a delivered row stays
\* delivered, so "again and again empty" is "empty for good".)
EventsAreDelivered == []<>(\A p \in Provider : Pending(p) = {})
=============================================================================

----------------------- MODULE SourceSupervisor_proofs -----------------------
(***************************************************************************)
(* Proofs about SourceSupervisor: what an epoch has in flight it answers   *)
(* for, runs read from the committed cursor, the retries of a page are     *)
(* bounded between outages, and an open episode holds every cursor, for    *)
(* any number of sources, epochs, generations, attempts and pages.         *)
(***************************************************************************)
EXTENDS SourceSupervisor, FiniteSetTheorems, FunctionTheorems, WellFoundedInduction, TLAPS

-----------------------------------------------------------------------------
(***************************************************************************)
(* The inductive invariant: SupervisorInvariant and CursorInStep, source   *)
(* by source, with what the owner's turns know of the rows they work on    *)
(* and where the count of retryable answers is kept.                       *)
(***************************************************************************)
InFlight(s) == attempt[s].state = "in_flight"

\* A request in flight: its epoch, and the run it belongs to.
InFlightRuns(s) ==
    InFlight(s) => /\ attempt[s].owner \in 1..epoch.n
                   /\ run[s].state = "running" /\ run[s].claim = attempt[s].claim
                   /\ run[s].at = attempt[s].at /\ run[s].pages + 1 = attempt[s].page

Claimable(s) == run[s].state = "queued" => ~lane[s].action

CursorReads(s) ==
    run[s].state \in Alive => run[s].at = source[s].cursor /\ run[s].from <= run[s].at

\* The run's claim, if it has one, has committed no page yet.
AtBoundary(s) == \/ run[s].state = "queued"
                 \/ run[s].state = "running" /\ run[s].pages <= run[s].counted

\* Pages were committed by continue answers, and there is room for the next.
PagesCounted(s) ==
    /\ run[s].last = "continue" => run[s].pages > 0
    /\ AtBoundary(s) /\ run[s].pages > 0 => run[s].last = "continue"
    /\ AtBoundary(s) /\ run[s].state = "running" => run[s].pages < MaximumCommittedPages

\* The last answer is counted by no lane yet.
Uncounted(s) == run[s].state = "running" /\ attempt[s].state = "retryable"

\* Retryable answers belong to the page at hand, and the lane has counted them
\* all but the last.  An open episode has seen one at most, of the request that
\* was under way when it opened.
BudgetKept(s) ==
    failures[s] > 0 =>
      /\ AtBoundary(s)
      /\ attempt[s].state \notin {"none", "captured"}
      /\ attempt[s].page = run[s].pages + 1 /\ attempt[s].at = run[s].at
      /\ failures[s] <= lane[s].retry + IF Uncounted(s) THEN 1 ELSE 0
      /\ Blocked => /\ failures[s] = 1 /\ attempt[s].state = "retryable"
                    /\ run[s].state = "queued" => lane[s].cur

SourceInv(s) == /\ InFlightRuns(s) /\ Claimable(s) /\ CursorReads(s)
                /\ PagesCounted(s) /\ BudgetKept(s)

\* An idle turn names no claim, and no epoch yet to come has a turn.
Unclaimed(o, s) == turn[o][s].phase = "idle" \/ o > epoch.n => turn[o][s] = NoTurn

\* The owner's turn and the request of its source.
TurnInStep(o, s) ==
    /\ InFlight(s) => turn[o][s].phase \in {"idle", "called"}
    /\ turn[o][s].phase = "called" => /\ InFlight(s) /\ attempt[s].owner = o
                                      /\ attempt[s].claim = turn[o][s].claim
    /\ turn[o][s].phase \in {"claimed", "called", "captured", "retryable"} /\ Exact(o, s)
         => run[s].pages = run[s].counted

\* The owner's turn and the count of retryable answers.
TurnCounts(o, s) ==
    /\ turn[o][s].phase \in {"claimed", "called"} => failures[s] <= turn[o][s].retry
    /\ turn[o][s].phase \in {"captured", "committed"} => failures[s] = 0
    /\ turn[o][s].phase = "retryable" => failures[s] <= turn[o][s].retry + 1
    /\ turn[o][s].phase = "claimed" /\ Exact(o, s) => failures[s] <= lane[s].retry
    /\ turn[o][s].phase = "claimed" /\ Blocked => failures[s] = 0

TurnInv(o, s) ==
    Unclaimed(o, s) /\ (epoch.n = o => TurnInStep(o, s) /\ TurnCounts(o, s))

SupervisorInv ==
    /\ SupervisorTypeOK /\ OneEpochInFlight /\ ReleasedIsDrained
    /\ \A s \in Sources : SourceInv(s)
    /\ \A o \in Owners, s \in Sources : TurnInv(o, s)

-----------------------------------------------------------------------------
(***************************************************************************)
(* Frames: what a step leaves alone.                                       *)
(***************************************************************************)
SameRows(s) == /\ source'[s] = source[s] /\ run'[s] = run[s] /\ attempt'[s] = attempt[s]
               /\ lane'[s] = lane[s] /\ failures'[s] = failures[s]

\* The input is kept but for the disturbances left.
SameGiven == given' = given \/ Fault

Kept == epoch' = epoch /\ owner' = owner /\ health' = health /\ SameGiven

\* A turn of the source may end; every other turn is left.
TurnsLeft(s) == UNCHANGED turn \/ \E o \in Owners : Idle(o, s)

LEMMA GivenKept ==
    ASSUME SupervisorTypeOK, SameGiven
    PROVE  /\ given'.pages = given.pages /\ given'.outcomes = given.outcomes
           /\ given' \in [sources : SUBSET Sources, outcomes : SUBSET Outcomes,
                          pages : Nat, faults : Nat, watched : BOOLEAN]
           /\ SourceRows' = SourceRows /\ RunRows' = RunRows
           /\ AttemptRows' = AttemptRows
<1>1. given \in [sources : SUBSET Sources, outcomes : SUBSET Outcomes,
                 pages : Nat, faults : Nat, watched : BOOLEAN]
  BY DEF SupervisorTypeOK
<1>2. /\ given'.pages = given.pages /\ given'.outcomes = given.outcomes
      /\ given' \in [sources : SUBSET Sources, outcomes : SUBSET Outcomes,
                     pages : Nat, faults : Nat, watched : BOOLEAN]
  BY <1>1 DEF SameGiven, Fault
<1> QED BY <1>2 DEF SourceRows, RunRows, AttemptRows, Claims

\* A turn set to a turn is a turn, and nothing else moves.
LEMMA TurnSet ==
    ASSUME SupervisorTypeOK, NEW o \in Owners, NEW s \in Sources, NEW t \in Turns,
           SetTurn(o, s, t)
    PROVE  /\ turn' \in [Owners -> [Sources -> Turns]]
           /\ turn'[o][s] = t
           /\ \A p \in Owners, x \in Sources : p # o \/ x # s => turn'[p][x] = turn[p][x]
<1> QED BY DEF SupervisorTypeOK, SetTurn

LEMMA TurnsLeftAre ==
    ASSUME SupervisorTypeOK, NEW s \in Sources, TurnsLeft(s)
    PROVE  /\ turn' \in [Owners -> [Sources -> Turns]]
           /\ \A p \in Owners : turn'[p][s] \in {turn[p][s], NoTurn}
           /\ \A p \in Owners, x \in Sources : x # s => turn'[p][x] = turn[p][x]
<1>1. CASE UNCHANGED turn
  BY <1>1 DEF SupervisorTypeOK
<1>2. ASSUME NEW o \in Owners, Idle(o, s)
      PROVE  /\ turn' \in [Owners -> [Sources -> Turns]]
             /\ \A p \in Owners : turn'[p][s] \in {turn[p][s], NoTurn}
             /\ \A p \in Owners, x \in Sources : x # s => turn'[p][x] = turn[p][x]
  <2>1. NoTurn \in Turns
    BY SupervisorAssumption DEF NoTurn, Turns, TurnPhases
  <2>2. SetTurn(o, s, NoTurn)
    BY <1>2 DEF Idle
  <2> QED BY <2>1, <2>2, TurnSet
<1> QED BY <1>1, <1>2 DEF TurnsLeft

\* A source whose rows do not change keeps what holds of it.
LEMMA Elsewhere ==
    ASSUME NEW s \in Sources, SameRows(s), epoch' = epoch, health' = health, SourceInv(s)
    PROVE  SourceInv(s)'
<1> QED BY DEF SameRows, SourceInv, InFlightRuns, InFlight, Claimable, CursorReads, PagesCounted,
               AtBoundary, BudgetKept, Uncounted, Blocked

LEMMA TurnElsewhere ==
    ASSUME NEW o \in Owners, NEW s \in Sources, SameRows(s), epoch' = epoch, health' = health,
           turn'[o][s] \in {turn[o][s], NoTurn}, TurnInv(o, s)
    PROVE  TurnInv(o, s)'
<1>1. CASE turn'[o][s] = turn[o][s]
  BY <1>1 DEF SameRows, TurnInv, TurnInStep, TurnCounts, Unclaimed, InFlight, Exact, Blocked
<1>2. CASE turn'[o][s] = NoTurn
  BY <1>2 DEF TurnInv, TurnInStep, TurnCounts, Unclaimed, NoTurn
<1> QED BY <1>1, <1>2

\* A step that touches one source and puts nothing new in flight keeps the
\* invariant if it keeps the source's part.
LEMMA OneSource ==
    ASSUME SupervisorInv, SupervisorTypeOK', NEW s \in Sources, epoch' = epoch, health' = health,
           \A x \in Sources : x # s => SameRows(x),
           \A p \in Owners, x \in Sources : x # s => turn'[p][x] = turn[p][x],
           InFlight(s)' => InFlight(s) /\ attempt'[s].owner = attempt[s].owner,
           SourceInv(s)', \A p \in Owners : TurnInv(p, s)'
    PROVE  SupervisorInv'
<1>1. \A x \in Sources : SourceInv(x)'
  BY Elsewhere DEF SupervisorInv
<1>2. \A p \in Owners, x \in Sources : TurnInv(p, x)'
  BY TurnElsewhere DEF SupervisorInv
<1>3. \A x \in Sources : InFlight(x)' => InFlight(x) /\ attempt'[x].owner = attempt[x].owner
  BY DEF SameRows, InFlight
<1>4. OneEpochInFlight' /\ ReleasedIsDrained'
  BY <1>3 DEF SupervisorInv, OneEpochInFlight, ReleasedIsDrained, InFlightOf, InFlight
<1> QED BY <1>1, <1>2, <1>4 DEF SupervisorInv

-----------------------------------------------------------------------------
(***************************************************************************)
(* Settlements: the rows of one source after a transaction.                *)
(***************************************************************************)
LEMMA SettleRows ==
    ASSUME SupervisorTypeOK, NEW s \in Sources, NEW r, NEW l, NEW src, Settle(s, r, l, src)
    PROVE  /\ run'[s] = r /\ lane'[s] = l /\ source'[s] = src
           /\ \A x \in Sources : x # s => SameRows(x)
           /\ ~InFlight(s) /\ (r.state \notin Alive \/ r.pages < run[s].pages)
                => attempt'[s] = NoAttempt /\ failures'[s] = 0
           /\ InFlight(s) \/ (r.state \in Alive /\ ~(r.pages < run[s].pages))
                => attempt'[s] = attempt[s] /\ failures'[s] = failures[s]
<1> QED BY DEF SupervisorTypeOK, Settle, SameRows, InFlight

LEMMA Rows ==
    ASSUME SupervisorTypeOK
    PROVE  /\ NoAttempt \in AttemptRows /\ NoTurn \in Turns
           /\ \A st \in RunStates : NoRun(st) \in RunRows
           /\ \A c \in 0..given.pages : NewRun(c) \in RunRows
           /\ \A s \in Sources : Requeued(s) \in RunRows /\ Paused(s) \in SourceRows
           /\ \A l \in LaneRows : /\ Queued(l) \in LaneRows /\ Quiet(l) \in LaneRows
                                  /\ ActionRequired(l) \in LaneRows
                                  /\ ConnectionBlocked(l) \in LaneRows
           /\ \A s \in Sources : StaleLane(s) \in LaneRows
<1>1. given.pages \in Nat /\ MaxEpochs \in Nat /\ MaxGeneration \in Nat /\ MaximumAttempts \in Nat
      /\ MaximumCommittedPages \in Nat
  BY SupervisorAssumption DEF SupervisorTypeOK
<1>2. NoAttempt \in AttemptRows /\ NoTurn \in Turns
  BY <1>1 DEF NoAttempt, AttemptRows, AttemptStates, NoTurn, Turns, TurnPhases
<1>3. \A st \in RunStates : NoRun(st) \in RunRows
  BY <1>1 DEF NoRun, RunRows
<1>4. ASSUME NEW c \in 0..given.pages PROVE NewRun(c) \in RunRows
  <2>1. NoRun("queued") \in RunRows
    BY <1>3 DEF RunStates
  <2> QED BY <1>1, <2>1 DEF NewRun, RunRows
<1>5. ASSUME NEW s \in Sources PROVE Requeued(s) \in RunRows /\ Paused(s) \in SourceRows
  <2>1. run[s] \in RunRows /\ source[s] \in SourceRows
    BY DEF SupervisorTypeOK
  <2>2. Requeued(s) \in RunRows
    <3>1. 0 \in 0..MaximumCommittedPages /\ 0 \in {0} \cup Claims /\ "queued" \in RunStates
      BY <1>1 DEF RunStates
    <3> QED BY <2>1, <3>1, Zenon DEF Requeued, RunRows
  <2> QED BY <2>1, <2>2 DEF Paused, SourceRows
<1>6. health.episode \in 0..MaxGeneration
  BY DEF SupervisorTypeOK
<1>7. ASSUME NEW l \in LaneRows
      PROVE  /\ Queued(l) \in LaneRows /\ Quiet(l) \in LaneRows
             /\ ActionRequired(l) \in LaneRows /\ ConnectionBlocked(l) \in LaneRows
  <2>1. Queued(l) \in LaneRows /\ Quiet(l) \in LaneRows
    <3>1. 0 \in 0..MaximumAttempts /\ TRUE \in BOOLEAN /\ FALSE \in BOOLEAN
      BY <1>1
    <3> QED BY <3>1, Zenon DEF Queued, Quiet, LaneRows
  <2> QED BY <1>6, <2>1 DEF ActionRequired, ConnectionBlocked, LaneRows
<1>8. ASSUME NEW s \in Sources PROVE StaleLane(s) \in LaneRows
  <2> DEFINE l == [lane[s] EXCEPT !.blockedBy = health.episode]
  <2>1. lane[s] \in LaneRows /\ health.episode \in 0..MaxGeneration
    BY DEF SupervisorTypeOK
  <2>2. l \in LaneRows
    BY <2>1, Zenon DEF LaneRows
  <2> QED BY <1>7, <2>2 DEF StaleLane
<1> QED BY <1>2, <1>3, <1>4, <1>5, <1>7, <1>8

LEMMA SettleTyped ==
    ASSUME SupervisorTypeOK, Kept, NEW s \in Sources, TurnsLeft(s),
           NEW r \in RunRows, NEW l \in LaneRows, NEW src \in SourceRows, Settle(s, r, l, src)
    PROVE  SupervisorTypeOK'
<1>1. /\ run' \in [Sources -> RunRows] /\ lane' \in [Sources -> LaneRows]
      /\ source' \in [Sources -> SourceRows] /\ failures' \in [Sources -> Nat]
      /\ attempt' \in [Sources -> AttemptRows]
  BY Rows DEF SupervisorTypeOK, Settle
<1>2. turn' \in [Owners -> [Sources -> Turns]]
  BY TurnsLeftAre
<1> QED BY <1>1, <1>2, GivenKept DEF SupervisorTypeOK, Kept, LaneRows, Turns, Claims, Owners

\* The settlement of a source with no request in flight, and what its run must
\* be like afterwards.
LEMMA Settling ==
    ASSUME SupervisorInv, Kept, NEW s \in Sources, TurnsLeft(s), ~InFlight(s),
           NEW r \in RunRows, NEW l \in LaneRows, NEW src \in SourceRows, Settle(s, r, l, src),
           r.state # "running", SourceInv(s)'
    PROVE  SupervisorInv'
<1>1. SupervisorTypeOK /\ \A o \in Owners : TurnInv(o, s)
  BY DEF SupervisorInv
<1>2. SupervisorTypeOK'
  BY <1>1, SettleTyped
<1>3. /\ run'[s] = r /\ \A x \in Sources : x # s => SameRows(x)
      /\ failures'[s] = 0 \/ failures'[s] = failures[s]
      /\ ~InFlight(s)'
  BY <1>1, SettleRows DEF InFlight, NoAttempt
<1>4. /\ \A p \in Owners : turn'[p][s] \in {turn[p][s], NoTurn}
      /\ \A p \in Owners, x \in Sources : x # s => turn'[p][x] = turn[p][x]
  BY <1>1, TurnsLeftAre
<1>5. ASSUME NEW o \in Owners PROVE TurnInv(o, s)'
  <2>1. /\ epoch' = epoch /\ health' = health /\ failures[s] \in Nat /\ turn[o][s] \in Turns
        /\ turn[o][s].retry \in Nat
    BY <1>1 DEF Kept, SupervisorTypeOK, Turns
  <2>2. CASE turn'[o][s] = NoTurn
    BY <1>3, <2>2 DEF TurnInv, Unclaimed, TurnInStep, TurnCounts, NoTurn
  <2>3. CASE turn'[o][s] = turn[o][s]
    <3>1. Unclaimed(o, s)'
      BY <1>1, <2>1, <2>3 DEF TurnInv, Unclaimed
    <3>2. epoch.n = o => TurnInStep(o, s)'
      BY <1>1, <1>3, <2>1, <2>3 DEF TurnInv, TurnInStep, Exact
    <3>3. epoch.n = o => TurnCounts(o, s)'
      BY <1>1, <1>3, <2>1, <2>3 DEF TurnInv, TurnCounts, Exact, Blocked
    <3> QED BY <2>1, <3>1, <3>2, <3>3 DEF TurnInv
  <2> QED BY <1>4, <2>2, <2>3
<1> QED BY <1>2, <1>3, <1>4, <1>5, OneSource DEF Kept

\* The run ends.
LEMMA Ends ==
    ASSUME SupervisorInv, Kept, NEW s \in Sources, TurnsLeft(s), ~InFlight(s),
           NEW st \in RunStates \ Alive, NEW l \in LaneRows, NEW src \in SourceRows,
           Settle(s, NoRun(st), l, src)
    PROVE  SupervisorInv'
<1>1. NoRun(st) \in RunRows /\ NoRun(st).state = st /\ NoRun(st).last = "none"
  BY Rows DEF SupervisorInv, NoRun
<1>2. run'[s] = NoRun(st) /\ attempt'[s] = NoAttempt /\ failures'[s] = 0
  BY <1>1, SettleRows DEF SupervisorInv
<1>3. SourceInv(s)'
  BY <1>1, <1>2
     DEF SourceInv, InFlightRuns, InFlight, NoAttempt, Claimable, CursorReads, PagesCounted,
         AtBoundary, BudgetKept, Alive
<1> QED BY <1>1, <1>3, Settling DEF Alive

\* A run is created at the source's cursor.
LEMMA Begins ==
    ASSUME SupervisorInv, Kept, NEW s \in Sources, TurnsLeft(s), ~InFlight(s),
           NEW l \in LaneRows, ~l.action, Settle(s, NewRun(source[s].cursor), l, source[s]),
           run[s].state \notin Alive \/ run[s].pages > 0
    PROVE  SupervisorInv'
<1> DEFINE r == NewRun(source[s].cursor)
<1>1. /\ SupervisorTypeOK /\ source[s] \in SourceRows /\ source[s].cursor \in 0..given.pages
      /\ given.pages \in Nat /\ run[s].pages \in Nat /\ failures[s] \in Nat
  BY DEF SupervisorInv, SupervisorTypeOK, SourceRows, RunRows
<1>2. /\ r \in RunRows /\ r.state = "queued" /\ r.at = source[s].cursor /\ r.from = r.at
      /\ r.pages = 0 /\ r.last = "none"
  BY <1>1, Rows DEF NewRun, NoRun
<1> HIDE DEF r
<1>3. /\ run'[s] = r /\ lane'[s] = l /\ source'[s] = source[s]
      /\ attempt'[s] \in {NoAttempt, attempt[s]} /\ failures'[s] \in {0, failures[s]}
      /\ run[s].pages > 0 => failures'[s] = 0
  BY <1>1, <1>2, SettleRows DEF Alive, r
<1>4. failures'[s] = 0
  BY <1>1, <1>3 DEF SupervisorInv, SourceInv, BudgetKept, AtBoundary, Alive
<1>5. SourceInv(s)'
  BY <1>1, <1>2, <1>3, <1>4
     DEF SourceInv, InFlightRuns, InFlight, NoAttempt, Claimable, CursorReads, PagesCounted,
         AtBoundary, BudgetKept
<1> QED BY <1>1, <1>2, <1>5, Settling DEF r

\* The run goes back to the queue, at the page it was reading.
LEMMA Requeues ==
    ASSUME SupervisorInv, Kept, NEW s \in Sources, TurnsLeft(s), ~InFlight(s),
           NEW l \in LaneRows, ~l.action, Settle(s, Requeued(s), l, source[s]),
           run[s].state = "running", run[s].pages > 0 => run[s].last = "continue",
           failures[s] > 0 => failures[s] <= l.retry /\ l.cur
    PROVE  SupervisorInv'
<1>1. /\ SupervisorTypeOK /\ source[s] \in SourceRows /\ run[s] \in RunRows
      /\ run[s].pages \in Nat /\ failures[s] \in Nat /\ SourceInv(s) /\ health' = health
      /\ l.retry \in Nat
  BY SupervisorAssumption DEF SupervisorInv, SupervisorTypeOK, RunRows, Kept, LaneRows
<1> DEFINE r == Requeued(s)
<1>2. /\ r \in RunRows /\ r.state = "queued" /\ r.at = run[s].at /\ r.from = run[s].from
      /\ r.pages = run[s].pages /\ r.last = run[s].last
  BY <1>1, Rows DEF Requeued, RunRows
<1> HIDE DEF r
<1>3. /\ run'[s] = r /\ lane'[s] = l /\ source'[s] = source[s]
      /\ attempt'[s] = attempt[s] /\ failures'[s] = failures[s]
  BY <1>1, <1>2, SettleRows DEF Alive, r
<1>4. InFlightRuns(s)' /\ Claimable(s)' /\ CursorReads(s)' /\ PagesCounted(s)'
  BY <1>1, <1>2, <1>3
     DEF SourceInv, InFlightRuns, InFlight, Claimable, CursorReads, PagesCounted, AtBoundary, Alive
<1>5. BudgetKept(s)'
  BY <1>1, <1>2, <1>3 DEF SourceInv, BudgetKept, AtBoundary, Uncounted, Blocked
<1> QED BY <1>1, <1>2, <1>4, <1>5, Settling DEF r, SourceInv

LEMMA LaneFields ==
    ASSUME SupervisorTypeOK, NEW l \in LaneRows
    PROVE  /\ Queued(l) \in LaneRows /\ ~Queued(l).action /\ Queued(l).cur
           /\ Quiet(l) \in LaneRows
           /\ ~Quiet(l).action /\ Quiet(l).retry = 0 /\ ~Quiet(l).cur
           /\ ConnectionBlocked(l) \in LaneRows /\ ~ConnectionBlocked(l).action
<1>1. ~Queued(l).action /\ Queued(l).cur
  BY DEF Queued, LaneRows
<1>2. ~Quiet(l).action /\ Quiet(l).retry = 0 /\ ~Quiet(l).cur
  BY DEF Quiet, LaneRows
<1>3. Quiet(l) \in LaneRows /\ Queued(l) \in LaneRows /\ ConnectionBlocked(l) \in LaneRows
  BY Rows
<1>4. ~ConnectionBlocked(l).action
  BY <1>2, <1>3 DEF ConnectionBlocked, LaneRows
<1> QED BY <1>1, <1>2, <1>3, <1>4

\* The lane that waits for a retry, and the one a claim was released to.
Waiting(l, n) ==
    [l EXCEPT !.action = FALSE, !.retry = n, !.wait = TRUE, !.cur = TRUE]
Released(l, n) ==
    [l EXCEPT !.action = FALSE, !.wait = FALSE, !.cur = TRUE, !.retry = n]

LEMMA LaneSet ==
    ASSUME NEW l \in LaneRows, NEW n \in 0..MaximumAttempts
    PROVE  /\ Waiting(l, n) \in LaneRows /\ Released(l, n) \in LaneRows
           /\ ~Waiting(l, n).action /\ Waiting(l, n).cur /\ Waiting(l, n).retry = n
           /\ ~Released(l, n).action /\ Released(l, n).cur /\ Released(l, n).retry = n
<1>1. TRUE \in BOOLEAN /\ FALSE \in BOOLEAN
  OBVIOUS
<1>2. Waiting(l, n) \in LaneRows /\ Released(l, n) \in LaneRows
  BY <1>1, Zenon DEF Waiting, Released, LaneRows
<1>3. ~Waiting(l, n).action /\ Waiting(l, n).cur /\ Waiting(l, n).retry = n
  BY DEF Waiting, LaneRows
<1>4. ~Released(l, n).action /\ Released(l, n).cur /\ Released(l, n).retry = n
  BY DEF Released, LaneRows
<1> QED BY <1>2, <1>3, <1>4

\* An exhausted run is replaced by a continuation, or ends.
LEMMA Rollovers ==
    ASSUME SupervisorInv, Kept, NEW s \in Sources, TurnsLeft(s), ~InFlight(s),
           run[s].pages > 0, Rollover(s, lane[s])
    PROVE  SupervisorInv'
<1>1. /\ SupervisorTypeOK /\ lane[s] \in LaneRows /\ source[s] \in SourceRows
      /\ Queued(lane[s]) \in LaneRows /\ ~Queued(lane[s]).action
      /\ ActionRequired(lane[s]) \in LaneRows
  BY LaneFields, Rows DEF SupervisorInv, SupervisorTypeOK
<1>2. CASE Requestable(s)
  BY <1>1, <1>2, Begins DEF Rollover
<1>3. CASE ~Requestable(s)
  <2>1. "incomplete" \in RunStates \ Alive
    BY DEF RunStates, Alive
  <2>2. PICK l \in LaneRows : Settle(s, NoRun("incomplete"), l, source[s])
    BY <1>1, <1>3 DEF Rollover
  <2> QED BY <1>1, <2>1, <2>2, Ends
<1> QED BY <1>2, <1>3

\* recoverTerminalRequestBoundary.
LEMMA BoundaryRecovers ==
    ASSUME SupervisorInv, Kept, NEW s \in Sources, UNCHANGED turn,
           Recoverable(s), ~CommittedUnfinished(s), RecoverBoundary(s)
    PROVE  SupervisorInv'
<1>1. /\ SupervisorTypeOK /\ lane[s] \in LaneRows /\ source[s] \in SourceRows
      /\ Queued(lane[s]) \in LaneRows /\ ~Queued(lane[s]).action /\ Queued(lane[s]).cur
      /\ Quiet(lane[s]) \in LaneRows /\ ConnectionBlocked(lane[s]) \in LaneRows
      /\ ActionRequired(lane[s]) \in LaneRows /\ Paused(s) \in SourceRows
  BY LaneFields, Rows DEF SupervisorInv, SupervisorTypeOK
<1>2. /\ lane[s].retry \in 0..MaximumAttempts /\ failures[s] \in Nat /\ MaximumAttempts \in Nat
      /\ run[s].pages \in Nat /\ run[s].counted \in Nat
  BY <1>1, SupervisorAssumption DEF SupervisorTypeOK, LaneRows, RunRows
<1>3. /\ TurnsLeft(s) /\ ~InFlight(s) /\ run[s].state = "running"
      /\ {"incomplete", "failed"} \subseteq RunStates \ Alive
  BY DEF TurnsLeft, Recoverable, InFlight, RunStates, Alive
<1>4. SourceInv(s) /\ AtBoundary(s)
  BY <1>2, <1>3 DEF SupervisorInv, AtBoundary, CommittedUnfinished
<1>5. run[s].pages > 0 => run[s].last = "continue"
  BY <1>4 DEF SourceInv, PagesCounted
<1>6. failures[s] > 0 => /\ Proof(s) = attempt[s].state /\ attempt[s].state \notin {"none", "captured"}
                         /\ failures[s] <= lane[s].retry + IF Uncounted(s) THEN 1 ELSE 0
  BY <1>4 DEF SourceInv, BudgetKept, Proof
<1>7. CASE Proof(s) \in {"connection_action_required", "uncertain"}
  <2>1. PICK l \in LaneRows : Settle(s, NoRun("incomplete"), l, source[s])
    BY <1>1, <1>7 DEF RecoverBoundary
  <2> QED BY <1>1, <1>3, <2>1, Ends
<1>8. CASE Proof(s) \in {"captured", "none"}
  <2>1. failures[s] = 0
    BY <1>2, <1>6, <1>8
  <2>2. \/ Settle(s, NoRun("incomplete"), Quiet(lane[s]), Paused(s))
        \/ Settle(s, Requeued(s), Queued(lane[s]), source[s])
    BY <1>8 DEF RecoverBoundary
  <2> QED BY <1>1, <1>2, <1>3, <1>5, <2>1, <2>2, Ends, Requeues
<1>9. CASE Proof(s) = "retryable" /\ lane[s].retry < MaximumAttempts
  <2> DEFINE n == lane[s].retry + 1
  <2>1. n \in 0..MaximumAttempts
    BY <1>2, <1>9
  <2>2. Settle(s, Requeued(s), Waiting(lane[s], n), source[s])
    BY <1>2, <1>9 DEF RecoverBoundary, Waiting
  <2>3. failures[s] > 0 => failures[s] <= n
    BY <1>2, <1>6
  <2> HIDE DEF n
  <2> QED BY <1>1, <1>3, <1>5, <2>1, <2>2, <2>3, LaneSet, Requeues
<1>10. CASE \/ Proof(s) \in {"source_action_required", "cancelled"}
            \/ Proof(s) = "retryable" /\ lane[s].retry = MaximumAttempts
  <2>1. Settle(s, NoRun("failed"), ActionRequired(lane[s]), source[s])
    BY <1>2, <1>10 DEF RecoverBoundary
  <2> QED BY <1>1, <1>3, <2>1, Ends
<1> QED BY <1>7, <1>8, <1>9, <1>10 DEF RecoverBoundary

LEMMA RecoverKeeps ==
    ASSUME SupervisorInv, NEW o \in Owners, NEW s \in Sources, Recover(o, s)
    PROVE  SupervisorInv'
<1>1. /\ SupervisorTypeOK /\ lane[s] \in LaneRows /\ source[s] \in SourceRows
      /\ Queued(lane[s]) \in LaneRows /\ ~Queued(lane[s]).action /\ Queued(lane[s]).cur
      /\ Quiet(lane[s]) \in LaneRows /\ Paused(s) \in SourceRows
      /\ [source[s] EXCEPT !.due = FALSE] \in SourceRows
  <2>1. lane[s] \in LaneRows /\ source[s] \in SourceRows /\ SupervisorTypeOK
    BY DEF SupervisorInv, SupervisorTypeOK
  <2>2. [source[s] EXCEPT !.due = FALSE] \in SourceRows
    BY <2>1 DEF SourceRows
  <2> QED BY <2>1, <2>2, LaneFields, Rows
<1>2. failures[s] \in Nat /\ run[s].pages \in Nat /\ run[s].counted \in Nat
  BY <1>1, SupervisorAssumption DEF SupervisorTypeOK, RunRows
<1>3. /\ Kept /\ UNCHANGED turn /\ TurnsLeft(s) /\ Recoverable(s) /\ ~InFlight(s)
      /\ run[s].state = "running"
      /\ {"incomplete", "failed", "succeeded"} \subseteq RunStates \ Alive
  BY DEF Recover, Kept, SameGiven, TurnsLeft, Recoverable, InFlight, RunStates, Alive
<1>4. CASE source[s].state = "disabled"
  BY <1>1, <1>3, <1>4, Ends DEF Recover
<1>5. CASE source[s].state # "disabled" /\ ~CommittedUnfinished(s)
  BY <1>3, <1>5, BoundaryRecovers DEF Recover
<1>6. CASE source[s].state # "disabled" /\ CommittedUnfinished(s)
  <2>1. failures[s] = 0 /\ (run[s].last = "continue" => run[s].pages > 0)
    BY <1>2, <1>3, <1>6
       DEF SupervisorInv, SourceInv, BudgetKept, PagesCounted, AtBoundary, CommittedUnfinished
  <2>2. CASE Pausing(s) \/ run[s].last # "continue"
    BY <1>1, <1>3, <1>6, <2>2, Ends DEF Recover
  <2>3. CASE ~Pausing(s) /\ run[s].last = "continue"
    <3>1. Rollover(s, lane[s]) \/ Settle(s, Requeued(s), Queued(lane[s]), source[s])
      BY <1>6, <2>3 DEF Recover
    <3> QED BY <1>1, <1>2, <1>3, <2>1, <2>3, <3>1, Rollovers, Requeues
  <2> QED BY <2>2, <2>3
<1> QED BY <1>4, <1>5, <1>6

LEMMA RequestKeeps ==
    ASSUME SupervisorInv, Kept, NEW s \in Sources, UNCHANGED turn, Request(s)
    PROVE  SupervisorInv'
<1>1. lane[s] \in LaneRows /\ ~lane[s].action /\ run[s].state \notin Alive
  BY DEF SupervisorInv, SupervisorTypeOK, Request, Requestable
<1>2. ~InFlight(s) /\ TurnsLeft(s)
  BY <1>1 DEF SupervisorInv, SourceInv, InFlightRuns, Alive, TurnsLeft
<1> QED BY <1>1, <1>2, Begins DEF Request

\* The lane is left, or it is quieted or restored under a turn that ends.
LaneLeft(s) ==
    \/ lane'[s].retry = lane[s].retry /\ lane'[s].cur = lane[s].cur
    \/ /\ failures[s] <= lane'[s].retry /\ (failures[s] > 0 => ~Blocked)
       /\ \A o \in Owners : epoch.n = o => turn'[o][s] = NoTurn

\* A step that leaves the run where it is.
LEMMA Touches ==
    ASSUME SupervisorInv, SupervisorTypeOK', Kept, NEW s \in Sources, TurnsLeft(s),
           \A x \in Sources : x # s => SameRows(x),
           run'[s] \in {run[s], [run[s] EXCEPT !.live = FALSE]},
           source'[s].cursor = source[s].cursor,
           lane'[s].action => lane[s].action, LaneLeft(s),
           \/ attempt'[s] = attempt[s] /\ failures'[s] = failures[s]
           \/ ~InFlight(s) /\ attempt'[s] = NoAttempt /\ failures'[s] = 0
    PROVE  SupervisorInv'
<1>1. /\ SupervisorTypeOK /\ SourceInv(s) /\ failures[s] \in Nat /\ lane[s].retry \in Nat
      /\ lane'[s].retry \in Nat /\ run[s] \in RunRows
      /\ epoch' = epoch /\ health' = health
  BY SupervisorAssumption DEF SupervisorInv, SupervisorTypeOK, Kept, LaneRows
<1>2. /\ run'[s].state = run[s].state /\ run'[s].claim = run[s].claim /\ run'[s].at = run[s].at
      /\ run'[s].from = run[s].from /\ run'[s].pages = run[s].pages
      /\ run'[s].counted = run[s].counted /\ run'[s].last = run[s].last
  BY <1>1 DEF RunRows
<1>3. /\ \A o \in Owners : turn'[o][s] \in {turn[o][s], NoTurn}
      /\ \A o \in Owners, x \in Sources : x # s => turn'[o][x] = turn[o][x]
  BY <1>1, TurnsLeftAre
<1>4. InFlightRuns(s)' /\ Claimable(s)' /\ CursorReads(s)' /\ PagesCounted(s)'
  BY <1>1, <1>2
     DEF SourceInv, InFlightRuns, InFlight, Claimable, CursorReads, PagesCounted, AtBoundary,
         NoAttempt, Alive
<1>5. BudgetKept(s)'
  BY <1>1, <1>2 DEF SourceInv, BudgetKept, AtBoundary, Uncounted, Blocked, LaneLeft
<1>6. ASSUME NEW o \in Owners PROVE TurnInv(o, s)'
  <2>1. TurnInv(o, s) /\ turn[o][s].retry \in Nat
    BY <1>1, SupervisorAssumption DEF SupervisorInv, SupervisorTypeOK, Turns
  <2>2. CASE turn'[o][s] = NoTurn
    BY <1>1, <2>1, <2>2 DEF TurnInv, Unclaimed, TurnInStep, TurnCounts, NoTurn
  <2>3. CASE turn'[o][s] = turn[o][s]
    <3>1. Unclaimed(o, s)'
      BY <1>1, <2>1, <2>3 DEF TurnInv, Unclaimed
    <3>2. epoch.n = o => TurnInStep(o, s)'
      BY <1>1, <1>2, <2>1, <2>3 DEF TurnInv, TurnInStep, Exact, InFlight, NoAttempt
    <3>3. epoch.n = o => TurnCounts(o, s)'
      BY <1>1, <1>2, <2>1, <2>3 DEF TurnInv, TurnCounts, Exact, Blocked, LaneLeft, NoTurn
    <3> QED BY <1>1, <3>1, <3>2, <3>3 DEF TurnInv
  <2> QED BY <1>3, <2>2, <2>3
<1>7. InFlight(s)' => InFlight(s) /\ attempt'[s].owner = attempt[s].owner
  BY DEF InFlight, NoAttempt
<1> QED BY <1>1, <1>3, <1>4, <1>5, <1>6, <1>7, OneSource DEF SourceInv

\* The owner's turn moves on, with every row left where it is.
LEMMA TurnMoves ==
    ASSUME SupervisorInv, Kept, UNCHANGED <<durable, failures>>,
           NEW o \in Owners, NEW s \in Sources, epoch.n = o,
           NEW p \in {"stale", "retryable", "source_action_required"}, Phase(o, s, p),
           turn[o][s].phase \notin {"idle", "called"},
           p = "retryable" => turn[o][s].phase = "captured"
    PROVE  SupervisorInv'
<1> DEFINE t == [turn[o][s] EXCEPT !.phase = p]
<1>1. /\ SupervisorTypeOK /\ turn[o][s] \in Turns /\ failures[s] \in Nat /\ TurnInv(o, s)
      /\ turn[o][s].retry \in Nat /\ epoch.n \in Nat
  BY SupervisorAssumption DEF SupervisorInv, SupervisorTypeOK, Turns
<1>2. /\ t \in Turns /\ t.phase = p /\ t.claim = turn[o][s].claim /\ t.retry = turn[o][s].retry
  BY <1>1 DEF Turns, TurnPhases
<1>3. SetTurn(o, s, t)
  BY DEF Phase
<1> HIDE DEF t
<1>4. /\ turn' \in [Owners -> [Sources -> Turns]] /\ turn'[o][s] = t
      /\ \A q \in Owners, x \in Sources : q # o \/ x # s => turn'[q][x] = turn[q][x]
  BY <1>1, <1>2, <1>3, TurnSet
<1>5. SupervisorTypeOK'
  BY <1>1, <1>4, GivenKept
     DEF SupervisorTypeOK, Kept, durable, LaneRows, Turns, Claims, Owners
<1>6. \A x \in Sources : SameRows(x)
  BY DEF SameRows, durable
<1>7. ~InFlight(s) /\ ~InFlight(s)'
  BY <1>1 DEF TurnInv, TurnInStep, InFlight, durable
<1>8. TurnInv(o, s)'
  <2>1. Unclaimed(o, s)'
    BY <1>1, <1>2, <1>4 DEF TurnInv, Unclaimed, Kept
  <2>2. TurnInStep(o, s)'
    BY <1>1, <1>2, <1>4, <1>7 DEF TurnInv, TurnInStep, Exact, durable
  <2>3. TurnCounts(o, s)'
    BY <1>1, <1>2, <1>4 DEF TurnInv, TurnCounts, durable
  <2> QED BY <2>1, <2>2, <2>3 DEF TurnInv
<1>9. ASSUME NEW q \in Owners PROVE TurnInv(q, s)'
  BY <1>4, <1>6, <1>8, TurnElsewhere DEF SupervisorInv, Kept
<1>10. SourceInv(s)'
  BY <1>6, Elsewhere DEF SupervisorInv, Kept
<1> QED BY <1>4, <1>5, <1>6, <1>7, <1>9, <1>10, OneSource DEF Kept

\* A process drops its turns, with every row left where it is.
LEMMA TurnsDrop ==
    ASSUME SupervisorInv, UNCHANGED <<durable, failures>>, SameGiven, NEW o \in Owners,
           NEW st \in OwnerStates, owner' = [owner EXCEPT ![o] = st], NoTurns(o)
    PROVE  SupervisorInv'
<1>1. SupervisorTypeOK /\ NoTurn \in Turns
  BY Rows DEF SupervisorInv
<1>2. /\ turn' \in [Owners -> [Sources -> Turns]] /\ owner' \in [Owners -> OwnerStates]
      /\ \A q \in Owners, x \in Sources : turn'[q][x] \in {turn[q][x], NoTurn}
  BY <1>1 DEF SupervisorTypeOK, NoTurns
<1>3. SupervisorTypeOK'
  BY <1>1, <1>2, GivenKept DEF SupervisorTypeOK, durable, LaneRows, Turns, Claims, Owners
<1>4. /\ epoch' = epoch /\ health' = health /\ \A x \in Sources : SameRows(x)
  BY DEF SameRows, durable
<1>5. /\ \A x \in Sources : SourceInv(x)'
      /\ \A q \in Owners, x \in Sources : TurnInv(q, x)'
  BY <1>2, <1>4, Elsewhere, TurnElsewhere DEF SupervisorInv
<1>6. OneEpochInFlight' /\ ReleasedIsDrained'
  BY DEF SupervisorInv, OneEpochInFlight, ReleasedIsDrained, InFlightOf, durable
<1> QED BY <1>3, <1>5, <1>6 DEF SupervisorInv

\* The epoch's row changes, but not which epoch it is.
LEMMA EpochMoves ==
    ASSUME SupervisorInv, UNCHANGED <<source, run, attempt, lane, health, turn, failures>>,
           SameGiven, owner' \in [Owners -> OwnerStates],
           epoch' \in [n : 0..MaxEpochs, state : EpochStates, live : BOOLEAN],
           epoch'.n = epoch.n,
           epoch'.state = "released" => epoch.state = "released" \/ InFlightOf(epoch.n) = {}
    PROVE  SupervisorInv'
<1>1. SupervisorTypeOK
  BY DEF SupervisorInv
<1>2. SupervisorTypeOK'
  BY <1>1, GivenKept DEF SupervisorTypeOK, LaneRows, Turns, Claims, Owners
<1>3. ASSUME NEW x \in Sources PROVE SourceInv(x)'
  BY DEF SupervisorInv, SourceInv, InFlightRuns, InFlight, Claimable, CursorReads, PagesCounted,
         AtBoundary, BudgetKept, Uncounted, Blocked
<1>4. ASSUME NEW o \in Owners, NEW x \in Sources PROVE TurnInv(o, x)'
  BY DEF SupervisorInv, TurnInv, Unclaimed, TurnInStep, TurnCounts, InFlight, Exact, Blocked
<1>5. OneEpochInFlight' /\ ReleasedIsDrained'
  BY DEF SupervisorInv, OneEpochInFlight, ReleasedIsDrained, InFlightOf
<1> QED BY <1>2, <1>3, <1>4, <1>5 DEF SupervisorInv

LEMMA AcquireKeeps ==
    ASSUME SupervisorInv, NEW o \in Owners, Acquire(o)
    PROVE  SupervisorInv'
<1>1. /\ SupervisorTypeOK /\ epoch.n \in Nat /\ MaxEpochs \in Nat /\ o = epoch.n + 1 /\ epoch'.n = o
      /\ epoch'.state = "active"
      /\ UNCHANGED <<source, run, attempt, lane, health, turn, given, failures>>
  BY SupervisorAssumption DEF SupervisorInv, SupervisorTypeOK, Acquire
<1>2. SupervisorTypeOK'
  <2>1. epoch' \in [n : 0..MaxEpochs, state : EpochStates, live : BOOLEAN]
    BY <1>1 DEF Acquire, EpochStates, Owners
  <2>2. owner' \in [Owners -> OwnerStates]
    BY <1>1 DEF Acquire, SupervisorTypeOK, OwnerStates
  <2> QED BY <1>1, <2>1, <2>2, GivenKept
          DEF SupervisorTypeOK, LaneRows, Turns, Claims, Owners, SameGiven
<1>3. ASSUME NEW x \in Sources PROVE SourceInv(x)'
  <2>1. \A n \in 1..epoch.n : n \in 1..o
    BY <1>1
  <2>2. InFlightRuns(x)'
    BY <1>1, <2>1 DEF SupervisorInv, SourceInv, InFlightRuns, InFlight
  <2> QED BY <1>1, <2>2
          DEF SupervisorInv, SourceInv, Claimable, CursorReads, PagesCounted, AtBoundary,
              BudgetKept, Uncounted, Blocked
<1>4. ASSUME NEW q \in Owners, NEW x \in Sources PROVE TurnInv(q, x)'
  <2>1. q > o => q > epoch.n
    BY <1>1 DEF Owners
  <2>2. Unclaimed(q, x)'
    BY <1>1, <2>1 DEF SupervisorInv, TurnInv, Unclaimed
  <2>3. o = q => turn[q][x] = NoTurn
    BY <1>1 DEF SupervisorInv, TurnInv, Unclaimed
  <2> QED BY <1>1, <2>2, <2>3 DEF TurnInv, TurnInStep, TurnCounts, NoTurn
<1>5. OneEpochInFlight' /\ ReleasedIsDrained'
  BY <1>1 DEF SupervisorInv, OneEpochInFlight, ReleasedIsDrained
<1> QED BY <1>2, <1>3, <1>4, <1>5 DEF SupervisorInv

-----------------------------------------------------------------------------
(***************************************************************************)
(* The steps of a turn.                                                    *)
(***************************************************************************)
LEMMA OneMore ==
    ASSUME NEW S, IsFiniteSet(S), NEW n \in Int, Cardinality(S) <= n, NEW x
    PROVE  IsFiniteSet(S \cup {x}) /\ Cardinality(S \cup {x}) <= n + 1
<1>1. Cardinality(S) \in Nat
  BY FS_CardinalityType
<1>2. /\ IsFiniteSet(S \cup {x})
      /\ Cardinality(S \cup {x}) = IF x \in S THEN Cardinality(S) ELSE Cardinality(S) + 1
  BY FS_AddElement
<1> QED BY <1>1, <1>2

\* The least claim token in use by nobody exists: the turns of the other epochs,
\* the run and the attempt leave one.
LEMMA FreshIsAClaim ==
    ASSUME SupervisorInv, NEW o \in Owners, NEW s \in Sources, turn[o][s].phase = "idle"
    PROVE  Fresh(s) \in Claims
<1> DEFINE others == Owners \ {o}
           f == [q \in others |-> turn[q][s].claim]
           T == {f[q] : q \in others}
           used == {turn[q][s].claim : q \in Owners} \cup {attempt[s].claim, run[s].claim}
           free == Claims \ used
<1>1. MaxEpochs \in Nat
  BY SupervisorAssumption
<1>2. turn[o][s].claim = 0
  BY DEF SupervisorInv, TurnInv, Unclaimed, NoTurn
<1>3. /\ IsFiniteSet(Owners) /\ Cardinality(Owners) = MaxEpochs
      /\ IsFiniteSet(Claims) /\ Cardinality(Claims) = MaxEpochs + 2
  <2>1. IsFiniteSet(1..MaxEpochs) /\ Cardinality(1..MaxEpochs) = MaxEpochs
    BY <1>1, FS_Interval
  <2>2. IsFiniteSet(1..MaxEpochs + 2) /\ Cardinality(1..MaxEpochs + 2) = MaxEpochs + 2
    BY <1>1, FS_Interval
  <2> QED BY <2>1, <2>2 DEF Owners, Claims
<1>4. IsFiniteSet(others) /\ Cardinality(others) = MaxEpochs - 1
  BY <1>3, FS_RemoveElement
<1>5. f \in Surjection(others, T)
  BY DEF Surjection
<1>6. IsFiniteSet(T) /\ Cardinality(T) <= MaxEpochs - 1
  <2> HIDE DEF f, T, others
  <2> QED BY <1>4, <1>5, FS_Surjection
<1> DEFINE U == (T \cup {attempt[s].claim}) \cup {run[s].claim}
<1>7. IsFiniteSet(U) /\ Cardinality(U) <= MaxEpochs + 1
  <2> HIDE DEF T
  <2> DEFINE V == T \cup {attempt[s].claim}
  <2>1. IsFiniteSet(V) /\ Cardinality(V) <= (MaxEpochs - 1) + 1
    <3>1. MaxEpochs - 1 \in Int
      BY <1>1
    <3> QED BY <1>6, <3>1, OneMore
  <2> HIDE DEF V
  <2>2. IsFiniteSet(V \cup {run[s].claim}) /\ Cardinality(V \cup {run[s].claim}) <= MaxEpochs + 1
    <3>1. Cardinality(V) <= MaxEpochs /\ MaxEpochs \in Int
      BY <1>1, <2>1
    <3> QED BY <2>1, <3>1, OneMore
  <2> QED BY <2>2 DEF V
<1>8. Claims \cap used \subseteq U
  <2>1. 0 \notin Claims
    BY <1>1 DEF Claims
  <2> QED BY <1>2, <2>1
<1>9. free # {}
  <2> SUFFICES ASSUME Claims \subseteq U PROVE FALSE
    BY <1>8
  <2>1. Cardinality(Claims) <= Cardinality(U) /\ Cardinality(U) \in Nat
    BY <1>7, FS_Subset, FS_CardinalityType
  <2> QED BY <1>1, <1>3, <1>7, <2>1
<1>10. free \in SUBSET Nat
  BY <1>1 DEF Claims
<1> HIDE DEF free
<1>11. \E m \in free : \A k \in free : m <= k
  <2>1. PICK m \in free : \A k \in free : ~(<<k, m>> \in OpToRel(<, Nat))
    BY <1>9, <1>10, WFMin, NatLessThanWellFounded
  <2>2. ASSUME NEW k \in free PROVE m <= k
    <3>1. ~(k < m)
      BY <1>10, <2>1 DEF OpToRel
    <3> QED BY <1>10, <3>1
  <2> QED BY <2>2
<1>12. (CHOOSE m \in free : \A k \in free : m <= k) \in free
  BY <1>11
<1> QED BY <1>12 DEF free, Fresh

\* What the owner's turn says, in every step of a turn.
LEMMA OwnersTurn ==
    ASSUME SupervisorInv, NEW o \in Owners, NEW s \in Sources, Owns(o)
    PROVE  /\ SupervisorTypeOK /\ epoch.n = o /\ epoch.state = "active" /\ o \in Nat
           /\ SourceInv(s) /\ TurnInv(o, s) /\ TurnInStep(o, s) /\ TurnCounts(o, s)
           /\ turn[o][s] \in Turns /\ turn[o][s].retry \in 0..MaximumAttempts
           /\ turn[o][s].claim \in {0} \cup Claims /\ turn[o][s].gen \in 0..MaxGeneration
           /\ run[s] \in RunRows /\ lane[s] \in LaneRows /\ source[s] \in SourceRows
           /\ attempt[s] \in AttemptRows /\ failures[s] \in Nat
           /\ run[s].pages \in Nat /\ run[s].counted \in Nat /\ lane[s].retry \in Nat
           /\ MaximumAttempts \in Nat /\ MaximumCommittedPages \in Nat \ {0}
           /\ given.pages \in Nat
<1>1. SupervisorTypeOK /\ epoch.n = o /\ epoch.state = "active" /\ TurnInv(o, s) /\ SourceInv(s)
  BY DEF Owns, SupervisorInv
<1>2. /\ MaximumAttempts \in Nat /\ MaximumCommittedPages \in Nat \ {0}
      /\ given.pages \in Nat /\ o \in Nat
  BY <1>1, SupervisorAssumption DEF SupervisorTypeOK, Owners
<1>3. /\ turn[o][s] \in Turns /\ run[s] \in RunRows /\ lane[s] \in LaneRows
      /\ source[s] \in SourceRows /\ attempt[s] \in AttemptRows /\ failures[s] \in Nat
  BY <1>1 DEF SupervisorTypeOK
<1> QED BY <1>1, <1>2, <1>3 DEF TurnInv, Turns, RunRows, LaneRows

\* A run read at a page its claim has not committed.
LEMMA ReadsNext ==
    ASSUME SupervisorInv, NEW o \in Owners, NEW s \in Sources, Owns(o), Exact(o, s),
           turn[o][s].phase \in {"claimed", "called", "captured", "retryable"}
    PROVE  /\ AtBoundary(s) /\ run[s].state = "running"
           /\ run[s].pages = run[s].counted /\ run[s].pages < MaximumCommittedPages
           /\ run[s].pages > 0 => run[s].last = "continue"
<1>1. /\ TurnInStep(o, s) /\ SourceInv(s) /\ run[s].pages \in Nat /\ run[s].state = "running"
  BY OwnersTurn DEF Exact
<1>2. run[s].pages = run[s].counted
  BY <1>1 DEF TurnInStep
<1>3. AtBoundary(s)
  BY <1>1, <1>2 DEF AtBoundary
<1> QED BY <1>1, <1>2, <1>3 DEF SourceInv, PagesCounted

LEMMA FinishPageTurnKeeps ==
    ASSUME SupervisorInv, NEW o \in Owners, NEW s \in Sources, FinishPageTurn(o, s)
    PROVE  SupervisorInv'
<1>1. Owns(o) /\ turn[o][s].phase \in Finishing
  BY DEF FinishPageTurn
<1>2. /\ SupervisorTypeOK /\ epoch.n = o /\ SourceInv(s) /\ TurnInStep(o, s) /\ TurnCounts(o, s)
      /\ run[s] \in RunRows /\ lane[s] \in LaneRows /\ source[s] \in SourceRows
      /\ failures[s] \in Nat /\ run[s].pages \in Nat
      /\ turn[o][s].retry \in 0..MaximumAttempts /\ MaximumAttempts \in Nat
  BY <1>1, OwnersTurn
<1>3. /\ Queued(lane[s]) \in LaneRows /\ ~Queued(lane[s]).action /\ Queued(lane[s]).cur
      /\ Quiet(lane[s]) \in LaneRows /\ ActionRequired(lane[s]) \in LaneRows
      /\ Paused(s) \in SourceRows
  BY <1>2, LaneFields, Rows
<1>4. [source[s] EXCEPT !.due = FALSE] \in SourceRows
  BY <1>2 DEF SourceRows
<1>5. Kept /\ ~InFlight(s) /\ turn[o][s].phase \notin {"idle", "called"}
  BY <1>1, <1>2 DEF FinishPageTurn, Kept, SameGiven, TurnInStep, Finishing
<1>6. {"incomplete", "failed", "succeeded"} \subseteq RunStates \ Alive
  BY DEF RunStates, Alive
<1>7. Idle(o, s) => TurnsLeft(s)
  BY DEF TurnsLeft
<1>8. ASSUME Phase(o, s, "stale"), UNCHANGED <<run, lane, source, attempt, failures>>
      PROVE  SupervisorInv'
  BY <1>2, <1>5, <1>8, TurnMoves DEF durable, Kept
<1>9. CASE ~ExactLive(o, s)
  BY <1>8, <1>9 DEF FinishPageTurn
<1>10. CASE ExactLive(o, s) /\ Pausing(s)
  BY <1>2, <1>3, <1>5, <1>6, <1>7, <1>10, Ends DEF FinishPageTurn
<1>11. CASE ExactLive(o, s) /\ ~Pausing(s)
  <2>1. FinishOutcome(o, s) /\ Exact(o, s) /\ run[s].state = "running"
    BY <1>11 DEF FinishPageTurn, ExactLive, Exact
  <2>2. CASE turn[o][s].phase = "committed" /\ run[s].last = "poll_after"
    <3>1. Settle(s, NoRun("succeeded"), Quiet(lane[s]), [source[s] EXCEPT !.due = FALSE])
          /\ Idle(o, s)
      BY <2>1, <2>2 DEF FinishOutcome
    <3> QED BY <1>3, <1>4, <1>5, <1>6, <1>7, <3>1, Ends
  <2>3. CASE turn[o][s].phase = "committed" /\ run[s].last = "continue"
    <3>1. failures[s] = 0 /\ run[s].pages > 0
      BY <1>2, <2>3 DEF TurnCounts, SourceInv, PagesCounted
    <3>2. \/ Settle(s, Requeued(s), Queued(lane[s]), source[s]) /\ Idle(o, s)
          \/ Settle(s, NewRun(source[s].cursor), Queued(lane[s]), source[s]) /\ Idle(o, s)
          \/ Phase(o, s, "stale") /\ UNCHANGED <<run, lane, source, attempt, failures>>
      BY <2>1, <2>3 DEF FinishOutcome
    <3>3. CASE Settle(s, Requeued(s), Queued(lane[s]), source[s]) /\ Idle(o, s)
      BY <1>3, <1>5, <1>7, <2>1, <2>3, <3>1, <3>3, Requeues
    <3>4. CASE Settle(s, NewRun(source[s].cursor), Queued(lane[s]), source[s]) /\ Idle(o, s)
      BY <1>3, <1>5, <1>7, <3>1, <3>4, Begins
    <3> QED BY <1>8, <3>2, <3>3, <3>4
  <2>4. CASE turn[o][s].phase = "retryable" /\ turn[o][s].retry + 1 <= MaximumAttempts
    <3> DEFINE n == turn[o][s].retry + 1
    <3>1. n \in 0..MaximumAttempts /\ failures[s] <= n
      BY <1>2, <2>4 DEF TurnCounts
    <3>2. Settle(s, Requeued(s), Waiting(lane[s], n), source[s]) /\ Idle(o, s)
      BY <1>2, <2>1, <2>4 DEF FinishOutcome, Waiting
    <3> HIDE DEF n
    <3>3. run[s].pages > 0 => run[s].last = "continue"
      BY <1>1, <2>1, <2>4, ReadsNext
    <3>4. Waiting(lane[s], n) \in LaneRows /\ Waiting(lane[s], n).retry = n
          /\ ~Waiting(lane[s], n).action /\ Waiting(lane[s], n).cur
      BY <1>2, <3>1, LaneSet
    <3> QED BY <1>5, <1>7, <2>1, <3>1, <3>2, <3>3, <3>4, Requeues
  <2>5. CASE \/ turn[o][s].phase = "source_action_required"
             \/ turn[o][s].phase = "retryable" /\ turn[o][s].retry + 1 > MaximumAttempts
    <3>1. Settle(s, NoRun("failed"), ActionRequired(lane[s]), source[s]) /\ Idle(o, s)
      BY <1>2, <2>1, <2>5 DEF FinishOutcome
    <3> QED BY <1>2, <1>3, <1>5, <1>6, <1>7, <3>1, Ends
  <2> QED BY <2>1, <2>2, <2>3, <2>4, <2>5 DEF FinishOutcome
<1> QED BY <1>9, <1>10, <1>11

LEMMA FinishFencedKeeps ==
    ASSUME SupervisorInv, NEW o \in Owners, NEW s \in Sources, FinishFenced(o, s)
    PROVE  SupervisorInv'
<1>1. Owns(o) /\ turn[o][s].phase = "stale" /\ Idle(o, s) /\ TurnsLeft(s)
  BY DEF FinishFenced, TurnsLeft
<1>2. /\ SupervisorTypeOK /\ TurnInStep(o, s) /\ lane[s] \in LaneRows /\ source[s] \in SourceRows
  BY <1>1, OwnersTurn
<1>3. /\ Quiet(lane[s]) \in LaneRows /\ ConnectionBlocked(lane[s]) \in LaneRows
      /\ StaleLane(s) \in LaneRows /\ Paused(s) \in SourceRows
  BY <1>2, LaneFields, Rows
<1>4. Kept /\ ~InFlight(s) /\ {"incomplete", "failed"} \subseteq RunStates \ Alive
  BY <1>1, <1>2 DEF FinishFenced, Kept, SameGiven, TurnInStep, RunStates, Alive
<1>5. CASE ~ExactLive(o, s)
  <2>1. UNCHANGED <<run, lane, source, attempt, failures>>
    BY <1>5 DEF FinishFenced
  <2>2. SupervisorTypeOK'
    BY <1>1, <1>2, <1>4, <2>1, TurnsLeftAre, GivenKept
       DEF Kept, SupervisorTypeOK, LaneRows, Turns, Claims, Owners
  <2> QED BY <1>1, <1>4, <2>1, <2>2, Touches DEF SameRows, LaneLeft
<1>6. CASE ExactLive(o, s)
  <2>1. \/ Settle(s, NoRun("incomplete"), ConnectionBlocked(lane[s]), source[s])
        \/ Settle(s, NoRun("incomplete"), Quiet(lane[s]), Paused(s))
        \/ Settle(s, NoRun("failed"), StaleLane(s), source[s])
    BY <1>6 DEF FinishFenced
  <2> QED BY <1>1, <1>2, <1>3, <1>4, <2>1, Ends
<1> QED BY <1>5, <1>6

LEMMA ReleaseUnstartedKeeps ==
    ASSUME SupervisorInv, NEW o \in Owners, NEW s \in Sources, ReleaseUnstarted(o, s)
    PROVE  SupervisorInv'
<1>1. /\ Owns(o) /\ turn[o][s].phase = "claimed" /\ Idle(o, s) /\ TurnsLeft(s)
      /\ UNCHANGED <<epoch, owner, health>>
  BY DEF ReleaseUnstarted, TurnsLeft
<1>2. /\ SupervisorTypeOK /\ TurnInStep(o, s) /\ TurnCounts(o, s) /\ epoch.n = o
      /\ run[s] \in RunRows /\ lane[s] \in LaneRows /\ source[s] \in SourceRows
      /\ failures[s] \in Nat /\ run[s].pages \in Nat
      /\ turn[o][s].retry \in 0..MaximumAttempts /\ MaximumAttempts \in Nat
  BY <1>1, OwnersTurn
<1>3. /\ Quiet(lane[s]) \in LaneRows /\ ConnectionBlocked(lane[s]) \in LaneRows
      /\ ~ConnectionBlocked(lane[s]).action /\ Paused(s) \in SourceRows
  BY <1>2, LaneFields, Rows
<1>4. ConnectionBlocked(lane[s]).retry = 0
  <2>1. Quiet(lane[s]) \in LaneRows /\ Quiet(lane[s]).retry = 0
    BY <1>2, LaneFields
  <2> QED BY <2>1 DEF ConnectionBlocked, LaneRows
<1>5. Kept /\ ~InFlight(s) /\ "incomplete" \in RunStates \ Alive
  BY <1>1, <1>2 DEF ReleaseUnstarted, Kept, SameGiven, TurnInStep, RunStates, Alive
<1>6. turn'[o][s] = NoTurn
  BY <1>2, Rows, TurnSet, <1>1 DEF Idle
<1> DEFINE l == Released(lane[s], turn[o][s].retry)
<1>7. l \in LaneRows /\ ~l.action /\ l.cur /\ l.retry = turn[o][s].retry
  BY <1>2, LaneSet
<1>8. /\ failures[s] <= turn[o][s].retry
      /\ Blocked => failures[s] = 0
  BY <1>1, <1>2 DEF TurnCounts
<1>9. ASSUME NEW e \in LaneRows, ~e.action, failures[s] <= e.retry,
             failures[s] > 0 => ~Blocked, Settle(s, run[s], e, source[s])
      PROVE  SupervisorInv'
  <2>1. SupervisorTypeOK'
    BY <1>1, <1>2, <1>5, <1>9, SettleTyped
  <2>2. /\ run'[s] = run[s] /\ lane'[s] = e /\ source'[s] = source[s]
        /\ \A x \in Sources : x # s => SameRows(x)
        /\ \/ attempt'[s] = attempt[s] /\ failures'[s] = failures[s]
           \/ attempt'[s] = NoAttempt /\ failures'[s] = 0
    BY <1>2, <1>5, <1>9, SettleRows
  <2>3. LaneLeft(s)
    BY <1>2, <1>6, <1>9, <2>2 DEF LaneLeft
  <2> QED BY <1>1, <1>5, <1>9, <2>1, <2>2, <2>3, Touches
<1>10. CASE Exact(o, s)
  <2>1. /\ run[s].state = "running" /\ (run[s].pages > 0 => run[s].last = "continue")
    BY <1>1, <1>10, ReadsNext
  <2>2. \/ Settle(s, NoRun("incomplete"), ConnectionBlocked(lane[s]), source[s])
        \/ Settle(s, NoRun("incomplete"), Quiet(lane[s]), Paused(s))
        \/ Settle(s, Requeued(s), l, source[s])
    BY <1>10 DEF ReleaseUnstarted, Released
  <2> HIDE DEF l
  <2> QED BY <1>1, <1>2, <1>3, <1>5, <1>7, <1>8, <2>1, <2>2, Ends, Requeues
<1>11. CASE ~Exact(o, s)
  <2>1. \/ Blocked /\ Settle(s, run[s], ConnectionBlocked(lane[s]), source[s])
        \/ UNCHANGED <<run, lane, source, attempt, failures>>
        \/ ~Blocked /\ Settle(s, run[s], l, source[s])
    BY <1>11 DEF ReleaseUnstarted, Released
  <2> HIDE DEF l
  <2>2. CASE UNCHANGED <<run, lane, source, attempt, failures>>
    <3>1. SupervisorTypeOK'
      BY <1>1, <1>2, <1>5, <2>2, TurnsLeftAre, GivenKept
         DEF Kept, SupervisorTypeOK, LaneRows, Turns, Claims, Owners
    <3> QED BY <1>1, <1>5, <2>2, <3>1, Touches DEF SameRows, LaneLeft
  <2>3. CASE Blocked /\ Settle(s, run[s], ConnectionBlocked(lane[s]), source[s])
    BY <1>3, <1>4, <1>8, <1>9, <2>3
  <2>4. CASE ~Blocked /\ Settle(s, run[s], l, source[s])
    BY <1>7, <1>8, <1>9, <2>4
  <2> QED BY <2>1, <2>2, <2>3, <2>4
<1> QED BY <1>10, <1>11

\* The turn of the owner at s moves, the rows of s change, nothing else does.
LEMMA OneTurn ==
    ASSUME SupervisorInv, Kept, NEW o \in Owners, NEW s \in Sources, epoch.n = o,
           NEW t \in Turns, t.phase # "idle", SetTurn(o, s, t),
           \A x \in Sources : x # s => SameRows(x),
           run' \in [Sources -> RunRows], source' \in [Sources -> SourceRows],
           lane' \in [Sources -> LaneRows], attempt' \in [Sources -> AttemptRows],
           failures' \in [Sources -> Nat],
           SourceInv(s)',
           turn'[o][s] = t => TurnInStep(o, s)' /\ TurnCounts(o, s)'
    PROVE  /\ SupervisorTypeOK' /\ turn'[o][s] = t
           /\ \A p \in Owners, x \in Sources : x # s => turn'[p][x] = turn[p][x]
           /\ \A x \in Sources : SourceInv(x)'
           /\ \A p \in Owners, x \in Sources : TurnInv(p, x)'
<1>1. SupervisorTypeOK /\ epoch.n \in Nat
  BY DEF SupervisorInv, SupervisorTypeOK
<1>2. /\ turn' \in [Owners -> [Sources -> Turns]] /\ turn'[o][s] = t
      /\ \A p \in Owners, x \in Sources : p # o \/ x # s => turn'[p][x] = turn[p][x]
  BY <1>1, TurnSet
<1>3. SupervisorTypeOK'
  BY <1>1, <1>2, GivenKept DEF SupervisorTypeOK, Kept, LaneRows, Turns, Claims, Owners
<1>4. \A x \in Sources : SourceInv(x)'
  BY Elsewhere DEF SupervisorInv, Kept
<1>5. ASSUME NEW p \in Owners, NEW x \in Sources PROVE TurnInv(p, x)'
  <2>1. CASE x # s
    BY <1>2, <2>1, TurnElsewhere DEF SupervisorInv, Kept
  <2>2. CASE x = s /\ p # o
    BY <1>2, <2>2 DEF SupervisorInv, TurnInv, Unclaimed, Kept
  <2>3. CASE x = s /\ p = o
    BY <1>1, <1>2, <2>3 DEF TurnInv, Unclaimed, Kept
  <2> QED BY <2>1, <2>2, <2>3
<1> QED BY <1>2, <1>3, <1>4, <1>5

LEMMA BeginKeeps ==
    ASSUME SupervisorInv, NEW o \in Owners, NEW s \in Sources, Begin(o, s)
    PROVE  SupervisorInv'
<1> DEFINE t == [turn[o][s] EXCEPT !.phase = "called"]
<1>1. /\ Owns(o) /\ turn[o][s].phase = "claimed" /\ Exact(o, s) /\ ~Blocked
      /\ \A r \in Sources : InFlight(r) => ~(attempt[r].owner < o)
      /\ attempt' = [attempt EXCEPT ![s] = Began(o, s)] /\ SetTurn(o, s, t)
      /\ UNCHANGED <<epoch, owner, source, run, lane, health, given, failures>>
  BY DEF Begin, Admissible, ExactLive, InFlight, Phase
<1>2. /\ SupervisorTypeOK /\ epoch.n = o /\ epoch.state = "active" /\ o \in Nat
      /\ SourceInv(s) /\ TurnInStep(o, s) /\ TurnCounts(o, s)
      /\ turn[o][s] \in Turns /\ run[s] \in RunRows /\ failures[s] \in Nat
      /\ run[s].pages \in Nat /\ run[s].counted \in Nat /\ lane[s].retry \in Nat
      /\ turn[o][s].claim \in {0} \cup Claims /\ turn[o][s].gen \in 0..MaxGeneration
      /\ MaximumCommittedPages \in Nat
  BY <1>1, OwnersTurn
<1>3. /\ run[s].state = "running" /\ run[s].pages = run[s].counted
      /\ run[s].pages < MaximumCommittedPages /\ run[s].claim = turn[o][s].claim
  BY <1>1, ReadsNext DEF Exact
<1>4. /\ t \in Turns /\ t.phase = "called" /\ t.claim = turn[o][s].claim /\ t.retry = turn[o][s].retry
  BY <1>2 DEF Turns, TurnPhases
<1> HIDE DEF t
<1>5. /\ Began(o, s) \in AttemptRows
      /\ Began(o, s).state = "in_flight" /\ Began(o, s).owner = o
      /\ Began(o, s).claim = turn[o][s].claim /\ Began(o, s).page = run[s].pages + 1
      /\ Began(o, s).at = run[s].at
  <2>1. /\ o \in 0..MaxEpochs /\ run[s].pages + 1 \in 0..MaximumCommittedPages
        /\ run[s].at \in 0..given.pages /\ 0 \in 0..MaxGeneration
    BY <1>2, <1>3, SupervisorAssumption DEF Owners, RunRows
  <2> QED BY <1>2, <2>1 DEF Began, AttemptRows, AttemptStates
<1>6. /\ attempt' \in [Sources -> AttemptRows] /\ attempt'[s] = Began(o, s)
      /\ \A x \in Sources : x # s => SameRows(x)
  BY <1>1, <1>2, <1>5 DEF SupervisorTypeOK, SameRows
<1>7. SourceInv(s)'
  <2>1. o \in 1..epoch.n
    BY <1>2 DEF Owners
  <2>2. failures[s] <= lane[s].retry
    BY <1>1, <1>2 DEF TurnCounts
  <2>3. InFlightRuns(s)'
    BY <1>1, <1>3, <1>5, <1>6, <2>1 DEF InFlightRuns, InFlight
  <2>4. Claimable(s)' /\ CursorReads(s)' /\ PagesCounted(s)'
    BY <1>1, <1>2 DEF SourceInv, Claimable, CursorReads, PagesCounted, AtBoundary
  <2>5. BudgetKept(s)'
    BY <1>1, <1>2, <1>3, <1>5, <1>6, <2>2 DEF BudgetKept, AtBoundary, Uncounted, Blocked
  <2> QED BY <2>3, <2>4, <2>5 DEF SourceInv
<1>8. ASSUME turn'[o][s] = t PROVE TurnInStep(o, s)' /\ TurnCounts(o, s)'
  <2>1. TurnInStep(o, s)'
    BY <1>1, <1>3, <1>4, <1>5, <1>6, <1>8 DEF TurnInStep, InFlight, Exact
  <2>2. TurnCounts(o, s)'
    BY <1>1, <1>2, <1>4, <1>8 DEF TurnCounts
  <2> QED BY <2>1, <2>2
<1>9. /\ SupervisorTypeOK' /\ \A x \in Sources : SourceInv(x)'
      /\ \A p \in Owners, x \in Sources : TurnInv(p, x)'
  BY <1>1, <1>2, <1>4, <1>6, <1>7, <1>8, OneTurn DEF Kept, SameGiven, SupervisorTypeOK
<1>10. \A r \in Sources : InFlight(r)' => attempt'[r].owner = o
  <2> SUFFICES ASSUME NEW r \in Sources, r # s, InFlight(r) PROVE attempt[r].owner = o
    BY <1>5, <1>6 DEF SameRows, InFlight
  <2>1. attempt[r].owner \in 1..o
    BY <1>2 DEF SupervisorInv, SourceInv, InFlightRuns
  <2> QED BY <1>1, <1>2, <2>1
<1>11. OneEpochInFlight' /\ ReleasedIsDrained'
  BY <1>1, <1>2, <1>10 DEF OneEpochInFlight, ReleasedIsDrained, InFlight
<1> QED BY <1>9, <1>11 DEF SupervisorInv

LEMMA TerminalizeKeeps ==
    ASSUME SupervisorInv, NEW o \in Owners, NEW s \in Sources, NEW outcome \in Outcomes,
           Terminalize(o, s, outcome)
    PROVE  SupervisorInv'
<1> DEFINE p == IF outcome = "cancelled" THEN "stale" ELSE outcome
           t == [turn[o][s] EXCEPT !.phase = p]
           n == IF outcome = "retryable" THEN failures[s] + 1
                ELSE IF outcome = "captured" THEN 0 ELSE failures[s]
<1>1. /\ Owns(o) /\ turn[o][s].phase = "called"
      /\ outcome \in {"captured", "retryable", "source_action_required", "cancelled"}
      /\ attempt' = [attempt EXCEPT ![s].state = outcome] /\ SetTurn(o, s, t)
      /\ failures' = [failures EXCEPT ![s] = n]
      /\ UNCHANGED <<epoch, owner, source, run, lane, health, given>>
  BY DEF Terminalize, Phase, Outcomes
<1>2. /\ SupervisorTypeOK /\ epoch.n = o
      /\ SourceInv(s) /\ TurnInStep(o, s) /\ TurnCounts(o, s)
      /\ turn[o][s] \in Turns /\ run[s] \in RunRows /\ attempt[s] \in AttemptRows
      /\ failures[s] \in Nat /\ run[s].pages \in Nat /\ run[s].counted \in Nat
      /\ lane[s].retry \in Nat /\ turn[o][s].retry \in 0..MaximumAttempts /\ MaximumAttempts \in Nat
  BY <1>1, OwnersTurn
<1>3. /\ InFlight(s) /\ run[s].state = "running" /\ Exact(o, s)
      /\ run[s].at = attempt[s].at /\ run[s].pages + 1 = attempt[s].page
  BY <1>1, <1>2 DEF TurnInStep, SourceInv, InFlightRuns, Exact
<1>4. run[s].pages = run[s].counted
  BY <1>1, <1>3, ReadsNext
<1>5. /\ p \in {"captured", "retryable", "source_action_required", "stale"}
      /\ p = "captured" <=> outcome = "captured"
      /\ p = "retryable" <=> outcome = "retryable"
  BY <1>1
<1> HIDE DEF p
<1>6. /\ t \in Turns /\ t.phase = p /\ t.claim = turn[o][s].claim /\ t.retry = turn[o][s].retry
  BY <1>2, <1>5 DEF Turns, TurnPhases
<1>7. /\ n \in Nat /\ (outcome = "retryable" => n = failures[s] + 1)
      /\ outcome = "captured" => n = 0
      /\ outcome \notin {"retryable", "captured"} => n = failures[s]
  BY <1>2
<1> HIDE DEF t, n
<1>8. /\ attempt'[s].state = outcome /\ attempt'[s].at = attempt[s].at
      /\ attempt'[s].page = attempt[s].page /\ attempt' \in [Sources -> AttemptRows]
  <2>1. [attempt[s] EXCEPT !.state = outcome] \in AttemptRows
    BY <1>1, <1>2 DEF AttemptRows, AttemptStates
  <2>2. attempt' = [attempt EXCEPT ![s] = [attempt[s] EXCEPT !.state = outcome]]
    BY <1>1
  <2>3. attempt'[s] = [attempt[s] EXCEPT !.state = outcome]
    BY <1>2, <2>2 DEF SupervisorTypeOK
  <2>4. attempt' \in [Sources -> AttemptRows]
    BY <1>2, <2>1, <2>2 DEF SupervisorTypeOK
  <2> QED BY <1>2, <2>3, <2>4 DEF AttemptRows
<1>9. /\ failures' \in [Sources -> Nat] /\ failures'[s] = n
      /\ \A x \in Sources : x # s => SameRows(x)
  BY <1>1, <1>2, <1>7 DEF SupervisorTypeOK, SameRows
<1>10. SourceInv(s)'
  <2>1. InFlightRuns(s)' /\ Claimable(s)' /\ CursorReads(s)' /\ PagesCounted(s)'
    BY <1>1, <1>2, <1>8
       DEF SourceInv, InFlightRuns, InFlight, Claimable, CursorReads, PagesCounted, AtBoundary
  <2>2. failures[s] > 0 => failures[s] <= lane[s].retry /\ ~Blocked
    BY <1>2, <1>3 DEF SourceInv, BudgetKept, Uncounted, InFlight
  <2>3. BudgetKept(s)'
    BY <1>1, <1>2, <1>3, <1>4, <1>7, <1>8, <1>9, <2>2
       DEF BudgetKept, AtBoundary, Uncounted, Blocked
  <2> QED BY <2>1, <2>3 DEF SourceInv
<1>11. ASSUME turn'[o][s] = t PROVE TurnInStep(o, s)' /\ TurnCounts(o, s)'
  <2>1. TurnInStep(o, s)'
    BY <1>1, <1>4, <1>5, <1>6, <1>8, <1>11 DEF TurnInStep, InFlight
  <2>2. failures[s] <= turn[o][s].retry
    BY <1>1, <1>2 DEF TurnCounts
  <2>3. TurnCounts(o, s)'
    BY <1>2, <1>5, <1>6, <1>7, <1>9, <1>11, <2>2 DEF TurnCounts
  <2> QED BY <2>1, <2>3
<1>12. /\ SupervisorTypeOK' /\ \A x \in Sources : SourceInv(x)'
       /\ \A q \in Owners, x \in Sources : x # s => turn'[q][x] = turn[q][x]
       /\ \A q \in Owners, x \in Sources : TurnInv(q, x)'
  <2>1. /\ run' \in [Sources -> RunRows] /\ source' \in [Sources -> SourceRows]
        /\ lane' \in [Sources -> LaneRows]
    BY <1>1, <1>2 DEF SupervisorTypeOK
  <2>2. Kept /\ t.phase # "idle"
    BY <1>1, <1>5, <1>6 DEF Kept, SameGiven
  <2> QED BY <1>1, <1>2, <1>6, <1>8, <1>9, <1>10, <1>11, <2>1, <2>2, OneTurn
<1>13. ~InFlight(s)'
  BY <1>1, <1>8 DEF InFlight
<1> QED BY <1>1, <1>9, <1>12, <1>13, OneSource

LEMMA CommitPageKeeps ==
    ASSUME SupervisorInv, NEW o \in Owners, NEW s \in Sources,
           NEW c \in {"continue", "poll_after"}, CommitPage(o, s, c)
    PROVE  SupervisorInv'
<1> DEFINE t == [turn[o][s] EXCEPT !.phase = "committed"]
           next == source[s].cursor + IF c = "continue" THEN 1 ELSE 0
           src == [IF source[s].pausing THEN Paused(s) ELSE source[s] EXCEPT !.cursor = next]
           r == [run[s] EXCEPT !.at = next, !.pages = run[s].pages + 1, !.last = c]
<1>1. /\ Owns(o) /\ turn[o][s].phase = "captured" /\ Exact(o, s)
      /\ attempt[s].state = "captured" /\ run[s].at = source[s].cursor
      /\ c = "continue" => source[s].cursor < given.pages
      /\ source' = [source EXCEPT ![s] = src]
      /\ run' = [run EXCEPT ![s] = r] /\ SetTurn(o, s, t)
      /\ UNCHANGED <<epoch, owner, attempt, lane, health, given, failures>>
  BY DEF CommitPage, PageOwned, ExactLive, Phase
<1>2. /\ SupervisorTypeOK /\ epoch.n = o
      /\ SourceInv(s) /\ TurnInStep(o, s) /\ TurnCounts(o, s)
      /\ turn[o][s] \in Turns /\ run[s] \in RunRows /\ source[s] \in SourceRows
      /\ run[s].pages \in Nat /\ given.pages \in Nat /\ MaximumCommittedPages \in Nat
  BY <1>1, OwnersTurn
<1>3. /\ run[s].state = "running" /\ run[s].pages = run[s].counted
      /\ run[s].pages < MaximumCommittedPages
  BY <1>1, ReadsNext
<1>4. failures[s] = 0
  BY <1>1, <1>2 DEF TurnCounts
<1>5. t \in Turns /\ t.phase = "committed"
  BY <1>2 DEF Turns, TurnPhases
<1>6. next \in 0..given.pages /\ source[s].cursor <= next
  <2>1. source[s].cursor \in 0..given.pages
    BY <1>2 DEF SourceRows
  <2> QED BY <1>1, <1>2, <2>1
<1>7. src \in SourceRows /\ src.cursor = next
  <2> HIDE DEF next
  <2>1. (IF source[s].pausing THEN Paused(s) ELSE source[s]) \in SourceRows
    BY <1>2, Rows
  <2> QED BY <1>6, <2>1 DEF SourceRows
<1>8. /\ r \in RunRows /\ r.state = "running" /\ r.at = next /\ r.pages = run[s].pages + 1
      /\ r.counted = run[s].counted /\ r.from = run[s].from
  <2> HIDE DEF next
  <2>1. run[s].pages + 1 \in 0..MaximumCommittedPages
    BY <1>2, <1>3
  <2>2. r.state = "running" /\ r.at = next /\ r.pages = run[s].pages + 1
        /\ r.counted = run[s].counted /\ r.from = run[s].from
    BY <1>2, <1>3 DEF RunRows
  <2>3. r \in RunRows
    BY <1>2, <1>6, <2>1, Zenon DEF RunRows
  <2> QED BY <2>2, <2>3
<1> HIDE DEF t, next, src, r
<1>9. /\ run' \in [Sources -> RunRows] /\ run'[s] = r
      /\ source' \in [Sources -> SourceRows] /\ source'[s] = src
      /\ \A x \in Sources : x # s => SameRows(x)
  BY <1>1, <1>2, <1>7, <1>8 DEF SupervisorTypeOK, SameRows
<1>10. ~InFlight(s) /\ ~InFlight(s)'
  BY <1>1 DEF InFlight
<1>11. SourceInv(s)'
  <2>1. run[s].from \in Nat /\ run[s].at \in Nat /\ next \in Nat
    BY <1>2, <1>6 DEF RunRows
  <2>2. run[s].from <= run[s].at
    BY <1>2, <1>3 DEF SourceInv, CursorReads, Alive
  <2>3. CursorReads(s)'
    BY <1>1, <1>6, <1>7, <1>8, <1>9, <2>1, <2>2 DEF CursorReads
  <2>4. ~AtBoundary(s)'
    BY <1>2, <1>3, <1>8, <1>9 DEF AtBoundary
  <2>5. PagesCounted(s)'
    BY <1>2, <1>8, <1>9, <2>4 DEF PagesCounted
  <2> QED BY <1>1, <1>4, <1>8, <1>9, <1>10, <2>3, <2>5
          DEF SourceInv, InFlightRuns, Claimable, BudgetKept
<1>12. ASSUME turn'[o][s] = t PROVE TurnInStep(o, s)' /\ TurnCounts(o, s)'
  BY <1>1, <1>4, <1>5, <1>10, <1>12 DEF TurnInStep, TurnCounts
<1>13. /\ SupervisorTypeOK' /\ \A x \in Sources : SourceInv(x)'
       /\ \A q \in Owners, x \in Sources : x # s => turn'[q][x] = turn[q][x]
       /\ \A q \in Owners, x \in Sources : TurnInv(q, x)'
  <2>1. /\ lane' \in [Sources -> LaneRows] /\ attempt' \in [Sources -> AttemptRows]
        /\ failures' \in [Sources -> Nat]
    BY <1>1, <1>2 DEF SupervisorTypeOK
  <2>2. Kept /\ t.phase # "idle"
    BY <1>1, <1>5 DEF Kept, SameGiven
  <2> QED BY <1>1, <1>2, <1>5, <1>9, <1>11, <1>12, <2>1, <2>2, OneTurn
<1> QED BY <1>1, <1>9, <1>10, <1>13, OneSource

LEMMA ClaimNextKeeps ==
    ASSUME SupervisorInv, NEW o \in Owners, NEW s \in Sources, ClaimNext(o, s)
    PROVE  SupervisorInv'
<1>1. /\ Owns(o) /\ turn[o][s].phase = "idle" /\ run[s].state = "queued"
      /\ UNCHANGED <<epoch, owner, health, given>>
  BY DEF ClaimNext
<1>2. /\ SupervisorTypeOK /\ epoch.n = o /\ SourceInv(s)
      /\ run[s] \in RunRows /\ lane[s] \in LaneRows /\ source[s] \in SourceRows
      /\ attempt[s] \in AttemptRows /\ failures[s] \in Nat
      /\ run[s].pages \in Nat /\ lane[s].retry \in Nat /\ MaximumCommittedPages \in Nat \ {0}
  BY <1>1, OwnersTurn
<1>3. Kept /\ ~InFlight(s) /\ AtBoundary(s)
  BY <1>1, <1>2 DEF Kept, SameGiven, SourceInv, InFlightRuns, AtBoundary
<1>4. PICK elapsed \in BOOLEAN :
         \/ /\ run[s].last = "continue" /\ Rolls(s, elapsed)
            /\ Rollover(s, lane[s]) /\ UNCHANGED turn
         \/ /\ ~(run[s].last = "continue" /\ Rolls(s, elapsed))
            /\ ~Blocked
            /\ Settle(s, [run[s] EXCEPT !.state = "running", !.claim = Fresh(s),
                                        !.live = TRUE, !.counted = run[s].pages],
                      [lane[s] EXCEPT !.action = FALSE, !.wait = FALSE, !.cur = TRUE],
                      source[s])
            /\ SetTurn(o, s, [phase |-> "claimed", claim |-> Fresh(s),
                              gen |-> health.gen, retry |-> lane[s].retry])
         \/ Settle(s, NoRun("failed"), StaleLane(s), source[s]) /\ UNCHANGED turn
  BY DEF ClaimNext
<1>5. CASE run[s].last = "continue" /\ Rollover(s, lane[s]) /\ UNCHANGED turn
  <2>1. run[s].pages > 0
    BY <1>2, <1>5 DEF SourceInv, PagesCounted
  <2> QED BY <1>3, <1>5, <2>1, Rollovers DEF TurnsLeft
<1>6. CASE Settle(s, NoRun("failed"), StaleLane(s), source[s]) /\ UNCHANGED turn
  <2>1. "failed" \in RunStates \ Alive /\ StaleLane(s) \in LaneRows
    BY <1>2, Rows DEF RunStates, Alive
  <2> QED BY <1>2, <1>3, <1>6, <2>1, Ends DEF TurnsLeft
<1> DEFINE f == Fresh(s)
           r == [run[s] EXCEPT !.state = "running", !.claim = f,
                               !.live = TRUE, !.counted = run[s].pages]
           l == [lane[s] EXCEPT !.action = FALSE, !.wait = FALSE, !.cur = TRUE]
           t == [phase |-> "claimed", claim |-> f, gen |-> health.gen, retry |-> lane[s].retry]
<1>7. CASE /\ ~(run[s].last = "continue" /\ Rolls(s, elapsed)) /\ ~Blocked
           /\ Settle(s, r, l, source[s]) /\ SetTurn(o, s, t)
  <2>1. f \in Claims
    BY <1>1, FreshIsAClaim
  <2>2. run[s].pages \in 0..MaximumCommittedPages /\ TRUE \in BOOLEAN /\ FALSE \in BOOLEAN
        /\ "running" \in RunStates /\ f \in {0} \cup Claims
    BY <1>2, <2>1 DEF RunRows, RunStates
  <2> HIDE DEF f
  <2>3. r \in RunRows /\ l \in LaneRows
    BY <1>2, <2>2, Zenon DEF RunRows, LaneRows
  <2>4. /\ r.state = "running" /\ r.claim = f /\ r.counted = run[s].pages
        /\ r.pages = run[s].pages /\ r.at = run[s].at /\ r.from = run[s].from /\ r.last = run[s].last
    BY <1>2 DEF RunRows
  <2>5. ~l.action /\ l.retry = lane[s].retry
    BY <1>2 DEF LaneRows
  <2>6. t \in Turns /\ t.phase = "claimed" /\ t.claim = f /\ t.retry = lane[s].retry
    BY <1>2, <2>2 DEF Turns, TurnPhases, SupervisorTypeOK, LaneRows
  <2> HIDE DEF r, l, t
  <2>7. /\ run'[s] = r /\ lane'[s] = l /\ source'[s] = source[s]
        /\ \A x \in Sources : x # s => SameRows(x)
        /\ attempt'[s] = attempt[s] /\ failures'[s] = failures[s]
    BY <1>2, <1>7, <2>4, SettleRows DEF Alive
  <2>8. /\ run' \in [Sources -> RunRows] /\ lane' \in [Sources -> LaneRows]
        /\ source' \in [Sources -> SourceRows] /\ attempt' \in [Sources -> AttemptRows]
        /\ failures' \in [Sources -> Nat]
    BY <1>2, <1>7, <2>3, Rows DEF SupervisorTypeOK, Settle
  <2>9. /\ run[s].pages < MaximumCommittedPages
        /\ run[s].pages > 0 => run[s].last = "continue"
    BY <1>2, <1>3, <1>7 DEF SourceInv, PagesCounted, Rolls
  <2>10. failures[s] > 0 => /\ attempt[s].state \notin {"none", "captured"}
                            /\ attempt[s].page = run[s].pages + 1 /\ attempt[s].at = run[s].at
                            /\ failures[s] <= lane[s].retry
    BY <1>1, <1>2 DEF SourceInv, BudgetKept, Uncounted
  <2>11. SourceInv(s)'
    <3>1. InFlightRuns(s)' /\ Claimable(s)' /\ CursorReads(s)'
      BY <1>1, <1>2, <1>3, <2>4, <2>5, <2>7
         DEF SourceInv, InFlightRuns, InFlight, Claimable, CursorReads, Alive
    <3>2. PagesCounted(s)'
      BY <1>2, <2>4, <2>7, <2>9 DEF SourceInv, PagesCounted
    <3>3. BudgetKept(s)'
      BY <1>1, <1>2, <1>7, <2>4, <2>5, <2>7, <2>10
         DEF BudgetKept, AtBoundary, Uncounted, Blocked
    <3> QED BY <3>1, <3>2, <3>3 DEF SourceInv
  <2>12. ASSUME turn'[o][s] = t PROVE TurnInStep(o, s)' /\ TurnCounts(o, s)'
    BY <1>1, <1>2, <1>3, <1>7, <2>4, <2>5, <2>6, <2>7, <2>10, <2>12
       DEF TurnInStep, TurnCounts, InFlight, Blocked
  <2>13. /\ SupervisorTypeOK' /\ \A x \in Sources : SourceInv(x)'
         /\ \A q \in Owners, x \in Sources : x # s => turn'[q][x] = turn[q][x]
         /\ \A q \in Owners, x \in Sources : TurnInv(q, x)'
    BY <1>2, <1>3, <1>7, <2>6, <2>7, <2>8, <2>11, <2>12, OneTurn
  <2>14. ~InFlight(s)'
    BY <1>3, <2>7 DEF InFlight
  <2> QED BY <1>1, <2>7, <2>13, <2>14, OneSource
<1> QED BY <1>4, <1>5, <1>6, <1>7

-----------------------------------------------------------------------------
(***************************************************************************)
(* Episodes: every source of the profile at once.                          *)
(***************************************************************************)
LEMMA ProfileBlocks ==
    ASSUME SupervisorInv, NEW s \in Sources, NEW own \in {{}, {s}}, NEW e \in 0..MaxGeneration,
           NEW a \in AttemptRows, a.state # "in_flight",
           BlockProfile(e, own, [x \in {s} |-> a]),
           health' \in [gen : 0..MaxGeneration, episode : 0..MaxGeneration],
           UNCHANGED <<epoch, owner, source, given>>, TurnsLeft(s),
           \A o \in Owners : epoch.n = o => turn'[o][s].phase # "called"
    PROVE  SupervisorInv'
<1>1. SupervisorTypeOK /\ NoRun("incomplete") \in RunRows /\ NoAttempt \in AttemptRows
  BY Rows DEF SupervisorInv, RunStates
<1>2. ASSUME NEW x \in Sources
      PROVE  /\ run'[x] \in {run[x], NoRun("incomplete")}
             /\ run'[x].state # "queued"
             /\ run[x].state # "queued" /\ x # s => run'[x] = run[x] /\ attempt'[x] = attempt[x]
             /\ attempt'[x] \in {attempt[x], NoAttempt, a} /\ attempt'[s] = a
             /\ lane'[x] = [lane[x] EXCEPT !.action = FALSE, !.cur = FALSE, !.blockedBy = e]
             /\ failures'[x] = 0
  <2>1. /\ run'[x] = IF run[x].state = "queued" \/ x \in own THEN NoRun("incomplete") ELSE run[x]
        /\ lane'[x] = [lane[x] EXCEPT !.action = FALSE, !.cur = FALSE, !.blockedBy = e]
        /\ failures'[x] = 0
    BY DEF BlockProfile
  <2>2. /\ attempt'[x] = IF x = s THEN a
                         ELSE IF run[x].state = "queued" THEN NoAttempt ELSE attempt[x]
        /\ attempt'[s] = a
    BY DEF BlockProfile
  <2>3. NoRun("incomplete").state = "incomplete"
    BY DEF NoRun
  <2> QED BY <2>1, <2>2, <2>3
<1>3. /\ turn' \in [Owners -> [Sources -> Turns]]
      /\ \A p \in Owners, x \in Sources : turn'[p][x] \in {turn[p][x], NoTurn}
  BY <1>1, TurnsLeftAre
<1>4. ASSUME NEW x \in Sources PROVE lane'[x] \in LaneRows
  <2>1. lane[x] \in LaneRows /\ FALSE \in BOOLEAN
    BY <1>1 DEF SupervisorTypeOK
  <2>2. [lane[x] EXCEPT !.action = FALSE, !.cur = FALSE, !.blockedBy = e] \in LaneRows
    BY <2>1, Zenon DEF LaneRows
  <2> QED BY <1>2, <2>2
<1>5. SupervisorTypeOK'
  <2>1. /\ run' \in [Sources -> RunRows] /\ attempt' \in [Sources -> AttemptRows]
        /\ lane' \in [Sources -> LaneRows] /\ failures' \in [Sources -> Nat]
    BY <1>1, <1>2, <1>4 DEF BlockProfile, SupervisorTypeOK
  <2> QED BY <1>1, <1>3, <2>1, GivenKept
          DEF SupervisorTypeOK, SameGiven, LaneRows, Turns, Claims, Owners
<1>6. ASSUME NEW x \in Sources, attempt'[x].state = "in_flight"
      PROVE  x # s /\ run'[x] = run[x] /\ attempt'[x] = attempt[x]
  <2>1. x # s /\ attempt[x].state = "in_flight"
    BY <1>2, <1>6 DEF NoAttempt, BlockProfile
  <2>2. run[x].state = "running"
    BY <2>1 DEF SupervisorInv, SourceInv, InFlightRuns, InFlight
  <2> QED BY <1>2, <2>1, <2>2
<1>7. ASSUME NEW x \in Sources PROVE SourceInv(x)'
  <2>1. SourceInv(x)
    BY DEF SupervisorInv
  <2>2. InFlightRuns(x)'
    BY <1>6, <2>1 DEF SourceInv, InFlightRuns, InFlight
  <2>3. CASE run'[x] = NoRun("incomplete")
    <3>1. run'[x].state = "incomplete" /\ run'[x].last = "none"
      BY <2>3 DEF NoRun
    <3>2. Claimable(x)' /\ CursorReads(x)' /\ PagesCounted(x)'
      BY <3>1 DEF Claimable, CursorReads, PagesCounted, AtBoundary, Alive
    <3>3. failures'[x] = 0
      BY <1>2
    <3>4. BudgetKept(x)'
      BY <3>3 DEF BudgetKept
    <3> QED BY <2>2, <3>2, <3>4 DEF SourceInv
  <2>4. CASE run'[x] = run[x]
    <3>1. Claimable(x)' /\ CursorReads(x)' /\ PagesCounted(x)'
      BY <1>2, <2>1, <2>4 DEF SourceInv, Claimable, CursorReads, PagesCounted, AtBoundary
    <3>2. failures'[x] = 0
      BY <1>2
    <3>3. BudgetKept(x)'
      BY <3>2 DEF BudgetKept
    <3> QED BY <2>2, <3>1, <3>3 DEF SourceInv
  <2> QED BY <1>2, <2>3, <2>4
<1>8. ASSUME NEW o \in Owners, NEW x \in Sources PROVE TurnInv(o, x)'
  <2>1. TurnInv(o, x) /\ Unclaimed(o, x)'
    BY <1>3 DEF SupervisorInv, TurnInv, Unclaimed
  <2>2. turn'[o][x].retry \in Nat /\ lane'[x].retry \in Nat
    BY <1>3, <1>4, SupervisorAssumption DEF Turns, LaneRows
  <2>3. TurnCounts(o, x)'
    <3>1. failures'[x] = 0
      BY <1>2
    <3> QED BY <2>2, <3>1 DEF TurnCounts
  <2>4. ASSUME epoch.n = o PROVE TurnInStep(o, x)'
    <3>1. CASE turn'[o][x] = NoTurn
      BY <3>1 DEF TurnInStep, NoTurn
    <3>2. CASE turn'[o][x] = turn[o][x]
      <4>1. InFlight(x)' => turn'[o][x].phase \in {"idle", "called"}
        BY <1>6, <2>1, <2>4, <3>2 DEF TurnInv, TurnInStep, InFlight
      <4>2. turn'[o][x].phase = "called" => x # s /\ InFlight(x) /\ run[x].state = "running"
        BY <2>1, <2>4, <3>2
           DEF TurnInv, TurnInStep, SupervisorInv, SourceInv, InFlightRuns
      <4>3. turn'[o][x].phase = "called" => attempt'[x] = attempt[x]
        BY <1>2, <4>2
      <4>4. Exact(o, x)' => run'[x] = run[x] /\ Exact(o, x)
        <5>1. NoRun("incomplete").state = "incomplete"
          BY DEF NoRun
        <5>2. run'[x] = run[x] \/ run'[x].state = "incomplete"
          BY <1>2, <5>1
        <5> QED BY <3>2, <5>2 DEF Exact
      <4> QED BY <2>1, <2>4, <3>2, <4>1, <4>2, <4>3, <4>4 DEF TurnInv, TurnInStep, InFlight
    <3> QED BY <1>3, <3>1, <3>2
  <2> QED BY <2>1, <2>3, <2>4 DEF TurnInv
<1>9. OneEpochInFlight' /\ ReleasedIsDrained'
  BY <1>6 DEF SupervisorInv, OneEpochInFlight, ReleasedIsDrained, InFlightOf
<1> QED BY <1>5, <1>7, <1>8, <1>9 DEF SupervisorInv

LEMMA ReconcileKeeps ==
    ASSUME SupervisorInv, NEW o \in Owners, NEW s \in Sources, Reconcile(o, s)
    PROVE  SupervisorInv'
<1>1. /\ Owns(o) /\ InFlight(s) /\ attempt[s].owner < o
      /\ UNCHANGED <<epoch, owner, source, turn, given>>
  BY DEF Reconcile, InFlight
<1>2. /\ SupervisorTypeOK /\ SourceInv(s) /\ TurnInStep(o, s) /\ attempt[s] \in AttemptRows
      /\ epoch.n = o /\ o \in Nat /\ health.episode \in 0..MaxGeneration /\ health.gen \in 0..MaxGeneration
  BY <1>1, OwnersTurn DEF SupervisorTypeOK
<1>3. turn[o][s].phase # "called" /\ MaxGeneration \in Nat
  BY <1>1, <1>2, SupervisorAssumption DEF TurnInStep
<1> DEFINE a(e) == [attempt[s] EXCEPT !.state = "uncertain", !.episode = e]
<1>4. ASSUME NEW e \in 0..MaxGeneration
      PROVE  a(e) \in AttemptRows /\ a(e).state = "uncertain"
  <2>1. "uncertain" \in AttemptStates
    BY DEF AttemptStates
  <2>2. a(e) \in AttemptRows
    BY <1>2, <2>1, Zenon DEF AttemptRows
  <2> QED BY <1>2, <2>2 DEF AttemptRows
<1>5. CASE Blocked
  <2>1. /\ attempt' = [attempt EXCEPT ![s] = a(health.episode)]
        /\ UNCHANGED <<run, lane, health, failures>>
    BY <1>5 DEF Reconcile
  <2> HIDE DEF a
  <2>2. attempt' \in [Sources -> AttemptRows] /\ attempt'[s] = a(health.episode)
        /\ \A x \in Sources : x # s => SameRows(x)
    BY <1>1, <1>2, <1>4, <2>1 DEF SupervisorTypeOK, SameRows
  <2>3. SupervisorTypeOK'
    BY <1>1, <1>2, <2>1, <2>2, GivenKept
       DEF SupervisorTypeOK, SameGiven, LaneRows, Turns, Claims, Owners
  <2>4. ~InFlight(s)'
    BY <1>2, <1>4, <2>2 DEF InFlight
  <2>5. failures[s] = 0
    BY <1>1, <1>2, <1>5 DEF SupervisorTypeOK, SourceInv, BudgetKept, InFlight
  <2>6. SourceInv(s)'
    BY <1>1, <1>2, <2>1, <2>4, <2>5
       DEF SourceInv, InFlightRuns, Claimable, CursorReads, PagesCounted, AtBoundary, BudgetKept
  <2>7. ASSUME NEW q \in Owners PROVE TurnInv(q, s)'
    BY <1>1, <1>2, <1>3, <2>1, <2>4
       DEF SupervisorInv, TurnInv, Unclaimed, TurnInStep, TurnCounts, Exact, Blocked
  <2> QED BY <1>1, <2>1, <2>2, <2>3, <2>4, <2>6, <2>7, OneSource
<1>6. CASE ~Blocked
  <2> DEFINE e == health.gen + 1
  <2>1. e \in 0..MaxGeneration /\ health' = [gen |-> e, episode |-> e]
    BY <1>2, <1>3, <1>6 DEF Reconcile
  <2>2. BlockProfile(e, {}, [x \in {s} |-> a(e)])
    BY <1>6 DEF Reconcile, BlockProfile
  <2> HIDE DEF e, a
  <2>3. a(e) \in AttemptRows /\ a(e).state # "in_flight"
    BY <1>4, <2>1
  <2>4. \A q \in Owners : epoch.n = q => turn'[q][s].phase # "called"
    BY <1>1, <1>2, <1>3
  <2> QED BY <1>1, <2>1, <2>2, <2>3, <2>4, ProfileBlocks DEF TurnsLeft
<1> QED BY <1>5, <1>6

LEMMA BlockingKeeps ==
    ASSUME SupervisorInv, NEW o \in Owners, NEW s \in Sources, Blocking(o, s)
    PROVE  SupervisorInv'
<1> DEFINE e == IF Blocked THEN health.episode ELSE health.gen + 1
<1>1. /\ Owns(o) /\ health' = IF Blocked THEN health ELSE [gen |-> e, episode |-> e]
      /\ Blocked \/ health.gen < MaxGeneration
      /\ BlockProfile(e, {s}, [x \in {s} |-> NoAttempt]) /\ Idle(o, s)
      /\ UNCHANGED <<epoch, owner, source, given>>
  BY DEF Blocking
<1>2. /\ SupervisorTypeOK /\ epoch.n = o /\ MaxGeneration \in Nat
      /\ health \in [gen : 0..MaxGeneration, episode : 0..MaxGeneration]
  BY <1>1, OwnersTurn, SupervisorAssumption DEF SupervisorTypeOK
<1>3. e \in 0..MaxGeneration /\ health' \in [gen : 0..MaxGeneration, episode : 0..MaxGeneration]
  BY <1>1, <1>2
<1> HIDE DEF e
<1>4. turn'[o][s] = NoTurn /\ NoAttempt \in AttemptRows
  <2>1. NoTurn \in Turns /\ NoAttempt \in AttemptRows
    BY <1>2, Rows
  <2> QED BY <1>1, <1>2, <2>1, TurnSet DEF Idle
<1>5. NoAttempt.state # "in_flight" /\ TurnsLeft(s) /\ {s} \in {{}, {s}}
  BY <1>1 DEF NoAttempt, TurnsLeft
<1>6. \A p \in Owners : epoch.n = p => turn'[p][s].phase # "called"
  BY <1>2, <1>4 DEF NoTurn
<1> QED BY <1>1, <1>3, <1>4, <1>5, <1>6, ProfileBlocks

LEMMA RecoveryTestKeeps ==
    ASSUME SupervisorInv, NEW o \in Owners, RecoveryTest(o)
    PROVE  SupervisorInv'
<1> DEFINE resumed == {s \in Sources : Eligible(s)}
           freed == {s \in Sources \ resumed :
                       lane[s].blockedBy = health.episode /\ ~lane[s].cur}
           q(s) == [Queued(lane[s]) EXCEPT !.blockedBy = 0]
           f(s) == [Quiet(lane[s]) EXCEPT !.blockedBy = 0]
<1>1. /\ SameGiven /\ Blocked /\ health.gen < MaxGeneration
      /\ \A s \in resumed : run[s].state \notin Alive
      /\ health' = [gen |-> health.gen + 1, episode |-> 0]
      /\ run' = [s \in Sources |-> IF s \in resumed THEN NewRun(source[s].cursor) ELSE run[s]]
      /\ lane' = [s \in Sources |-> IF s \in resumed THEN q(s)
                                    ELSE IF s \in freed THEN f(s) ELSE lane[s]]
      /\ UNCHANGED <<epoch, owner, source, attempt, turn, failures>>
  BY DEF RecoveryTest, SameGiven
<1>2. /\ SupervisorTypeOK /\ MaxGeneration \in Nat /\ given.pages \in Nat
  BY SupervisorAssumption DEF SupervisorInv, SupervisorTypeOK
<1>3. ASSUME NEW s \in Sources
      PROVE  /\ q(s) \in LaneRows /\ ~q(s).action
             /\ f(s) \in LaneRows /\ ~f(s).action /\ f(s).retry = 0
  <2>1. lane[s] \in LaneRows /\ 0 \in 0..MaxGeneration
    BY <1>2 DEF SupervisorTypeOK
  <2>2. /\ Queued(lane[s]) \in LaneRows /\ ~Queued(lane[s]).action
        /\ Quiet(lane[s]) \in LaneRows /\ ~Quiet(lane[s]).action /\ Quiet(lane[s]).retry = 0
    BY <1>2, <2>1, LaneFields
  <2> QED BY <2>1, <2>2 DEF LaneRows
<1>4. ASSUME NEW s \in Sources
      PROVE  LET r == NewRun(source[s].cursor)
             IN  /\ r \in RunRows /\ r.state = "queued" /\ r.at = source[s].cursor
                 /\ r.from = r.at /\ r.pages = 0 /\ r.last = "none" /\ r.at \in Nat
  <2>1. source[s].cursor \in 0..given.pages
    BY <1>2 DEF SupervisorTypeOK, SourceRows
  <2>2. NewRun(source[s].cursor) \in RunRows
    BY <1>2, <2>1, Rows
  <2> QED BY <1>2, <2>1, <2>2 DEF NewRun, NoRun
<1> HIDE DEF q, f
<1>5. /\ health' \in [gen : 0..MaxGeneration, episode : 0..MaxGeneration] /\ ~Blocked'
  BY <1>1, <1>2 DEF SupervisorTypeOK, Blocked
<1>6. SupervisorTypeOK'
  <2>1. run' \in [Sources -> RunRows] /\ lane' \in [Sources -> LaneRows]
    BY <1>1, <1>2, <1>3, <1>4 DEF SupervisorTypeOK
  <2> QED BY <1>1, <1>2, <1>5, <2>1, GivenKept
          DEF SupervisorTypeOK, LaneRows, Turns, Claims, Owners
<1>7. ASSUME NEW s \in Sources
      PROVE  /\ SourceInv(s) /\ failures[s] \in Nat /\ lane[s].retry \in Nat
             /\ s \in resumed => run'[s] = NewRun(source[s].cursor) /\ lane'[s] = q(s)
                                 /\ failures[s] = 0 /\ ~InFlight(s)
             /\ s \in freed => run'[s] = run[s] /\ lane'[s] = f(s)
             /\ s \notin resumed /\ s \notin freed => run'[s] = run[s] /\ lane'[s] = lane[s]
  <2>1. /\ SourceInv(s) /\ failures[s] \in Nat /\ lane[s].retry \in Nat
    BY <1>2, SupervisorAssumption DEF SupervisorInv, SupervisorTypeOK, LaneRows
  <2>2. s \in resumed => failures[s] = 0 /\ ~InFlight(s)
    BY <1>1, <2>1 DEF SourceInv, BudgetKept, AtBoundary, InFlightRuns, Alive
  <2> QED BY <1>1, <2>1, <2>2
<1>8. ASSUME NEW s \in Sources PROVE SourceInv(s)'
  <2>1. CASE s \in resumed
    BY <1>1, <1>3, <1>4, <1>7, <2>1
       DEF SourceInv, InFlightRuns, InFlight, Claimable, CursorReads, PagesCounted, AtBoundary,
           BudgetKept
  <2>2. CASE s \in freed
    <3>1. failures[s] > 0 => /\ failures[s] = 1 /\ Uncounted(s) /\ ~lane[s].cur
      BY <1>1, <1>7, <2>2 DEF SourceInv, BudgetKept, AtBoundary, Uncounted
    <3> QED BY <1>1, <1>3, <1>5, <1>7, <2>2, <3>1
            DEF SourceInv, InFlightRuns, InFlight, Claimable, CursorReads, PagesCounted,
                AtBoundary, BudgetKept, Uncounted
  <2>3. CASE s \notin resumed /\ s \notin freed
    BY <1>1, <1>5, <1>7, <2>3
       DEF SourceInv, InFlightRuns, InFlight, Claimable, CursorReads, PagesCounted,
           AtBoundary, BudgetKept, Uncounted
  <2> QED BY <2>1, <2>2, <2>3
<1>9. ASSUME NEW p \in Owners, NEW s \in Sources PROVE TurnInv(p, s)'
  <2>1. TurnInv(p, s)
    BY DEF SupervisorInv
  <2>2. Unclaimed(p, s)'
    BY <1>1, <2>1 DEF TurnInv, Unclaimed
  <2>3. Exact(p, s)' => run'[s] = run[s] /\ Exact(p, s)
    BY <1>1, <1>4, <1>7 DEF Exact
  <2>4. epoch.n = p => TurnInStep(p, s)'
    BY <1>1, <2>1, <2>3 DEF TurnInv, TurnInStep, InFlight
  <2>5. epoch.n = p => TurnCounts(p, s)'
    <3>1. failures[s] \in Nat /\ lane'[s].retry \in Nat
      BY <1>6, <1>7, SupervisorAssumption DEF SupervisorTypeOK, LaneRows
    <3> QED BY <1>1, <1>5, <2>1, <3>1 DEF TurnInv, TurnCounts
  <2> QED BY <1>1, <2>2, <2>4, <2>5 DEF TurnInv
<1>10. OneEpochInFlight' /\ ReleasedIsDrained'
  BY <1>1 DEF SupervisorInv, OneEpochInFlight, ReleasedIsDrained, InFlightOf
<1> QED BY <1>6, <1>8, <1>9, <1>10 DEF SupervisorInv

-----------------------------------------------------------------------------
(***************************************************************************)
(* Operators and the clock.                                                *)
(***************************************************************************)
\* A settlement that leaves the run and the lane.
LEMMA SourceSettles ==
    ASSUME SupervisorInv, Kept, UNCHANGED turn, NEW s \in Sources, NEW src \in SourceRows,
           src.cursor = source[s].cursor, Settle(s, run[s], lane[s], src)
    PROVE  SupervisorInv'
<1>1. /\ SupervisorTypeOK /\ run[s] \in RunRows /\ lane[s] \in LaneRows /\ run[s].pages \in Nat
      /\ TurnsLeft(s)
  BY DEF SupervisorInv, SupervisorTypeOK, RunRows, TurnsLeft
<1>2. SupervisorTypeOK'
  BY <1>1, SettleTyped
<1>3. /\ run'[s] = run[s] /\ lane'[s] = lane[s] /\ source'[s] = src
      /\ \A x \in Sources : x # s => SameRows(x)
      /\ \/ attempt'[s] = attempt[s] /\ failures'[s] = failures[s]
         \/ ~InFlight(s) /\ attempt'[s] = NoAttempt /\ failures'[s] = 0
  BY <1>1, SettleRows
<1> QED BY <1>1, <1>2, <1>3, Touches DEF LaneLeft

LEMMA RequestPauseKeeps ==
    ASSUME SupervisorInv, NEW s \in Sources, RequestPause(s)
    PROVE  SupervisorInv'
<1>1. Kept /\ UNCHANGED turn /\ TurnsLeft(s)
  BY DEF RequestPause, Kept, SameGiven, TurnsLeft
<1>2. /\ SupervisorTypeOK /\ lane[s] \in LaneRows /\ source[s] \in SourceRows
      /\ Paused(s) \in SourceRows /\ SourceInv(s)
  BY Rows DEF SupervisorInv, SupervisorTypeOK
<1> DEFINE src == IF run[s].state = "running" THEN [source[s] EXCEPT !.pausing = TRUE] ELSE Paused(s)
<1>3. src \in SourceRows /\ src.cursor = source[s].cursor
  BY <1>2 DEF SourceRows, Paused
<1> HIDE DEF src
<1>4. Settle(s, IF run[s].state = "queued" THEN NoRun("incomplete") ELSE run[s], lane[s], src)
  BY DEF RequestPause, src
<1>5. CASE run[s].state = "queued"
  <2>1. ~InFlight(s) /\ "incomplete" \in RunStates \ Alive
    BY <1>2, <1>5 DEF SourceInv, InFlightRuns, RunStates, Alive
  <2> QED BY <1>1, <1>2, <1>3, <1>4, <1>5, <2>1, Ends
<1>6. CASE run[s].state # "queued"
  BY <1>1, <1>3, <1>4, <1>6, SourceSettles
<1> QED BY <1>5, <1>6

LEMMA DisableKeeps ==
    ASSUME SupervisorInv, NEW s \in Sources, Disable(s)
    PROVE  SupervisorInv'
<1>1. Kept /\ UNCHANGED turn /\ TurnsLeft(s)
  BY DEF Disable, Kept, SameGiven, TurnsLeft
<1>2. /\ SupervisorTypeOK /\ lane[s] \in LaneRows /\ source[s] \in SourceRows /\ SourceInv(s)
  BY DEF SupervisorInv, SupervisorTypeOK
<1> DEFINE src == [source[s] EXCEPT !.state = "disabled", !.pausing = FALSE]
           ends == \/ run[s].state = "queued"
                   \/ run[s].state = "running" /\ attempt[s].state # "in_flight"
<1>3. src \in SourceRows /\ src.cursor = source[s].cursor
  BY <1>2 DEF SourceRows
<1> HIDE DEF src
<1>4. Settle(s, IF ends THEN NoRun("failed") ELSE run[s], lane[s], src)
  BY DEF Disable, src
<1>5. CASE ends
  <2>1. ~InFlight(s) /\ "failed" \in RunStates \ Alive
    BY <1>2, <1>5 DEF SourceInv, InFlightRuns, InFlight, RunStates, Alive
  <2> QED BY <1>1, <1>2, <1>3, <1>4, <1>5, <2>1, Ends
<1>6. CASE ~ends
  BY <1>1, <1>3, <1>4, <1>6, SourceSettles
<1> QED BY <1>5, <1>6

\* Resume, a source that comes due, a retry whose time has come and a claim
\* whose lease has run out.
LEMMA ClockKeeps ==
    ASSUME SupervisorInv, NEW s \in Sources,
           Resume(s) \/ ComesDue(s) \/ RetryComesDue(s) \/ ClaimLeaseExpires(s) \/ ClaimStalls(s)
    PROVE  SupervisorInv'
<1>1. /\ Kept /\ UNCHANGED <<turn, attempt, failures>> /\ TurnsLeft(s)
      /\ \/ \E src \in SourceRows : /\ src.cursor = source[s].cursor /\ UNCHANGED <<run, lane>>
                                   /\ source' = [source EXCEPT ![s] = src]
         \/ \E l \in LaneRows : /\ l.action = lane[s].action /\ l.retry = lane[s].retry
                               /\ l.cur = lane[s].cur /\ UNCHANGED <<run, source>>
                               /\ lane' = [lane EXCEPT ![s] = l]
         \/ \E r \in RunRows : /\ r = [run[s] EXCEPT !.live = FALSE] /\ UNCHANGED <<source, lane>>
                              /\ run' = [run EXCEPT ![s] = r]
  <2>1. /\ source[s] \in SourceRows /\ lane[s] \in LaneRows /\ run[s] \in RunRows
        /\ TRUE \in BOOLEAN /\ FALSE \in BOOLEAN
    BY DEF SupervisorInv, SupervisorTypeOK
  <2>2. CASE Resume(s) \/ ComesDue(s)
    <3>1. PICK src \in {[source[s] EXCEPT !.state = "active", !.pausing = FALSE, !.due = TRUE],
                        [source[s] EXCEPT !.due = TRUE]} : source' = [source EXCEPT ![s] = src]
      BY <2>2 DEF Resume, ComesDue
    <3>2. /\ [source[s] EXCEPT !.state = "active", !.pausing = FALSE, !.due = TRUE] \in SourceRows
          /\ [source[s] EXCEPT !.due = TRUE] \in SourceRows
      BY <2>1, Zenon DEF SourceRows
    <3>3. src.cursor = source[s].cursor
      BY <2>1, <3>1 DEF SourceRows
    <3> QED BY <2>2, <3>1, <3>2, <3>3 DEF Resume, ComesDue, Kept, SameGiven, TurnsLeft
  <2>3. CASE RetryComesDue(s)
    <3> DEFINE l == [lane[s] EXCEPT !.wait = FALSE]
    <3>1. l \in LaneRows /\ l.action = lane[s].action /\ l.retry = lane[s].retry /\ l.cur = lane[s].cur
      BY <2>1 DEF LaneRows
    <3>2. lane' = [lane EXCEPT ![s] = l]
      BY <2>3 DEF RetryComesDue
    <3> HIDE DEF l
    <3> QED BY <2>3, <3>1, <3>2 DEF RetryComesDue, Kept, SameGiven, TurnsLeft
  <2>4. CASE ClaimLeaseExpires(s) \/ ClaimStalls(s)
    <3> DEFINE r == [run[s] EXCEPT !.live = FALSE]
    <3>1. r \in RunRows
      BY <2>1 DEF RunRows
    <3>2. run' = [run EXCEPT ![s] = r]
      BY <2>4 DEF ClaimLeaseExpires, ClaimStalls, ClaimLapses
    <3>3. r = [run[s] EXCEPT !.live = FALSE]
      OBVIOUS
    <3> HIDE DEF r
    <3> QED BY <2>4, <3>1, <3>2, <3>3
            DEF ClaimLeaseExpires, ClaimStalls, ClaimLapses, Kept, SameGiven, TurnsLeft
  <2> QED BY <2>2, <2>3, <2>4
<1>2. SupervisorTypeOK
  BY DEF SupervisorInv
<1>3. /\ run' \in [Sources -> RunRows] /\ source' \in [Sources -> SourceRows]
      /\ lane' \in [Sources -> LaneRows] /\ \A x \in Sources : x # s => SameRows(x)
  BY <1>1, <1>2 DEF SupervisorTypeOK, SameRows
<1>4. SupervisorTypeOK'
  BY <1>1, <1>2, <1>3, GivenKept DEF SupervisorTypeOK, Kept, LaneRows, Turns, Claims, Owners
<1>5. /\ run'[s] \in {run[s], [run[s] EXCEPT !.live = FALSE]}
      /\ source'[s].cursor = source[s].cursor /\ lane'[s].action = lane[s].action
      /\ lane'[s].retry = lane[s].retry /\ lane'[s].cur = lane[s].cur
  BY <1>1, <1>2 DEF SupervisorTypeOK
<1> QED BY <1>1, <1>3, <1>4, <1>5, Touches DEF LaneLeft

-----------------------------------------------------------------------------
(***************************************************************************)
(* The theorems.                                                           *)
(***************************************************************************)
LEMMA SupervisorInvInitial == Init => SupervisorInv
<1> SUFFICES ASSUME Init PROVE SupervisorInv
  OBVIOUS
<1>1. given \in [sources : SUBSET Sources, outcomes : SUBSET Outcomes,
                 pages : Nat, faults : Nat, watched : BOOLEAN]
  BY SupervisorAssumption DEF Init
<1>2. /\ MaxEpochs \in Nat /\ MaxGeneration \in Nat /\ MaximumAttempts \in Nat
      /\ MaximumCommittedPages \in Nat /\ given.pages \in Nat
  BY <1>1, SupervisorAssumption
<1>3. /\ NoAttempt \in AttemptRows /\ NoTurn \in Turns /\ NoRun("none") \in RunRows
  BY <1>2 DEF NoAttempt, AttemptRows, AttemptStates, NoTurn, Turns, TurnPhases, NoRun, RunRows,
              RunStates
<1>4. SupervisorTypeOK
  <2>1. /\ run \in [Sources -> RunRows] /\ attempt \in [Sources -> AttemptRows]
        /\ turn \in [Owners -> [Sources -> Turns]] /\ failures \in [Sources -> Nat]
    BY <1>3 DEF Init
  <2>2. source \in [Sources -> SourceRows] /\ lane \in [Sources -> LaneRows]
    BY <1>2 DEF Init, SourceRows, LaneRows
  <2>3. /\ epoch \in [n : 0..MaxEpochs, state : EpochStates, live : BOOLEAN]
        /\ owner \in [Owners -> OwnerStates]
        /\ health \in [gen : 0..MaxGeneration, episode : 0..MaxGeneration]
    BY <1>2 DEF Init, EpochStates, OwnerStates
  <2> QED BY <1>1, <2>1, <2>2, <2>3 DEF SupervisorTypeOK
<1>5. ASSUME NEW s \in Sources PROVE SourceInv(s)
  BY DEF Init, SourceInv, InFlightRuns, InFlight, Claimable, CursorReads, PagesCounted, AtBoundary,
         BudgetKept, NoRun, NoAttempt, Alive
<1>6. ASSUME NEW o \in Owners, NEW s \in Sources PROVE TurnInv(o, s)
  BY DEF Init, TurnInv, Unclaimed, TurnInStep, TurnCounts, NoTurn
<1>7. OneEpochInFlight /\ ReleasedIsDrained
  BY DEF Init, OneEpochInFlight, ReleasedIsDrained, NoAttempt
<1> QED BY <1>4, <1>5, <1>6, <1>7 DEF SupervisorInv

LEMMA ProcessKeeps ==
    ASSUME SupervisorInv, NEW o \in Owners,
           \/ OwnershipLost(o) \/ PersistFence(o) \/ Release(o) \/ Crash(o) \/ Stop(o) \/ Started(o)
           \/ \E s \in Sources :
                ClaimRenewalLost(o, s) \/ BeginRefused(o, s) \/ BlockingRefused(o, s)
    PROVE  SupervisorInv'
<1>1. {"fenced", "gone", "stopping", "serving"} \subseteq OwnerStates
  BY DEF OwnerStates
<1>2. CASE \/ OwnershipLost(o) \/ Crash(o)
           \/ \E s \in Sources : ClaimRenewalLost(o, s) \/ BeginRefused(o, s) \/ BlockingRefused(o, s)
  <2>1. /\ UNCHANGED <<durable, failures>> /\ SameGiven /\ NoTurns(o)
        /\ \E st \in OwnerStates : owner' = [owner EXCEPT ![o] = st]
    BY <1>1, <1>2
       DEF OwnershipLost, Crash, ClaimRenewalLost, BeginRefused, BlockingRefused, Fence, SameGiven
  <2> QED BY <2>1, TurnsDrop
<1>3. CASE PersistFence(o) \/ Release(o) \/ Stop(o) \/ Started(o)
  <2>1. /\ epoch \in [n : 0..MaxEpochs, state : EpochStates, live : BOOLEAN]
        /\ owner \in [Owners -> OwnerStates]
    BY DEF SupervisorInv, SupervisorTypeOK
  <2>2. /\ UNCHANGED <<source, run, attempt, lane, health, turn, failures>> /\ SameGiven
        /\ owner' = owner \/ \E st \in OwnerStates : owner' = [owner EXCEPT ![o] = st]
    BY <1>1, <1>3 DEF PersistFence, Release, Stop, Started, durable, SameGiven
  <2>3. /\ \/ epoch' = epoch
           \/ epoch' = [epoch EXCEPT !.state = "fenced_draining"]
           \/ epoch' = [epoch EXCEPT !.state = "released"] /\ InFlightOf(epoch.n) = {}
    BY <1>3 DEF PersistFence, Release, Stop, Started, durable
  <2>4. /\ epoch' \in [n : 0..MaxEpochs, state : EpochStates, live : BOOLEAN]
        /\ epoch'.n = epoch.n
        /\ epoch'.state = "released" => epoch.state = "released" \/ InFlightOf(epoch.n) = {}
    BY <2>1, <2>3 DEF EpochStates
  <2> QED BY <2>1, <2>2, <2>4, EpochMoves
<1> QED BY <1>2, <1>3

LEMMA SupervisorInvStep == SupervisorInv /\ [Next]_vars => SupervisorInv'
<1> SUFFICES ASSUME SupervisorInv, [Next]_vars PROVE SupervisorInv'
  OBVIOUS
<1>1. CASE UNCHANGED vars
  <2>1. SupervisorTypeOK' /\ epoch \in [n : 0..MaxEpochs, state : EpochStates, live : BOOLEAN]
        /\ owner \in [Owners -> OwnerStates]
    BY <1>1 DEF vars, durable, SupervisorInv, SupervisorTypeOK, SourceRows, RunRows, AttemptRows,
                LaneRows, Turns, Claims, Owners
  <2> QED BY <1>1, <2>1, EpochMoves DEF vars, durable, SameGiven
<1>2. CASE EpochLeaseExpires \/ EpochStalls
  <2>1. /\ epoch \in [n : 0..MaxEpochs, state : EpochStates, live : BOOLEAN]
        /\ owner \in [Owners -> OwnerStates]
    BY DEF SupervisorInv, SupervisorTypeOK
  <2>2. /\ epoch' = [epoch EXCEPT !.live = FALSE] /\ SameGiven
        /\ UNCHANGED <<owner, source, run, attempt, lane, health, turn, failures>>
    BY <1>2 DEF EpochLeaseExpires, EpochStalls, EpochLapses, SameGiven
  <2> QED BY <2>1, <2>2, EpochMoves
<1>3. ASSUME NEW o \in Owners, Acquire(o) PROVE SupervisorInv'
  BY <1>3, AcquireKeeps
<1>4. ASSUME NEW o \in Owners,
             OwnershipLost(o) \/ PersistFence(o) \/ Release(o) \/ Crash(o) \/ Stop(o) \/ Started(o)
      PROVE  SupervisorInv'
  BY <1>4, ProcessKeeps
<1>5. ASSUME NEW o \in Owners, RecoveryTest(o) PROVE SupervisorInv'
  BY <1>5, RecoveryTestKeeps
<1>6. ASSUME NEW o \in Owners, NEW s \in Sources, ClaimRenewalLost(o, s) PROVE SupervisorInv'
  BY <1>6, ProcessKeeps
<1>7. ASSUME NEW o \in Owners, NEW s \in Sources, Reconcile(o, s) PROVE SupervisorInv'
  BY <1>7, ReconcileKeeps
<1>8. ASSUME NEW o \in Owners, NEW s \in Sources, Recover(o, s) PROVE SupervisorInv'
  BY <1>8, RecoverKeeps
<1>9. ASSUME NEW o \in Owners, NEW s \in Sources, Materialize(o, s) PROVE SupervisorInv'
  BY <1>9, RequestKeeps DEF Materialize, Kept, SameGiven
<1>10. ASSUME NEW o \in Owners, NEW s \in Sources, ClaimNext(o, s) PROVE SupervisorInv'
  BY <1>10, ClaimNextKeeps
<1>11. ASSUME NEW o \in Owners, NEW s \in Sources, TurnStep(o, s) PROVE SupervisorInv'
  <2>1. CASE Begin(o, s)
    BY <2>1, BeginKeeps
  <2>2. CASE BeginRefused(o, s) \/ BlockingRefused(o, s)
    BY <2>2, ProcessKeeps
  <2>3. ASSUME NEW outcome \in Outcomes, Terminalize(o, s, outcome) PROVE SupervisorInv'
    BY <2>3, TerminalizeKeeps
  <2>4. CASE Blocking(o, s)
    BY <2>4, BlockingKeeps
  <2>5. ASSUME NEW c \in {"continue", "poll_after"}, CommitPage(o, s, c) PROVE SupervisorInv'
    BY <2>5, CommitPageKeeps
  <2>6. CASE CommitRefused(o, s) \/ CommitFails(o, s)
    <3>1. /\ Kept /\ UNCHANGED <<durable, failures>> /\ epoch.n = o /\ turn[o][s].phase = "captured"
      BY <2>6 DEF CommitRefused, CommitFails, Kept, SameGiven, durable, Owns
    <3>2. PICK p \in {"stale", "retryable", "source_action_required"} : Phase(o, s, p)
      BY <2>6 DEF CommitRefused, CommitFails
    <3> QED BY <3>1, <3>2, TurnMoves
  <2>7. CASE FinishPageTurn(o, s)
    BY <2>7, FinishPageTurnKeeps
  <2>8. CASE FinishFenced(o, s)
    BY <2>8, FinishFencedKeeps
  <2>9. CASE ReleaseUnstarted(o, s)
    BY <2>9, ReleaseUnstartedKeeps
  <2> QED BY <1>11, <2>1, <2>2, <2>3, <2>4, <2>5, <2>6, <2>7, <2>8, <2>9 DEF TurnStep
<1>12. ASSUME NEW s \in Sources, RunNow(s) PROVE SupervisorInv'
  BY <1>12, RequestKeeps DEF RunNow, Kept, SameGiven
<1>13. ASSUME NEW s \in Sources, RequestPause(s) PROVE SupervisorInv'
  BY <1>13, RequestPauseKeeps
<1>14. ASSUME NEW s \in Sources, Disable(s) PROVE SupervisorInv'
  BY <1>14, DisableKeeps
<1>15. ASSUME NEW s \in Sources,
              Resume(s) \/ ComesDue(s) \/ RetryComesDue(s) \/ ClaimLeaseExpires(s) \/ ClaimStalls(s)
       PROVE  SupervisorInv'
  BY <1>15, ClockKeeps
<1> QED BY <1>1, <1>2, <1>3, <1>4, <1>5, <1>6, <1>7, <1>8, <1>9, <1>10, <1>11, <1>12, <1>13,
           <1>14, <1>15 DEF Next

\* The invariant of the supervisor's rows and turns is inductive.
THEOREM SupervisorInvAlways == Spec => []SupervisorInv
<1> QED BY SupervisorInvInitial, SupervisorInvStep, PTL DEF Spec

\* A request in flight keeps its run, its claim and its epoch; requests of two
\* epochs are never in flight together; an epoch that was given back is
\* drained; a waiting run can be claimed; and between outages a page is asked
\* for again at most MaximumAttempts times, however claims, processes and
\* recoveries interleave (provider-source-supervisor-*.ts).
THEOREM SupervisorInvariantAlways == Spec => []SupervisorInvariant
<1>1. ASSUME SupervisorInv PROVE SupervisorInvariant
  <2>1. SupervisorTypeOK /\ OneEpochInFlight /\ ReleasedIsDrained
    BY <1>1 DEF SupervisorInv
  <2>2. InFlightIsRunning /\ QueuedIsClaimable
    BY <1>1
       DEF SupervisorInv, SourceInv, InFlightRuns, InFlight, InFlightIsRunning, Claimable,
           QueuedIsClaimable
  <2>3. ASSUME NEW s \in Sources PROVE failures[s] <= MaximumAttempts + 1
    <3>1. /\ failures[s] \in Nat /\ lane[s].retry \in 0..MaximumAttempts /\ MaximumAttempts \in Nat
      BY <2>1, SupervisorAssumption DEF SupervisorTypeOK, LaneRows
    <3>2. failures[s] > 0 => failures[s] <= lane[s].retry + IF Uncounted(s) THEN 1 ELSE 0
      BY <1>1 DEF SupervisorInv, SourceInv, BudgetKept
    <3> QED BY <3>1, <3>2
  <2> QED BY <2>1, <2>2, <2>3 DEF SupervisorInvariant, RetriesBounded
<1> QED BY <1>1, SupervisorInvAlways, PTL

\* A waiting or running run reads from its source's committed cursor, through
\* claims, crashes, recoveries and rollovers (provider-source-page-*.ts).
THEOREM CursorInStepAlways == Spec => []CursorInStep
<1>1. SupervisorInv => CursorInStep
  BY DEF SupervisorInv, SourceInv, CursorReads, CursorInStep
<1> QED BY <1>1, SupervisorInvAlways, PTL

-----------------------------------------------------------------------------
(***************************************************************************)
(* What a step may not do while an episode is open.                        *)
(***************************************************************************)
\* A source that does not move.
Held(s) == /\ source'[s].cursor = source[s].cursor
           /\ run'[s].state \in Alive => run'[s].pages <= run[s].pages

LEMMA HeldRows ==
    ASSUME SupervisorTypeOK
    PROVE  \A s \in Sources :
             /\ run[s].pages \in Nat
             /\ \A st \in {"failed", "incomplete", "succeeded"} : NoRun(st).state \notin Alive
             /\ NewRun(source[s].cursor).pages <= run[s].pages
             /\ Requeued(s).pages = run[s].pages
             /\ Paused(s).cursor = source[s].cursor
             /\ [source[s] EXCEPT !.due = FALSE].cursor = source[s].cursor
             /\ [source[s] EXCEPT !.pausing = TRUE].cursor = source[s].cursor
             /\ [source[s] EXCEPT !.state = "disabled", !.pausing = FALSE].cursor = source[s].cursor
<1> SUFFICES ASSUME NEW s \in Sources
             PROVE  /\ run[s].pages \in Nat
                    /\ \A st \in {"failed", "incomplete", "succeeded"} : NoRun(st).state \notin Alive
                    /\ NewRun(source[s].cursor).pages <= run[s].pages
                    /\ Requeued(s).pages = run[s].pages
                    /\ Paused(s).cursor = source[s].cursor
                    /\ [source[s] EXCEPT !.due = FALSE].cursor = source[s].cursor
                    /\ [source[s] EXCEPT !.pausing = TRUE].cursor = source[s].cursor
                    /\ [source[s] EXCEPT !.state = "disabled", !.pausing = FALSE].cursor
                         = source[s].cursor
  OBVIOUS
<1>1. run[s] \in RunRows /\ source[s] \in SourceRows /\ MaximumCommittedPages \in Nat
  BY SupervisorAssumption DEF SupervisorTypeOK
<1>2. run[s].pages \in Nat
  BY <1>1 DEF RunRows
<1>3. NewRun(source[s].cursor).pages = 0 /\ Requeued(s).pages = run[s].pages
  BY <1>1 DEF NewRun, NoRun, Requeued, RunRows
<1>4. \A st \in {"failed", "incomplete", "succeeded"} : NoRun(st).state \notin Alive
  BY DEF NoRun, Alive
<1>5. /\ Paused(s).cursor = source[s].cursor
      /\ [source[s] EXCEPT !.due = FALSE].cursor = source[s].cursor
      /\ [source[s] EXCEPT !.pausing = TRUE].cursor = source[s].cursor
      /\ [source[s] EXCEPT !.state = "disabled", !.pausing = FALSE].cursor = source[s].cursor
  BY <1>1 DEF SourceRows, Paused
<1> QED BY <1>2, <1>3, <1>4, <1>5

\* A transaction that settles one source holds them all, when the run it leaves
\* is over or has no page more and the cursor is the old one.
LEMMA SettleHolds ==
    ASSUME SupervisorTypeOK, NEW s \in Sources, NEW r, NEW l, NEW src, Settle(s, r, l, src),
           src.cursor = source[s].cursor, r.state \in Alive => r.pages <= run[s].pages
    PROVE  \A x \in Sources : Held(x)
<1> SUFFICES ASSUME NEW x \in Sources PROVE Held(x)
  OBVIOUS
<1>1. run[x].pages \in Nat
  BY HeldRows
<1>2. CASE x = s
  BY <1>2, SettleRows DEF Held
<1>3. CASE x # s
  BY <1>1, <1>3, SettleRows DEF Held, SameRows
<1> QED BY <1>2, <1>3

LEMMA StillHolds ==
    ASSUME SupervisorTypeOK, run' = run,
           \A s \in Sources : source'[s].cursor = source[s].cursor
    PROVE  \A x \in Sources : Held(x)
<1> QED BY HeldRows DEF Held

LEMMA RecoverHolds ==
    ASSUME SupervisorTypeOK, NEW o \in Owners, NEW s \in Sources, Recover(o, s)
    PROVE  \A x \in Sources : Held(x)
<1>1. /\ run[s].pages \in Nat /\ run[s].pages <= run[s].pages
      /\ \A st \in {"failed", "incomplete", "succeeded"} : NoRun(st).state \notin Alive
      /\ NewRun(source[s].cursor).pages <= run[s].pages
      /\ Requeued(s).pages = run[s].pages /\ Paused(s).cursor = source[s].cursor
      /\ [source[s] EXCEPT !.due = FALSE].cursor = source[s].cursor
  BY HeldRows
<1>2. \/ \E st \in {"failed", "incomplete", "succeeded"} : \E l :
           \E src \in {source[s], Paused(s), [source[s] EXCEPT !.due = FALSE]} :
             Settle(s, NoRun(st), l, src)
      \/ \E l : Settle(s, Requeued(s), l, source[s])
      \/ \E l : Settle(s, NewRun(source[s].cursor), l, source[s])
  <2>1. CASE RecoverBoundary(s)
    BY <2>1 DEF RecoverBoundary
  <2>2. CASE \E l : Rollover(s, l)
    BY <2>2 DEF Rollover
  <2>3. CASE ~RecoverBoundary(s) /\ ~\E l : Rollover(s, l)
    BY <2>3 DEF Recover
  <2> QED BY <2>1, <2>2, <2>3
<1> QED BY <1>1, <1>2, SettleHolds

LEMMA TurnHolds ==
    ASSUME SupervisorTypeOK, Blocked, NEW o \in Owners, NEW s \in Sources,
           FinishPageTurn(o, s) \/ FinishFenced(o, s) \/ ReleaseUnstarted(o, s) \/ ClaimNext(o, s)
    PROVE  \A x \in Sources : Held(x)
<1>1. /\ run[s].pages \in Nat /\ run[s].pages <= run[s].pages
      /\ \A st \in {"failed", "incomplete", "succeeded"} : NoRun(st).state \notin Alive
      /\ NewRun(source[s].cursor).pages <= run[s].pages
      /\ Requeued(s).pages = run[s].pages /\ Paused(s).cursor = source[s].cursor
      /\ [source[s] EXCEPT !.due = FALSE].cursor = source[s].cursor
  BY HeldRows
<1>2. \/ \E st \in {"failed", "incomplete", "succeeded"} : \E l :
           \E src \in {source[s], Paused(s), [source[s] EXCEPT !.due = FALSE]} :
             Settle(s, NoRun(st), l, src)
      \/ \E l : Settle(s, Requeued(s), l, source[s])
      \/ \E l : Settle(s, NewRun(source[s].cursor), l, source[s])
      \/ \E l : Settle(s, run[s], l, source[s])
      \/ UNCHANGED <<run, source>>
  <2>1. CASE FinishPageTurn(o, s)
    <3>1. CASE FinishOutcome(o, s)
      BY <3>1 DEF FinishOutcome
    <3>2. CASE ~FinishOutcome(o, s)
      BY <2>1, <3>2 DEF FinishPageTurn
    <3> QED BY <3>1, <3>2
  <2>2. CASE FinishFenced(o, s)
    BY <2>2 DEF FinishFenced
  <2>3. CASE ReleaseUnstarted(o, s)
    BY <2>3 DEF ReleaseUnstarted
  <2>4. CASE ClaimNext(o, s)
    <3>1. CASE \E l : Rollover(s, l)
      BY <3>1 DEF Rollover
    <3>2. CASE ~\E l : Rollover(s, l)
      BY <2>4, <3>2 DEF ClaimNext
    <3> QED BY <3>1, <3>2
  <2> QED BY <2>1, <2>2, <2>3, <2>4
<1>3. CASE UNCHANGED <<run, source>>
  BY <1>3, StillHolds
<1> QED BY <1>1, <1>2, <1>3, SettleHolds

\* An outage, or the reconciliation that opens it, ends the waiting runs of the
\* profile and leaves the rest.
LEMMA BlockHolds ==
    ASSUME SupervisorTypeOK, NEW e, NEW own, NEW rec, BlockProfile(e, own, rec), UNCHANGED source
    PROVE  \A x \in Sources : Held(x)
<1> SUFFICES ASSUME NEW x \in Sources PROVE Held(x)
  OBVIOUS
<1>1. run[x].pages \in Nat /\ NoRun("incomplete").state \notin Alive
  BY HeldRows
<1>2. run'[x] = NoRun("incomplete") \/ run'[x] = run[x]
  <2>1. run' = [s \in Sources |-> IF run[s].state = "queued" \/ s \in own
                                  THEN NoRun("incomplete") ELSE run[s]]
    BY Zenon DEF BlockProfile
  <2> QED BY <2>1
<1> QED BY <1>1, <1>2 DEF Held

\* What operators and the clock do.
LEMMA CommandHolds ==
    ASSUME SupervisorTypeOK, NEW s \in Sources,
           \/ RunNow(s) \/ RequestPause(s) \/ Disable(s) \/ Resume(s) \/ ComesDue(s)
           \/ RetryComesDue(s) \/ ClaimLapses(s) \/ \E o \in Owners : Materialize(o, s)
    PROVE  \A x \in Sources : Held(x)
<1>1. /\ run[s].pages \in Nat /\ run[s].pages <= run[s].pages
      /\ \A st \in {"failed", "incomplete", "succeeded"} : NoRun(st).state \notin Alive
      /\ NewRun(source[s].cursor).pages <= run[s].pages /\ Paused(s).cursor = source[s].cursor
      /\ [source[s] EXCEPT !.pausing = TRUE].cursor = source[s].cursor
      /\ [source[s] EXCEPT !.state = "disabled", !.pausing = FALSE].cursor = source[s].cursor
  BY HeldRows
<1>2. CASE RunNow(s) \/ \E o \in Owners : Materialize(o, s)
  <2>1. Settle(s, NewRun(source[s].cursor), lane[s], source[s])
    BY <1>2 DEF RunNow, Materialize, Request
  <2> QED BY <1>1, <2>1, SettleHolds
<1>3. CASE RequestPause(s)
  <2>1. \E r \in {NoRun("incomplete"), run[s]} :
          \E src \in {[source[s] EXCEPT !.pausing = TRUE], Paused(s)} : Settle(s, r, lane[s], src)
    BY <1>3 DEF RequestPause
  <2> QED BY <1>1, <2>1, SettleHolds
<1>4. CASE Disable(s)
  <2>1. \E r \in {NoRun("failed"), run[s]} :
          Settle(s, r, lane[s], [source[s] EXCEPT !.state = "disabled", !.pausing = FALSE])
    BY <1>4 DEF Disable
  <2> QED BY <1>1, <2>1, SettleHolds
<1>5. CASE Resume(s) \/ ComesDue(s)
  <2>1. source \in [Sources -> SourceRows]
    BY DEF SupervisorTypeOK
  <2>2. run' = run /\ \A x \in Sources : source'[x].cursor = source[x].cursor
    BY <1>5, <2>1 DEF Resume, ComesDue, SourceRows
  <2> QED BY <2>2, StillHolds
<1>6. CASE RetryComesDue(s)
  BY <1>6, StillHolds DEF RetryComesDue
<1>7. CASE ClaimLapses(s)
  <2>1. run \in [Sources -> RunRows] /\ source' = source
        /\ run' = [run EXCEPT ![s].live = FALSE]
    BY <1>7 DEF SupervisorTypeOK, ClaimLapses
  <2>2. ASSUME NEW x \in Sources PROVE run'[x].pages = run[x].pages /\ run[x].pages \in Nat
    BY <2>1, HeldRows DEF RunRows
  <2> QED BY <2>1, <2>2 DEF Held
<1> QED BY <1>2, <1>3, <1>4, <1>5, <1>6, <1>7

LEMMA EpisodeHolds ==
    ASSUME SupervisorTypeOK, Blocked, [Next]_vars
    PROVE  \A x \in Sources : Held(x)
<1>1. CASE UNCHANGED <<run, source>>
  BY <1>1, StillHolds
<1>2. ASSUME NEW o \in Owners, RecoveryTest(o) PROVE \A x \in Sources : Held(x)
  <2> SUFFICES ASSUME NEW x \in Sources PROVE Held(x)
    OBVIOUS
  <2>1. /\ run[x].pages \in Nat /\ run[x].pages <= run[x].pages
        /\ NewRun(source[x].cursor).pages <= run[x].pages
    BY HeldRows
  <2>2. source' = source /\ run'[x] \in {NewRun(source[x].cursor), run[x]}
    BY <1>2 DEF RecoveryTest
  <2> QED BY <2>1, <2>2 DEF Held
<1>3. ASSUME NEW o \in Owners, NEW s \in Sources, Reconcile(o, s) \/ Blocking(o, s)
      PROVE  \A x \in Sources : Held(x)
  <2>1. source' = source /\ (run' = run \/ \E e, own, rec : BlockProfile(e, own, rec))
    BY <1>3 DEF Reconcile, Blocking
  <2> QED BY <2>1, StillHolds, BlockHolds
<1>4. ASSUME NEW o \in Owners, NEW s \in Sources, NEW c, CommitPage(o, s, c) PROVE FALSE
  BY <1>4 DEF CommitPage, PageOwned
<1>5. ASSUME NEW o \in Owners, NEW s \in Sources, TurnStep(o, s)
      PROVE  \A x \in Sources : Held(x)
  <2>1. CASE \/ Begin(o, s) \/ BeginRefused(o, s) \/ BlockingRefused(o, s)
             \/ \E outcome \in Outcomes : Terminalize(o, s, outcome)
             \/ CommitRefused(o, s) \/ CommitFails(o, s)
    BY <1>1, <2>1 DEF Begin, BeginRefused, BlockingRefused, Terminalize, CommitRefused, CommitFails,
                      durable
  <2> QED BY <1>3, <1>4, <1>5, <2>1, TurnHolds DEF TurnStep
<1>6. ASSUME EpochLeaseExpires \/ EpochStalls PROVE \A x \in Sources : Held(x)
  BY <1>1, <1>6 DEF EpochLeaseExpires, EpochStalls, EpochLapses
<1>7. ASSUME NEW o \in Owners,
             \/ Acquire(o) \/ OwnershipLost(o) \/ PersistFence(o) \/ Release(o)
             \/ Crash(o) \/ Stop(o) \/ Started(o)
             \/ \E s \in Sources : ClaimRenewalLost(o, s)
      PROVE  \A x \in Sources : Held(x)
  BY <1>1, <1>7 DEF Acquire, OwnershipLost, PersistFence, Release, Crash, Stop, Started,
                    ClaimRenewalLost, durable
<1>8. ASSUME NEW s \in Sources,
             \/ ClaimLeaseExpires(s) \/ ClaimStalls(s) \/ RunNow(s) \/ RequestPause(s)
             \/ Resume(s) \/ Disable(s) \/ RetryComesDue(s) \/ ComesDue(s)
      PROVE  \A x \in Sources : Held(x)
  BY <1>8, CommandHolds DEF ClaimLeaseExpires, ClaimStalls
<1>9. CASE UNCHANGED vars
  BY <1>1, <1>9 DEF vars, durable
<1>10. CASE Next
  BY <1>2, <1>3, <1>5, <1>6, <1>7, <1>8, <1>10, RecoverHolds, TurnHolds, CommandHolds DEF Next
<1> QED BY <1>9, <1>10

\* While the connection's episode is open no cursor of the profile moves and no
\* run gains a page, whatever was captured before it opened
\* (lockProviderSourcePageOwnership, provider-source-page-ownership.ts).
THEOREM EpisodeHoldsCursorsAlways == Spec => EpisodeHoldsCursors
<1> DEFINE Holds == \A s \in Sources :
                      Blocked => /\ source'[s].cursor = source[s].cursor
                                 /\ run'[s].state \in Alive => run'[s].pages <= run[s].pages
<1>1. ASSUME SupervisorInv, [Next]_vars PROVE [Holds]_vars
  BY <1>1, EpisodeHolds DEF SupervisorInv, Held
<1> QED BY <1>1, SupervisorInvAlways, PTL DEF Spec, EpisodeHoldsCursors
=============================================================================

------------------------- MODULE ConnectionPermits -------------------------
(***************************************************************************)
(* The process-local half of the source supervisor: the permit coordinator *)
(* (packages/services/src/connection-permit-coordinator.ts), the request   *)
(* lease it backs (source-request-lease.ts), and the turn that uses both   *)
(* (apps/worker/src/provider-source-supervisor-executor.ts), with as much  *)
(* of the durable request attempt as the turn's decisions depend on.       *)
(*                                                                         *)
(* A turn is one claimed piece of work.  It queues for a permit of its     *)
(* request lane paired with an execution slot, gets a single-use lease,    *)
(* writes the durable attempt, calls upstream, terminalizes the attempt,   *)
(* gives the lane permit back, and keeps the slot until its work is        *)
(* finalized.  Steps between two awaits are one action: the event loop     *)
(* runs them without interruption.                                         *)
(***************************************************************************)
EXTENDS Naturals, FiniteSets, Sequences

CONSTANTS
    Turns,                    \* claimed work items, reused once finished
    Lanes,                    \* ConnectionPermitLaneIdentity
    Profiles,                 \* connection profiles
    LaneOf,                   \* the lane of a turn
    ProfileOf,                \* the profile of a lane
    Pools                     \* capacities, one of which a behaviour has: slots is
                              \* genericExecutionSlots, cap[l] the largest
                              \* approvedRequestCap of lane l

ASSUME PermitAssumption ==
    /\ LaneOf \in [Turns -> Lanes]
    /\ ProfileOf \in [Lanes -> Profiles]
    /\ Pools \subseteq [slots : Nat \ {0}, cap : [Lanes -> Nat \ {0}]]
    /\ IsFiniteSet(Turns)

VARIABLES
    pool,                 \* the capacity of this process
    approvedRequestCap,   \* per lane; 0 while the lane is not configured
    activeRequestPermits, \* per lane
    activeExecutionSlots,
    waiters,              \* turns, oldest first
    admissionStopped,
    fenced,               \* RuntimeControlPlaneFence
    phase,                \* where each turn is
    lease,                \* SourceRequestLeaseState, "none" before it is issued
    requestPermitHeld,    \* turns whose pair still holds the lane permit
    executionSlotHeld,    \* turns whose pair still holds the slot
    cancelBeforeCall,     \* active requests told to terminalize, not to call
    attempt,              \* the durable source_request_attempts row
    blocked,              \* profiles with an open health episode
    stale,                \* claims whose connection health generation is old
    pauseRequested,       \* claims whose source was asked to pause
    condemned             \* turns aborted with their profile (history)

coordinator == <<activeRequestPermits, activeExecutionSlots, waiters,
                 requestPermitHeld, executionSlotHeld, phase>>
vars == <<coordinator, pool, approvedRequestCap, admissionStopped, fenced,
          lease, cancelBeforeCall, attempt, blocked, stale, pauseRequested, condemned>>

\* #active: from the lease's registration to releaseTerminalizedSlot.
Active == {"begin_pending", "request_active", "terminalized", "blocking", "captured"}
Phases == {"idle", "claimed", "queued", "granted", "leased"} \cup Active
LeaseStates == {"none", "available", "consumed", "cancelled", "closed"}

ProfileOfTurn(t) == ProfileOf[LaneOf[t]]
At(p) == {t \in Turns : phase[t] = p}
OnLane(S, l) == {t \in S : LaneOf[t] = l}

PermitTypeOK ==
    /\ pool \in Pools
    /\ approvedRequestCap \in [Lanes -> Nat]
    /\ \A l \in Lanes : approvedRequestCap[l] <= pool.cap[l]
    /\ activeRequestPermits \in [Lanes -> Nat]
    /\ activeExecutionSlots \in Nat
    /\ waiters \in Seq(Turns)
    /\ admissionStopped \in BOOLEAN /\ fenced \in BOOLEAN
    /\ phase \in [Turns -> Phases]
    /\ lease \in [Turns -> LeaseStates]
    /\ requestPermitHeld \subseteq Turns /\ executionSlotHeld \subseteq Turns
    /\ cancelBeforeCall \subseteq Turns
    /\ attempt \in [Turns -> {"none", "in_flight", "terminal"}]
    /\ blocked \subseteq Profiles
    /\ stale \subseteq Turns /\ pauseRequested \subseteq Turns
    /\ condemned \subseteq Turns

Init ==
    /\ pool \in Pools
    /\ approvedRequestCap = [l \in Lanes |-> 0]
    /\ activeRequestPermits = [l \in Lanes |-> 0]
    /\ activeExecutionSlots = 0
    /\ waiters = <<>>
    /\ admissionStopped = FALSE /\ fenced = FALSE
    /\ phase = [t \in Turns |-> "idle"]
    /\ lease = [t \in Turns |-> "none"]
    /\ requestPermitHeld = {} /\ executionSlotHeld = {}
    /\ cancelBeforeCall = {}
    /\ attempt = [t \in Turns |-> "none"]
    /\ blocked = {} /\ stale = {} /\ pauseRequested = {} /\ condemned = {}

-----------------------------------------------------------------------------
(***************************************************************************)
(* The coordinator.                                                        *)
(***************************************************************************)
\* The queue w without the turns in S: its k-th turn has k - 1 others before it.
Without(w, S) ==
    LET kept == {i \in DOMAIN w : w[i] \notin S}
        nth(k) == CHOOSE i \in kept : Cardinality({j \in kept : j < i}) = k - 1
    IN [k \in 1..Cardinality(kept) |-> w[nth(k)]]

\* Mutation: only the oldest waiter is looked at.
GrantsHeadOnly(w, cap, permits, slots) ==
    {w[i] : i \in {i \in DOMAIN w : /\ i = 1
                                    /\ permits[LaneOf[w[i]]] < cap[LaneOf[w[i]]]
                                    /\ slots < pool.slots}}

\* The waiters #drain grants.  Taking the first eligible waiter again and
\* again is one pass from the oldest: a lane grants to its oldest waiters up
\* to its room, and the slots go to the oldest of those.
Grants(w, cap, permits, slots) ==
    LET room(l) == IF cap[l] > permits[l] THEN cap[l] - permits[l] ELSE 0
        free == IF pool.slots > slots
                THEN pool.slots - slots ELSE 0
        eligible == {i \in DOMAIN w :
                       Cardinality({j \in 1..i - 1 : LaneOf[w[j]] = LaneOf[w[i]]})
                         < room(LaneOf[w[i]])}
    IN {w[i] : i \in {i \in eligible :
                        Cardinality({j \in eligible : j < i}) < free}}

\* Mutation: a release does not wake the queue.
SettleNoDrain(w, req, slot, ph) ==
    LET r == req \cap requestPermitHeld
        s == slot \cap executionSlotHeld
        quiet == r # {} \/ s # {}
        g == IF admissionStopped' \/ quiet THEN {}
             ELSE Grants(w, approvedRequestCap', activeRequestPermits,
                         activeExecutionSlots)
    IN /\ waiters' = Without(w, g)
       /\ activeRequestPermits' =
            [l \in Lanes |-> activeRequestPermits[l] + Cardinality(OnLane(g, l))
                               - Cardinality(OnLane(r, l))]
       /\ activeExecutionSlots' =
            activeExecutionSlots + Cardinality(g) - Cardinality(s)
       /\ requestPermitHeld' = (requestPermitHeld \ r) \cup g
       /\ executionSlotHeld' = (executionSlotHeld \ s) \cup g
       /\ phase' = [t \in Turns |-> IF t \in g THEN "granted" ELSE ph[t]]

\* The coordinator once the turns of req gave their lane permit back, those of
\* slot their execution slot, w is left of the queue and #drain has run.  A
\* permit releases each half once, whatever it is asked (idempotent release).
Settle(w, req, slot, ph) ==
    LET r == req \cap requestPermitHeld
        s == slot \cap executionSlotHeld
        permits == [l \in Lanes |->
                      activeRequestPermits[l] - Cardinality(OnLane(r, l))]
        slots == activeExecutionSlots - Cardinality(s)
        g == IF admissionStopped' THEN {}
             ELSE Grants(w, approvedRequestCap', permits, slots)
    IN /\ waiters' = Without(w, g)
       /\ activeRequestPermits' =
            [l \in Lanes |-> permits[l] + Cardinality(OnLane(g, l))]
       /\ activeExecutionSlots' = slots + Cardinality(g)
       /\ requestPermitHeld' = (requestPermitHeld \ r) \cup g
       /\ executionSlotHeld' = (executionSlotHeld \ s) \cup g
       /\ phase' = [t \in Turns |-> IF t \in g THEN "granted" ELSE ph[t]]

Moved(S, p) == [t \in Turns |-> IF t \in S THEN p ELSE phase[t]]

\* configureRequestPermitLane: a cap changes only while the lane is unused.
ConfigureRequestPermitLane(l, c) ==
    /\ approvedRequestCap[l] # c
    /\ approvedRequestCap[l] = 0 \/
         (/\ activeRequestPermits[l] = 0
          /\ \A i \in DOMAIN waiters : LaneOf[waiters[i]] # l)
    /\ approvedRequestCap' = [approvedRequestCap EXCEPT ![l] = c]
    /\ UNCHANGED <<pool, admissionStopped, fenced, lease, cancelBeforeCall,
                   attempt, blocked, stale, pauseRequested, condemned>>
    /\ Settle(waiters, {}, {}, phase)

-----------------------------------------------------------------------------
(***************************************************************************)
(* A turn, up to its durable attempt.                                      *)
(***************************************************************************)
\* What a turn that ends leaves behind: its attempt stays when it is still in
\* flight (a fenced owner's), everything else is forgotten with the turn.
Forget(S) ==
    /\ lease' = [t \in Turns |-> IF t \in S THEN "none" ELSE lease[t]]
    /\ cancelBeforeCall' = cancelBeforeCall \ S
    /\ attempt' = [t \in Turns |-> IF t \in S /\ attempt[t] = "terminal"
                                   THEN "none" ELSE attempt[t]]
    /\ stale' = stale \ S
    /\ pauseRequested' = pauseRequested \ S
    /\ condemned' = condemned \ S

\* runCycle claims work while its lane holds fewer than cap + 2 turns; work
\* that would not wait for its lane also needs a free slot now.
\* pendingExecutionSlots only counts this cycle's claims and only refuses more.
Claim(t) ==
    LET l == LaneOf[t]
        reserved == Cardinality(OnLane(Turns \ At("idle"), l))
    IN /\ ~admissionStopped
       /\ phase[t] = "idle" /\ attempt[t] = "none"
       /\ approvedRequestCap[l] > 0
       /\ ProfileOf[l] \notin blocked
       /\ reserved < approvedRequestCap[l] + 2
       /\ reserved < approvedRequestCap[l] =>
            activeExecutionSlots < pool.slots
       /\ phase' = Moved({t}, "claimed")
       /\ UNCHANGED <<activeRequestPermits, activeExecutionSlots, waiters,
                      requestPermitHeld, executionSlotHeld, pool, approvedRequestCap,
                      admissionStopped, fenced, lease,
                      cancelBeforeCall, attempt, blocked, stale, pauseRequested, condemned>>

\* #probeCapacity refuses: cancelQueued rejects every waiter, and a turn that
\* had not queued yet is released unstarted with them.
CapacityRefused(t) ==
    LET gone == At("queued") \cup (IF phase[t] = "claimed" THEN {t} ELSE {})
    IN /\ phase[t] \in {"claimed", "captured"}
       /\ ~fenced
       /\ UNCHANGED <<pool, approvedRequestCap, admissionStopped, fenced, blocked>>
       /\ Forget(gone)
       /\ Settle(<<>>, {}, {}, Moved(gone, "idle"))

\* admit -> acquire: refused once admission stopped, queued otherwise.
Acquire(t) ==
    /\ phase[t] = "claimed"
    /\ UNCHANGED <<pool, approvedRequestCap, admissionStopped, fenced, blocked>>
    /\ IF admissionStopped
       THEN /\ Forget({t})
            /\ Settle(waiters, {}, {}, Moved({t}, "idle"))
       ELSE /\ UNCHANGED <<lease, cancelBeforeCall, attempt, stale, pauseRequested, condemned>>
            /\ Settle(Append(waiters, t), {}, {}, Moved({t}, "queued"))

\* The durable wait-state write or the snapshot fails while the admission is
\* pending: the turn aborts its own admission, wherever that has got to.
AdmissionWriteFails(t) ==
    /\ phase[t] \in {"queued", "granted", "leased"}
    /\ ~fenced
    /\ UNCHANGED <<pool, approvedRequestCap, admissionStopped, fenced, blocked>>
    /\ Forget({t})
    /\ Settle(Without(waiters, {t}), {t}, {t}, Moved({t}, "idle"))

\* The rest of admit: the guard refuses a fenced owner and gives the pair back.
IssueLease(t) ==
    /\ phase[t] = "granted"
    /\ UNCHANGED <<pool, approvedRequestCap, admissionStopped, fenced, blocked>>
    /\ IF fenced
       THEN /\ Forget({t})
            /\ Settle(waiters, {t}, {t}, Moved({t}, "idle"))
       ELSE /\ lease' = [lease EXCEPT ![t] = "available"]
            /\ UNCHANGED <<cancelBeforeCall, attempt, stale, pauseRequested, condemned>>
            /\ Settle(waiters, {}, {}, Moved({t}, "leased"))

\* The turn resumes with its lease and registers it in #active.
Activate(t) ==
    /\ phase[t] = "leased" /\ ~fenced
    /\ phase' = Moved({t}, "begin_pending")
    /\ UNCHANGED <<activeRequestPermits, activeExecutionSlots, waiters,
                   requestPermitHeld, executionSlotHeld, pool, approvedRequestCap,
                   admissionStopped, fenced, lease,
                   cancelBeforeCall, attempt, blocked, stale, pauseRequested, condemned>>

\* retainSlotAfterUnstartedRejection: a local validation rejects the work, the
\* lane permit goes back, the slot waits for the durable finalization.
RejectUnstarted(t) ==
    /\ phase[t] = "begin_pending" /\ ~fenced /\ attempt[t] = "none"
    /\ lease' = [lease EXCEPT ![t] = "cancelled"]
    /\ UNCHANGED <<pool, approvedRequestCap, admissionStopped, fenced,
                   cancelBeforeCall, attempt, blocked, stale, pauseRequested, condemned>>
    /\ Settle(waiters, {t}, {}, Moved({t}, "captured"))

\* releaseUnusedLease: the turn fails before its attempt exists, because its
\* admission is no longer wanted, a validation throws or begin is refused as
\* anything but stale.  The pair goes back while the owner runs on.
ReleaseUnusedLease(t) ==
    /\ phase[t] = "begin_pending" /\ ~fenced /\ attempt[t] = "none"
    /\ UNCHANGED <<pool, approvedRequestCap, admissionStopped, fenced, blocked>>
    /\ Forget({t})
    /\ Settle(waiters, {t}, {t}, Moved({t}, "idle"))

\* begin refuses a claim whose fences have moved since it was made.
Refused(t) == t \in stale \cup pauseRequested \/ ProfileOfTurn(t) \in blocked

\* requests.begin commits.  A begin already submitted may still commit under a
\* runtime that has fenced itself: the durable fence comes later.
BeginCommits(t) ==
    /\ phase[t] = "begin_pending" /\ attempt[t] = "none"
    /\ ~Refused(t)
    /\ attempt' = [attempt EXCEPT ![t] = "in_flight"]
    /\ UNCHANGED <<coordinator, pool, approvedRequestCap, admissionStopped,
                   fenced, lease, cancelBeforeCall, blocked, stale, pauseRequested, condemned>>

\* begin is acknowledged and nothing cancelled the request meanwhile: the lease
\* is consumed and the adapter calls upstream.
Call(t) ==
    /\ phase[t] = "begin_pending" /\ ~fenced /\ attempt[t] = "in_flight"
    /\ t \notin cancelBeforeCall
    /\ lease' = [lease EXCEPT ![t] = "consumed"]
    /\ phase' = Moved({t}, "request_active")
    /\ UNCHANGED <<activeRequestPermits, activeExecutionSlots, waiters,
                   requestPermitHeld, executionSlotHeld, pool, approvedRequestCap,
                   admissionStopped, fenced,
                   cancelBeforeCall, attempt, blocked, stale, pauseRequested, condemned>>

\* terminalizeCancelledBeforeCall and retainCancelledBeforeCallSlot: the
\* attempt exists, and either the profile was aborted or a replayed begin was
\* refused.  No call is made.
CancelBeforeCall(t) ==
    /\ phase[t] = "begin_pending" /\ ~fenced /\ attempt[t] = "in_flight"
    /\ t \in cancelBeforeCall \/ Refused(t)
    /\ attempt' = [attempt EXCEPT ![t] = "terminal"]
    /\ lease' = [lease EXCEPT ![t] = "consumed"]
    /\ UNCHANGED <<pool, approvedRequestCap, admissionStopped, fenced,
                   cancelBeforeCall, blocked, stale, pauseRequested, condemned>>
    /\ Settle(waiters, {t}, {}, Moved({t}, "captured"))

-----------------------------------------------------------------------------
(***************************************************************************)
(* The owner fence.                                                        *)
(***************************************************************************)
\* #beginFence: the fence's signal cancels every issued lease and every queued
\* admission, admission stops for good, and abortAll("ownership_lost") abandons
\* the active leases.  Pairs granted to a turn that has not resumed are given
\* back by IssueLease.
BeginFence ==
    LET kept == At("granted")
        queued == At("queued")
    IN /\ fenced' = TRUE
       /\ admissionStopped' = TRUE
       /\ lease' = [t \in Turns |->
                      CASE phase[t] \in Active -> "closed"
                        [] phase[t] = "leased" -> "cancelled"
                        [] OTHER -> lease[t]]
       /\ UNCHANGED <<pool, approvedRequestCap, cancelBeforeCall, attempt, blocked,
                      stale, pauseRequested, condemned>>
       /\ Settle(<<>>, Turns \ kept, Turns \ kept, Moved(queued, "idle"))

\* Renewal or a claim was lost, or a control-plane retry window was exhausted.
OwnershipLost ==
    /\ ~fenced
    /\ BeginFence

\* abandonUncertainRequest: the capture threw, or the attempt that exists
\* cannot be terminalized.  The rejection reaches #beginFence before any other
\* turn's I/O completes.
AbandonUncertain(t) ==
    /\ ~fenced
    /\ attempt[t] = "in_flight"
    /\ phase[t] \in {"request_active", "begin_pending"}
    /\ phase[t] = "begin_pending" => t \in cancelBeforeCall \/ Refused(t)
    /\ BeginFence

\* begin refuses the claim before any attempt was written.  The executor then
\* terminalizes the attempt that is not there; the repository answers
\* TENANT_SCOPE_VIOLATION, which is an invariant failure and not a stale one,
\* and the owner is abandoned as if a request were uncertain.
StaleBegin(t) ==
    /\ phase[t] = "begin_pending" /\ ~fenced /\ attempt[t] = "none"
    /\ Refused(t)
    /\ BeginFence

\* A fenced turn's next control-plane call throws; what it releases is gone.
FencedTurnEnds(t) ==
    /\ fenced /\ phase[t] \in Active \cup {"leased"}
    /\ UNCHANGED <<pool, approvedRequestCap, admissionStopped, fenced, blocked>>
    /\ Forget({t})
    /\ Settle(waiters, {}, {}, Moved({t}, "idle"))

\* stop(): admission stops, running turns are left to drain.
Stop ==
    /\ ~admissionStopped
    /\ admissionStopped' = TRUE
    /\ UNCHANGED <<pool, approvedRequestCap, fenced, blocked>>
    /\ Forget(At("queued"))
    /\ Settle(<<>>, {}, {}, Moved(At("queued"), "idle"))

-----------------------------------------------------------------------------
(***************************************************************************)
(* The outcome of a call.                                                  *)
(***************************************************************************)
\* requests.terminalize commits.  A connection-blocking failure opens (or
\* joins) the profile's episode in the same transaction, and every claim of
\* the profile carries a health generation that is now old.  A claim that is
\* itself old may only join an episode that is still open.
TerminalizeCommits(t, blocking) ==
    LET p == ProfileOfTurn(t)
    IN /\ phase[t] = "request_active" /\ ~fenced
       /\ blocking /\ t \in stale => p \in blocked
       /\ attempt' = [attempt EXCEPT ![t] = "terminal"]
       /\ phase' = Moved({t}, IF blocking THEN "blocking" ELSE "terminalized")
       /\ blocked' = IF blocking THEN blocked \cup {p} ELSE blocked
       /\ stale' = IF blocking
                   THEN stale \cup {u \in Turns : ProfileOfTurn(u) = p /\ phase[u] # "idle"}
                   ELSE stale
       /\ UNCHANGED <<activeRequestPermits, activeExecutionSlots, waiters,
                      requestPermitHeld, executionSlotHeld, pool, approvedRequestCap,
                      admissionStopped, fenced, lease,
                      cancelBeforeCall, pauseRequested, condemned>>

\* Mutation: only the requests that already called are aborted.
AbortProfileCalledOnly(p) ==
    LET active == {u \in Turns : ProfileOfTurn(u) = p /\ phase[u] \in Active}
    IN /\ cancelBeforeCall' = cancelBeforeCall
       /\ lease' = [u \in Turns |->
                      IF u \in active \ At("begin_pending") THEN "cancelled" ELSE lease[u]]

\* #abortProfile: a request not yet called is told not to, one that has called
\* is cancelled and terminalizes by itself.
AbortProfile(p) ==
    LET active == {u \in Turns : ProfileOfTurn(u) = p /\ phase[u] \in Active}
        pending == active \cap At("begin_pending")
    IN /\ cancelBeforeCall' = cancelBeforeCall \cup pending
       /\ lease' = [u \in Turns |->
                      IF u \in active \ pending THEN "cancelled" ELSE lease[u]]

\* The terminalization is acknowledged.  A blocking failure first aborts the
\* profile's requests and cancels its queue; only then is the permit released.
TerminalizeAcked(t) ==
    LET p == ProfileOfTurn(t)
        queued == {u \in At("queued") : ProfileOfTurn(u) = p}
    IN /\ phase[t] \in {"terminalized", "blocking"} /\ ~fenced
       /\ UNCHANGED <<pool, approvedRequestCap, admissionStopped, fenced, blocked>>
       /\ IF phase[t] = "blocking"
          THEN /\ AbortProfile(p)
               /\ UNCHANGED attempt
               /\ stale' = stale \ queued
               /\ pauseRequested' = pauseRequested \ queued
               /\ condemned' = (condemned \cup
                    {u \in stale : ProfileOfTurn(u) = p}) \ queued
               /\ Settle(Without(waiters, queued), {t}, {},
                         [Moved(queued, "idle") EXCEPT ![t] = "captured"])
          ELSE /\ UNCHANGED <<lease, cancelBeforeCall, attempt, stale, pauseRequested, condemned>>
               /\ Settle(waiters, {t}, {}, Moved({t}, "captured"))

\* The work is finalized and releaseTerminalizedSlot closes the lease.
FinishTurn(t) ==
    /\ phase[t] = "captured" /\ ~fenced
    /\ UNCHANGED <<pool, approvedRequestCap, admissionStopped, fenced, blocked>>
    /\ Forget({t})
    /\ Settle(waiters, {}, {t}, Moved({t}, "idle"))

-----------------------------------------------------------------------------
(***************************************************************************)
(* What happens around the process.                                        *)
(***************************************************************************)
\* An operator asks for a pause while the claim is out.
RequestPause(t) ==
    /\ phase[t] # "idle" /\ t \notin pauseRequested
    /\ pauseRequested' = pauseRequested \cup {t}
    /\ UNCHANGED <<coordinator, pool, approvedRequestCap, admissionStopped,
                   fenced, lease, cancelBeforeCall, attempt, blocked, stale, condemned>>

\* A recovery test closes the profile's episode.
Recover(p) ==
    /\ p \in blocked
    /\ blocked' = blocked \ {p}
    /\ UNCHANGED <<coordinator, pool, approvedRequestCap, admissionStopped,
                   fenced, lease, cancelBeforeCall, attempt, stale, pauseRequested, condemned>>

\* What a turn does next, its environment willing or not.
TurnStep(t) ==
    \/ Acquire(t) \/ IssueLease(t) \/ Activate(t)
    \/ BeginCommits(t) \/ Call(t) \/ CancelBeforeCall(t) \/ StaleBegin(t)
    \/ \E b \in BOOLEAN : TerminalizeCommits(t, b)
    \/ TerminalizeAcked(t) \/ FinishTurn(t) \/ FencedTurnEnds(t)

Next ==
    \/ \E l \in Lanes : \E c \in 1..pool.cap[l] :
          ConfigureRequestPermitLane(l, c)
    \/ \E t \in Turns :
          \/ Claim(t) \/ CapacityRefused(t) \/ AdmissionWriteFails(t)
          \/ RejectUnstarted(t) \/ ReleaseUnusedLease(t)
          \/ AbandonUncertain(t) \/ RequestPause(t) \/ TurnStep(t)
    \/ OwnershipLost
    \/ Stop
    \/ \E p \in Profiles : Recover(p)

Spec == Init /\ [][Next]_vars

\* Liveness is asked of the smallest process, one slot for all its lanes: there
\* every turn waits for every other.
Scarce == pool.slots = 1

\* A turn that has been admitted runs on; nobody has to admit, fence, pause or
\* recover anything.
Fairness == \A t \in Turns : WF_vars(Scarce /\ TurnStep(t))
FairSpec == Spec /\ Fairness

-----------------------------------------------------------------------------
(***************************************************************************)
(* Properties.                                                             *)
(***************************************************************************)
\* The counters are exactly the pairs held, within the lane's cap and the
\* slots, and no pair holds a lane permit without a slot: nothing the
\* releases, cancellations and fences of the turns do leaks or double-counts
\* capacity (releaseRequestPermit / releaseExecutionSlot and their callers).
CapacityAccounted ==
    /\ \A l \in Lanes :
         /\ activeRequestPermits[l] = Cardinality(OnLane(requestPermitHeld, l))
         /\ activeRequestPermits[l] <= approvedRequestCap[l]
    /\ activeExecutionSlots = Cardinality(executionSlotHeld)
    /\ activeExecutionSlots <= pool.slots
    /\ requestPermitHeld \subseteq executionSlotHeld
    /\ \A t \in Turns : phase[t] \in {"idle", "claimed", "queued"} =>
                          t \notin executionSlotHeld

\* Until the owner is fenced, a durable attempt in flight still holds the lane
\* permit it was admitted with and belongs to a running turn, so the lane's cap
\* bounds the requests the database believes are in flight.
InFlightHoldsPermit ==
    \A t \in Turns : attempt[t] = "in_flight" /\ ~fenced =>
        t \in requestPermitHeld /\ phase[t] \in {"begin_pending", "request_active"}

\* No capacity is left idle while someone who could use it waits: #drain runs
\* wherever capacity or the queue changes.
WorkConserving ==
    ~admissionStopped =>
        \A i \in DOMAIN waiters :
            \/ activeRequestPermits[LaneOf[waiters[i]]]
                 >= approvedRequestCap[LaneOf[waiters[i]]]
            \/ activeExecutionSlots >= pool.slots

\* Capacity is accounted for, bounds what is in flight, and none is idle while
\* someone waits for it.
PermitInvariant ==
    PermitTypeOK /\ CapacityAccounted /\ InFlightHoldsPermit /\ WorkConserving

\* Once a blocking failure has aborted its profile no turn claimed before the
\* failure calls upstream: those in #active are flagged, and those the abort
\* could not see yet are refused by begin.
NoCallAfterAbort ==
    [][\A t \in Turns :
          phase[t] = "begin_pending" /\ phase'[t] = "request_active"
          => t \notin condemned]_vars

\* Every queued turn is granted or rejected: no lane starves behind another.
WaiterIsAnswered ==
    \A t \in Turns : Scarce /\ phase[t] = "queued" ~> phase[t] # "queued"

=============================================================================

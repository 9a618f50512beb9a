--------------------------- MODULE PackPublication ---------------------------
(***************************************************************************)
(* Publication of one pack: the provider database keeps desired states     *)
(* (build requests), sealed activation intents, the operations it sends    *)
(* and a mirror of the public head; the public store keeps the snapshots,  *)
(* the active head and an exact-replay ledger.                             *)
(*   packages/database/src/provider-pack-publication-context.ts            *)
(*   packages/database/src/provider-pack-build-request-repository.ts       *)
(*   packages/database/src/provider-pack-snapshot-repository.ts            *)
(*   packages/database/src/provider-pack-publication-outbox-repository.ts  *)
(*   convex/packSnapshotStore.ts, packCatalogOperationStore.ts,            *)
(*   packHeadRecovery.ts                                                   *)
(* Every repository method is one transaction on the pack's head row, so   *)
(* it is one action.  An operation is persisted before it is sent: from    *)
(* then on it may reach the public store at any moment, any number of      *)
(* times, whether or not its sender lives, and the ledger makes all        *)
(* deliveries but the first return the first one's receipt.  A head that   *)
(* is read is a copy of some past head (`heads` is the list of them).      *)
(* A claim's owner and fence only tell the current claimant from earlier   *)
(* ones (lockLease), so the lease names the work and whether it is live.   *)
(* The process that drives these methods is not in the repository: any     *)
(* order of them that the methods accept is a behaviour, except that it    *)
(* sends start, batch, finalize and activate in that order.                *)
(***************************************************************************)
EXTENDS Naturals, Sequences, FiniteSets, SequencesExt

CONSTANTS Titles,        \* the contents a pack may have
          None,          \* a snapshot or head that does not exist
          MaxSequence,   \* bound: desired states
          MaxAttempts,   \* maximumAttempts, 20 in the code
          MaxOperations, \* maximumOperations per intent, 100 in the code
          MaxOperator,   \* bound: hold, rollback, resume and block commands
          Readiness,     \* the outcomes of the readiness rules
          DeferStates,   \* the states a driver defers work to
          Lifecycles,    \* {0}: no lifecycle-only revisions; {0, 1}: with them
          Refusals,      \* TRUE: profile heads go missing, EV lapses, contents do not add up
          Lapses         \* TRUE: the 30-day replay window may run out

ASSUME PackAssumption == /\ MaxSequence \in Nat \ {0}
                         /\ MaxAttempts \in Nat \ {0}
                         /\ MaxOperations \in Nat \ {0}
                         /\ MaxOperator \in Nat
                         /\ Readiness \subseteq {"ready", "waiting", "blocked"}
                         /\ DeferStates \subseteq {"waiting", "blocked", "retry_scheduled", "superseded"}
                         /\ 0 \in Lifecycles /\ Lapses \in BOOLEAN /\ Refusals \in BOOLEAN

VARIABLES mirror,    \* pack_publication_heads: the pack's row
          lease,     \* its lease columns
          builds,    \* pack_build_requests, by sequence
          intents,   \* pack_activation_intents, by sequence
          ops,       \* pack_publication_operations and their receipts
          roots,     \* publicPackSnapshots
          heads,     \* activePackHeads: the head's successive values
          ledger,    \* packCatalogOperations: the stored outcome of each operation
          operator   \* operator commands so far

provider == <<mirror, lease, builds, intents>>
store == <<roots, heads, operator>>
vars == <<mirror, lease, builds, intents, ops, roots, heads, ledger, operator>>

Sequence == 1 .. MaxSequence

\* The bytes of a snapshot: what the pack holds, and whether it is on sale.
Snapshot == [title : Titles, life : Lifecycles]

\* ProviderPackBuildInputs: all bytes, or a lifecycle revision of a pinned baseline.
Desire == [snap : Snapshot, base : Snapshot \cup {None}]

NoBuild == [state |-> "none"]
NoIntent == [state |-> "none"]
Open == {"waiting", "ready", "retry_scheduled", "publishing"}
Success == {"applied", "already_applied", "already_active"}

\* The rows.
States == Open \cup {"blocked", "superseded", "published"}
Outcomes == Success \cup {"none", "conflict", "refused"}
Build == [state : States, reason : {"none", "data", "other", "expired"}, desire : Desire, epoch : Nat,
          request : BOOLEAN, attempts : 0 .. MaxAttempts]
Intent == [state : States, snap : Snapshot, attempts : 0 .. MaxAttempts, expired : BOOLEAN,
           expected : [generation : Nat, epoch : Nat, active : Snapshot \cup {None}]]
Operation == [kind : {"start", "batch", "finalize", "activate"}, receipt : Outcomes \cup {"operation_expired"}]
Root == [state : {"none", "staging", "complete", "blocked"}, sequence : 0 .. MaxSequence, batches : 0 .. 1]
HeadRow == [generation : Nat, epoch : Nat, held : BOOLEAN, sequence : Sequence, active : Snapshot,
            previous : Snapshot \cup {None}]

ASSUME NoneAssumption == None \notin Snapshot \cup HeadRow

PublicHead == IF heads = <<>> THEN None ELSE Last(heads)

-----------------------------------------------------------------------------
(* The provider database *)

\* Mutation: the refusal to repeat an old answer is taken for a refusal.
ExpiredReplayIsRefusal(s) ==
  \E i \in DOMAIN ops[s] :
     \/ ops[s][i].receipt = "none"
     \/ ops[s][i].kind = "activate" /\ ops[s][i].receipt \in Success

\* An operation without a receipt, or an activation that was not definitely
\* refused, may have changed the public head.
unreconciledPackOperations(s) ==
  \E i \in DOMAIN ops[s] :
     \/ ops[s][i].receipt = "none"
     \/ ops[s][i].kind = "activate" /\ ops[s][i].receipt \notin {"conflict", "refused"}

\* The intents whose effect must be settled before anything newer is sent.
reconciliation ==
  {s \in Sequence :
     /\ intents[s].state \in Open \cup {"blocked"}
     /\ intents[s].expected.epoch = mirror.epoch
     /\ \/ s = mirror.accepted /\ intents[s].snap = mirror.active
        \/ unreconciledPackOperations(s)}

\* Mutation: the latest work is claimed whatever is still unsettled.
EligibleRegardless(kind) ==
  LET state(s) == IF kind = "build" THEN builds[s].state ELSE intents[s].state
  IN {s \in Sequence \cap ({mirror.latest} \cup IF kind = "activation" THEN reconciliation ELSE {}) :
        state(s) \in Open}

\* The rows a claim of this kind may return.
eligible(kind) ==
  LET state(s) == IF kind = "build" THEN builds[s].state ELSE intents[s].state
      latest == {s \in Sequence : /\ s = mirror.latest /\ reconciliation = {}
                                  /\ state(s) \in {"ready", "retry_scheduled", "publishing"}}
      settle == IF kind = "activation" THEN reconciliation ELSE {}
  IN {s \in latest \cup settle : state(s) \in Open}

NoLease == [work |-> 0, kind |-> "none", live |-> FALSE]

lockLease(kind, s) ==
  /\ lease = [work |-> s, kind |-> kind, live |-> TRUE]
  /\ (IF kind = "build" THEN builds[s] ELSE intents[s]).state = "publishing"

Free == ~mirror.held /\ ~lease.live

\* A claim of work that has used its attempts parks it.
ClaimExhausted(kind, s) ==
  /\ Free /\ s \in eligible(kind)
  /\ IF kind = "build"
     THEN /\ builds[s].attempts >= MaxAttempts
          /\ builds' = [builds EXCEPT ![s].state = "blocked", ![s].reason = "expired"]
          /\ UNCHANGED intents
     ELSE /\ intents[s].attempts >= MaxAttempts
          /\ intents' = [intents EXCEPT ![s].state = "blocked"]
          /\ UNCHANGED builds
  /\ lease' = NoLease
  /\ UNCHANGED <<mirror, ops, ledger, store>>

\* Older work left in 'publishing' by a dead claimant is given up, unless its
\* operations may still take effect.
StaleBuilds(s) == [t \in Sequence |-> IF builds[t].state = "publishing" /\ t < s
                                      THEN [builds[t] EXCEPT !.state = "superseded"] ELSE builds[t]]
StaleIntents(s) == [t \in Sequence |-> IF /\ intents[t].state = "publishing" /\ t < s
                                          /\ ~unreconciledPackOperations(t)
                                       THEN [intents[t] EXCEPT !.state = "superseded"] ELSE intents[t]]

Claim(kind, s) ==
  /\ Free /\ s \in eligible(kind)
  /\ IF kind = "build"
     THEN /\ builds[s].attempts < MaxAttempts
          /\ builds' = [StaleBuilds(s) EXCEPT ![s].state = "publishing", ![s].attempts = @ + 1]
          /\ intents' = StaleIntents(s)
     ELSE /\ intents[s].attempts < MaxAttempts
          /\ intents' = [StaleIntents(s) EXCEPT ![s].state = "publishing", ![s].attempts = @ + 1]
          /\ builds' = StaleBuilds(s)
  /\ lease' = [work |-> s, kind |-> kind, live |-> TRUE]
  /\ UNCHANGED <<mirror, ops, ledger, store>>

\* The claimant stops renewing: 60 seconds pass on the database clock.
LeaseExpires ==
  /\ lease.live
  /\ lease' = [lease EXCEPT !.live = FALSE]
  /\ UNCHANGED <<mirror, builds, intents, ops, ledger, store>>

\* Any admitted desired state, with the readiness the rules give it at this moment.
Captured == {[snap |-> [title |-> t, life |-> 0], base |-> None] : t \in Titles}
            \cup (IF mirror.active = None THEN {}
                  ELSE {[snap |-> [mirror.active EXCEPT !.life = l], base |-> mirror.active]
                          : l \in Lifecycles \ {mirror.active.life}})

Represented(d, st) ==
  LET previous == builds[mirror.latest] IN
  /\ mirror.latest > 0
  /\ previous.desire = d /\ previous.epoch = mirror.epoch
  /\ \/ previous.state = st /\ previous.reason = (IF st = "ready" THEN "none" ELSE "data")
     \/ st = "ready" /\ previous.request
  /\ previous.state # "superseded" /\ intents[mirror.latest].state # "superseded"

\* persist: what a new sequence does to the rows.  The older work nobody holds
\* is superseded, an intent only if its operations cannot take effect any more.
Idle(t, state) == t <= mirror.latest /\ state \in {"waiting", "ready", "retry_scheduled", "blocked"}

PersistBuilds(d, st, leased) ==
  [t \in Sequence |->
     IF t = mirror.latest + 1
     THEN [state |-> st, reason |-> IF st = "ready" THEN "none" ELSE "data", desire |-> d,
           epoch |-> mirror.epoch, request |-> st = "ready", attempts |-> 0]
     ELSE IF Idle(t, builds[t].state) /\ t # leased
     THEN [builds[t] EXCEPT !.state = "superseded"] ELSE builds[t]]

\* Mutation: every older intent is superseded, sent or not.
PersistOverAll(leased) ==
  [t \in Sequence |-> IF t <= mirror.latest /\ intents[t].state \in Open
                      THEN [intents[t] EXCEPT !.state = "superseded"] ELSE intents[t]]

PersistIntents(leased) ==
  [t \in Sequence |->
     IF Idle(t, intents[t].state) /\ t # leased /\ ~unreconciledPackOperations(t)
     THEN [intents[t] EXCEPT !.state = "superseded"] ELSE intents[t]]

Leased(kind) == IF lease.kind = kind THEN lease.work ELSE 0

\* enqueueInTransaction, and rejectInTransaction for a capture that cannot be public.
Plan(d, st) ==
  /\ d \in Captured /\ ~Represented(d, st)
  /\ mirror.latest < MaxSequence
  /\ builds' = PersistBuilds(d, st, Leased("build"))
  /\ intents' = PersistIntents(Leased("activation"))
  /\ mirror' = [mirror EXCEPT !.latest = @ + 1]
  /\ UNCHANGED <<lease, ops, ledger, store>>

\* sealAndEnqueueActivation.  The readiness rules are asked again: what was
\* ready when it was planned may be waiting or blocked now.
Seal(s, st) ==
  /\ lockLease("build", s)
  /\ ~mirror.held /\ mirror.latest = s /\ builds[s].request /\ builds[s].epoch = mirror.epoch
  /\ builds[s].desire.base # None => builds[s].desire.base = mirror.active
  /\ IF st = "ready"
     THEN /\ builds' = [builds EXCEPT ![s].state = "published", ![s].reason = "none"]
          /\ intents' = [intents EXCEPT ![s] =
               [state |-> "ready", snap |-> builds[s].desire.snap, attempts |-> 0, expired |-> FALSE,
                expected |-> [generation |-> mirror.generation, epoch |-> mirror.epoch, active |-> mirror.active]]]
     ELSE /\ builds' = [builds EXCEPT ![s].state = st, ![s].reason = "data"]
          /\ UNCHANGED intents
  /\ lease' = NoLease
  /\ UNCHANGED <<mirror, ops, ledger, store>>

\* The intent's 24 hours run out.
IntentExpires(s) ==
  /\ intents[s].state \in Open \cup {"blocked"} /\ ~intents[s].expired
  /\ intents' = [intents EXCEPT ![s].expired = TRUE]
  /\ UNCHANGED <<mirror, lease, builds, ops, ledger, store>>

Pipeline == <<"start", "batch", "finalize", "activate">>

\* What the driver sends next: the first step that has not succeeded yet, once
\* every operation before it has been answered.
NextKind(s) ==
  LET done == {ops[s][i].kind : i \in {j \in DOMAIN ops[s] : ops[s][j].receipt \in Success}}
  IN {Pipeline[n] : n \in {m \in DOMAIN Pipeline : /\ Pipeline[m] \notin done
                                                   /\ \A l \in 1 .. (m - 1) : Pipeline[l] \in done}}

recordOperation(s) ==
  /\ lockLease("activation", s)
  /\ \A i \in DOMAIN ops[s] : ops[s][i].receipt # "none"
  /\ ~intents[s].expired
  /\ ~mirror.held /\ mirror.latest = s /\ mirror.epoch = intents[s].expected.epoch
  /\ Len(ops[s]) < MaxOperations
  /\ \E k \in NextKind(s) : ops' = [ops EXCEPT ![s] = Append(@, [kind |-> k, receipt |-> "none"])]
  /\ ledger' = [ledger EXCEPT ![s] = Append(@, "none")]
  /\ UNCHANGED <<provider, store>>

\* retireInTransaction, from retireReconciled or from an expired intent's next
\* operation.  The desired state of an expired latest intent is planned again.
Retire(s, st) ==
  /\ lockLease("activation", s)
  /\ intents[s].expired \/ mirror.latest > s
  /\ ~mirror.held /\ mirror.epoch = intents[s].expected.epoch /\ mirror.accepted # s
  /\ ~unreconciledPackOperations(s)
  /\ lease' = NoLease
  /\ IF mirror.latest > s
     THEN /\ intents' = [intents EXCEPT ![s].state = "superseded"]
          /\ UNCHANGED <<mirror, builds>>
     ELSE /\ builds[s].desire.base # None => builds[s].desire.base = mirror.active
          /\ mirror.latest < MaxSequence
          /\ builds' = PersistBuilds(builds[s].desire, st, 0)
          /\ intents' = [PersistIntents(0) EXCEPT ![s].state = "superseded"]
          /\ mirror' = [mirror EXCEPT !.latest = @ + 1]
  /\ UNCHANGED <<ops, ledger, store>>

\* The public store's answer, or after 30 days its refusal to repeat it.
recordReceipt(s, i) ==
  /\ lockLease("activation", s)
  /\ ops[s][i].receipt = "none" /\ ledger[s][i] # "none"
  /\ \E r \in {ledger[s][i]} \cup (IF Lapses /\ intents[s].expired THEN {"operation_expired"} ELSE {}) :
       ops' = [ops EXCEPT ![s][i].receipt = r]
  /\ UNCHANGED <<provider, ledger, store>>

\* Mutation: seeing the snapshot active is taken as success.
CompleteOnSight(s, i, h) ==
  /\ lockLease("activation", s)
  /\ ops[s][i].kind = "activate" /\ ops[s][i].receipt # "none"
  /\ heads[h].active = intents[s].snap /\ heads[h].epoch = intents[s].expected.epoch
  /\ heads[h].generation >= mirror.generation
  /\ intents' = [intents EXCEPT ![s].state = "published"]
  /\ lease' = NoLease
  /\ UNCHANGED <<mirror, builds, ops, ledger, store>>

\* complete, with a head read from the public store, perhaps a while ago.
complete(s, i, h) ==
  /\ lockLease("activation", s)
  /\ ops[s][i].kind = "activate" /\ ops[s][i].receipt \in Success
  /\ LET head == heads[h]
         expected == intents[s].expected
         again == ops[s][i].receipt = "already_active"
     IN /\ head.active = intents[s].snap /\ head.sequence = s
        /\ head.generation >= expected.generation + (IF again THEN 0 ELSE 1)
        /\ again => expected.active = intents[s].snap
        /\ head.epoch = expected.epoch
        /\ head.generation >= mirror.generation /\ head.epoch >= mirror.epoch
        /\ mirror' = [mirror EXCEPT !.generation = head.generation, !.epoch = head.epoch, !.held = head.held,
                                    !.accepted = head.sequence, !.active = head.active]
  /\ intents' = [intents EXCEPT ![s].state = "published"]
  /\ lease' = NoLease
  /\ UNCHANGED <<builds, ops, ledger, store>>

\* defer: the claimant gives its work back.
defer(kind, s, st) ==
  /\ lockLease(kind, s)
  /\ LET reconciling == kind = "activation" /\ (mirror.accepted = s \/ unreconciledPackOperations(s))
         next == IF mirror.latest > s /\ ~reconciling THEN "superseded" ELSE st
     IN /\ ~(reconciling /\ st = "superseded")
        /\ IF kind = "build" THEN builds' = [builds EXCEPT ![s].state = next, ![s].reason = "other"] /\ UNCHANGED intents
                             ELSE intents' = [intents EXCEPT ![s].state = next] /\ UNCHANGED builds
  /\ lease' = NoLease
  /\ UNCHANGED <<mirror, ops, ledger, store>>

\* A read may be mirrored if it is not behind what is known; a repeat changes nothing.
Observable(head) ==
  /\ head.generation >= mirror.generation /\ head.epoch >= mirror.epoch /\ head.sequence >= mirror.accepted
  /\ head.generation = mirror.generation => head.active = mirror.active
  /\ (head.generation = mirror.generation /\ head.epoch = mirror.epoch) =>
        /\ head.held => mirror.held /\ mirror.accepted = head.sequence
        /\ ~(mirror.held = head.held /\ mirror.accepted = head.sequence)

\* observeHead: work the observed head makes impossible is superseded, except
\* the episode that produced it.
observeHead(h) ==
  LET head == heads[h]
      exact(s) == intents[s].snap = head.active /\ s = head.sequence /\ intents[s].expected.epoch = head.epoch
  IN /\ mirror.latest > 0 /\ Observable(head)
     /\ intents' = [s \in Sequence |-> IF intents[s].state \in Open /\ ~exact(s)
                                       THEN [intents[s] EXCEPT !.state = "superseded"] ELSE intents[s]]
     /\ builds' = [s \in Sequence |->
          IF /\ builds[s].state \in Open
             /\ \/ builds[s].epoch # head.epoch
                \/ builds[s].desire.base \notin {None, head.active}
          THEN [builds[s] EXCEPT !.state = "superseded", !.reason = "other"] ELSE builds[s]]
     /\ mirror' = [mirror EXCEPT !.generation = head.generation, !.epoch = head.epoch, !.held = head.held,
                                 !.accepted = head.sequence, !.active = head.active]
     /\ lease' = NoLease
     /\ UNCHANGED <<ops, ledger, store>>

-----------------------------------------------------------------------------
(* The public store *)

\* The first arrival of an operation runs its handler and stores the receipt.
Receive(s, i, kind) ==
  /\ i \in DOMAIN ops[s] /\ ops[s][i].kind = kind /\ ledger[s][i] = "none"
  /\ UNCHANGED <<provider, ops, operator>>

Answer(s, i, outcome) == ledger' = [ledger EXCEPT ![s][i] = outcome]

\* start: a first activation needs the provider's profile head.
start(s, i) ==
  /\ Receive(s, i, "start")
  /\ LET x == intents[s].snap
         root == roots[x]
     IN \/ /\ root.state = "blocked"
           /\ Answer(s, i, "refused") /\ UNCHANGED <<roots, heads>>
        \/ /\ root.state \in {"staging", "complete"}
           /\ Answer(s, i, IF s < root.sequence THEN "conflict"
                           ELSE IF s > root.sequence THEN "applied" ELSE "already_applied")
           /\ roots' = IF s > root.sequence THEN [roots EXCEPT ![x].sequence = s] ELSE roots
           /\ UNCHANGED heads
        \/ /\ root.state = "none"
           /\ Answer(s, i, "applied")
           /\ roots' = [roots EXCEPT ![x] = [state |-> "staging", sequence |-> s, batches |-> 0]]
           /\ UNCHANGED heads
        \/ /\ Refusals /\ root.state = "none" /\ PublicHead = None
           /\ Answer(s, i, "refused") /\ UNCHANGED <<roots, heads>>

\* applyBatch: the contents are one batch.  A profile head may be missing.
applyBatch(s, i) ==
  /\ Receive(s, i, "batch")
  /\ UNCHANGED heads
  /\ LET x == intents[s].snap
         root == roots[x]
     IN \/ /\ root.state \in {"none", "blocked"} \/ (Refusals /\ root.state = "staging" /\ root.batches = 0)
           /\ Answer(s, i, "refused") /\ UNCHANGED roots
        \/ /\ root.state = "complete" \/ (root.state = "staging" /\ root.batches = 1)
           /\ Answer(s, i, "already_applied") /\ UNCHANGED roots
        \/ /\ root.state = "staging" /\ root.batches = 0
           /\ Answer(s, i, "applied")
           /\ roots' = [roots EXCEPT ![x].batches = 1]

\* finalize: content that does not add up blocks the snapshot for good.
finalize(s, i) ==
  /\ Receive(s, i, "finalize")
  /\ UNCHANGED heads
  /\ LET x == intents[s].snap
         root == roots[x]
     IN \/ /\ root.state \in {"none", "blocked"} \/ (root.state = "staging" /\ root.batches = 0)
           /\ Answer(s, i, "refused") /\ UNCHANGED roots
        \/ /\ root.state = "complete"
           /\ Answer(s, i, "already_applied") /\ UNCHANGED roots
        \/ /\ root.state = "staging" /\ root.batches = 1
           /\ \/ Answer(s, i, "applied") /\ roots' = [roots EXCEPT ![x].state = "complete"]
              \/ Refusals /\ Answer(s, i, "refused") /\ roots' = [roots EXCEPT ![x].state = "blocked"]

\* activate: a compare-and-swap over the head.
Activatable(s) == roots[intents[s].snap].state = "complete" /\ ~intents[s].expired
Declared(s) == roots[intents[s].snap].sequence = s
ExpectedHead(s) ==
  IF PublicHead = None THEN intents[s].expected = [generation |-> 0, epoch |-> 0, active |-> None]
                 ELSE intents[s].expected = [generation |-> PublicHead.generation, epoch |-> PublicHead.epoch, active |-> PublicHead.active]

OnHold == PublicHead # None /\ PublicHead.held

activate(s, i) ==
  /\ Receive(s, i, "activate")
  /\ UNCHANGED roots
  /\ \/ \* incomplete, blocked or expired; or the sealed EV or profile proof no longer holds
        /\ ~Activatable(s) \/ (Declared(s) /\ (Refusals \/ OnHold))
        /\ Answer(s, i, "refused") /\ UNCHANGED heads
     \/ /\ Activatable(s)
        /\ ~Declared(s) \/ (~OnHold /\ ~ExpectedHead(s))
        /\ Answer(s, i, "conflict") /\ UNCHANGED heads
     \/ /\ Activatable(s) /\ Declared(s) /\ ~OnHold /\ ExpectedHead(s)
        /\ intents[s].expected.active = intents[s].snap
        /\ Answer(s, i, "already_active")
        /\ heads' = IF s > PublicHead.sequence THEN Append(heads, [PublicHead EXCEPT !.sequence = s]) ELSE heads
     \/ /\ Activatable(s) /\ Declared(s) /\ ~OnHold /\ ExpectedHead(s)
        /\ intents[s].expected.active # intents[s].snap
        /\ IF PublicHead # None /\ s <= PublicHead.sequence
           THEN Answer(s, i, "conflict") /\ UNCHANGED heads
           ELSE /\ Answer(s, i, "applied")
                /\ heads' = Append(heads,
                     [generation |-> (IF PublicHead = None THEN 0 ELSE PublicHead.generation) + 1,
                      epoch |-> IF PublicHead = None THEN 0 ELSE PublicHead.epoch, held |-> FALSE, sequence |-> s,
                      active |-> intents[s].snap, previous |-> IF PublicHead = None THEN None ELSE PublicHead.active])

Command ==
  /\ operator < MaxOperator
  /\ operator' = operator + 1
  /\ UNCHANGED <<provider, ops, ledger>>

\* hold: the epoch moves, so nothing prepared before can be activated.
hold ==
  /\ Command
  /\ PublicHead # None /\ ~PublicHead.held
  /\ heads' = Append(heads, [PublicHead EXCEPT !.held = TRUE, !.epoch = @ + 1])
  /\ UNCHANGED roots

\* activateRetained: back to the snapshot before, while held.
activateRetained ==
  /\ Command
  /\ PublicHead # None /\ PublicHead.held /\ PublicHead.previous # None
  /\ roots[PublicHead.previous].state = "complete"
  /\ heads' = Append(heads, [PublicHead EXCEPT !.generation = @ + 1, !.active = PublicHead.previous, !.previous = PublicHead.active])
  /\ UNCHANGED roots

resume ==
  /\ Command
  /\ PublicHead # None /\ PublicHead.held
  /\ heads' = Append(heads, [PublicHead EXCEPT !.held = FALSE])
  /\ UNCHANGED roots

blockSnapshot(x) ==
  /\ Command
  /\ roots[x].state \in {"staging", "complete"}
  /\ PublicHead # None => PublicHead.active # x
  /\ roots' = [roots EXCEPT ![x].state = "blocked"]
  /\ UNCHANGED heads

-----------------------------------------------------------------------------
PackInit ==
  /\ mirror = [latest |-> 0, accepted |-> 0, epoch |-> 0, generation |-> 0, held |-> FALSE, active |-> None]
  /\ lease = NoLease
  /\ builds = [s \in Sequence |-> NoBuild]
  /\ intents = [s \in Sequence |-> NoIntent]
  /\ ops = [s \in Sequence |-> <<>>]
  /\ roots = [x \in Snapshot |-> [state |-> "none", sequence |-> 0, batches |-> 0]]
  /\ heads = <<>>
  /\ ledger = [s \in Sequence |-> <<>>]
  /\ operator = 0

ProviderStep ==
  \/ \E d \in Captured, st \in Readiness : Plan(d, st)
  \/ \E s \in Sequence, kind \in {"build", "activation"} :
       Claim(kind, s) \/ ClaimExhausted(kind, s) \/ (\E st \in DeferStates : defer(kind, s, st))
  \/ LeaseExpires
  \/ \E s \in Sequence, st \in Readiness : Seal(s, st) \/ Retire(s, st)
  \/ \E s \in Sequence : IntentExpires(s) \/ recordOperation(s)
  \/ \E s \in Sequence : \E i \in DOMAIN ops[s] :
       recordReceipt(s, i) \/ (\E h \in DOMAIN heads : complete(s, i, h))
  \/ \E h \in DOMAIN heads : observeHead(h)

StoreStep ==
  \/ \E s \in Sequence : \E i \in DOMAIN ops[s] :
       start(s, i) \/ applyBatch(s, i) \/ finalize(s, i) \/ activate(s, i)
  \/ hold \/ activateRetained \/ resume
  \/ \E x \in Snapshot : blockSnapshot(x)

PackNext == ProviderStep \/ StoreStep

PackSpec == PackInit /\ [][PackNext]_vars
-----------------------------------------------------------------------------
(* Properties *)

PackTypeOK ==
  /\ mirror \in [latest : 0 .. MaxSequence, accepted : 0 .. MaxSequence, epoch : Nat, generation : Nat,
                 held : BOOLEAN, active : Snapshot \cup {None}]
  /\ lease \in [work : 0 .. MaxSequence, kind : {"none", "build", "activation"}, live : BOOLEAN]
  /\ builds \in [Sequence -> {NoBuild} \cup Build] /\ intents \in [Sequence -> {NoIntent} \cup Intent]
  /\ ops \in [Sequence -> Seq(Operation)] /\ ledger \in [Sequence -> Seq(Outcomes)]
  /\ \A s \in Sequence : Len(ops[s]) = Len(ledger[s])
  /\ roots \in [Snapshot -> Root] /\ heads \in Seq(HeadRow)
  /\ operator \in 0 .. MaxOperator

\* At any moment at most one intent of the current epoch may still change the
\* public head, or is what changed it last without having been settled; so a
\* claim never finds two activations to reconcile and never mixes them up
\* (claim's `reconciliation` subquery in provider-pack-publication-context.ts).
OneEpisodeUnsettled == Cardinality(reconciliation) <= 1

\* Work the provider has given up never reaches the public: no activation that
\* a superseded intent left behind is applied afterwards, however late its
\* request arrives ("Only explicit receipt/head reconciliation may retire those
\* episodes", provider-pack-publication-context.ts).
SupersededStaysPrivate ==
  [][\A s \in Sequence : intents[s].state = "superseded" =>
        \A i \in DOMAIN ledger[s] : ledger[s][i] = "none" /\ ops[s][i].kind = "activate" =>
           ledger'[s][i] \notin Success]_vars

\* The intents whose activation the public store accepted.
Applied == {s \in Sequence : \E i \in DOMAIN ledger[s] : ops[s][i].kind = "activate" /\ ledger[s][i] \in Success}

\* A success is never thrown away: an intent whose activation the public store
\* accepted is only superseded after an operator moved the epoch, whatever
\* receipts were lost, late or refused as too old ("expired replay does not"
\* prove non-activation; observeHead keeps "the exact successful episode").
NoSuccessDiscarded ==
  \A s \in Applied : intents[s].state = "superseded" => intents[s].expected.epoch < mirror.epoch

\* The latest desired state is not lost: as long as the public epoch has not
\* moved, neither its build nor its intent is superseded unless a newer desired
\* state took over.  (A driver that defers work to 'superseded' says so itself.)
LatestIsAlive ==
  mirror.latest > 0 /\ builds[mirror.latest].epoch = mirror.epoch =>
     /\ builds[mirror.latest].state # "superseded" \/ builds[mirror.latest].desire.base # None
     /\ intents[mirror.latest].state # "superseded"

\* Planning, retiring and superseding leave one unsettled episode at most, and
\* the latest desired state alive, in well-typed states.
PackInvariant == PackTypeOK /\ OneEpisodeUnsettled /\ LatestIsAlive

\* An intent is emitted when it is sealed, applied when the public store accepts
\* its activation, and forgotten as published only after that.
Ledger == INSTANCE ReliableOutbox
            WITH Item <- Sequence, emitted <- {s \in Sequence : intents[s] # NoIntent},
                 applied <- Applied, acknowledged <- {s \in Sequence : intents[s].state = "published"}
PublishedWasActivated == Ledger!Spec

=============================================================================

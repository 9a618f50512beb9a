--------------------------- MODULE ManifestPromotion ---------------------------
(***************************************************************************)
(* The manifest promotion lane: workers that turn settled facts into at    *)
(* most one durable attempt per evaluation, send its exact operation to    *)
(* the public catalog in Convex, find out what became of it, and mirror    *)
(* the public state.  packages/database/src/manifest-promotion-*.ts and    *)
(* promotion-v2-*.ts, packages/services/src/manifest-promotion-runner.ts,  *)
(* manifest-promotion-planner.ts, catalog-manifest-promotion-bootstrap.ts, *)
(* convex/catalogManifest*.ts.                                             *)
(*                                                                         *)
(* One provider is modelled, beside platforms that are configured and      *)
(* never enabled.  Its facts are three counters: observations, lifecycle   *)
(* decisions (it is enabled at the even ones, where it is configured) and  *)
(* the shared configuration epoch.  A manifest is the release it           *)
(* references and the epoch.  Leases and retry delays are kept as what has become     *)
(* true: a claim has lapsed, a retry is due whenever it is taken.          *)
(***************************************************************************)
EXTENDS Naturals, Sequences, FiniteSets, SequencesExt

CONSTANTS Worker,          \* worker processes
          Provider,        \* the provider
          ProviderSets,    \* the sets of platforms that may be configured
          MaximumRetries,  \* retries before an attempt counts as exhausted
          MaxSeq,          \* bound: evaluations
          Reserve,         \* bound: evaluations kept for after a provider's lag
          MaxRelease,      \* bound: provider releases
          MaxObs, MaxLife, MaxEpoch,   \* bounds: changes of the facts
          MaxFaults,       \* bound: crashes, lapses, losses, timeouts, overlaps
          MaxOperator,     \* bound: rollbacks, clears and blocks by operators
          MaxEvents,       \* bound: releases and all of these together
          None

ASSUME ManifestAssumption ==
    /\ MaximumRetries \in Nat /\ MaxSeq \in Nat \ {0}
    /\ Reserve \in 0..MaxSeq /\ ProviderSets # {} /\ {} \notin ProviderSets
    /\ None \notin Worker

VARIABLES facts,      \* what PostgreSQL has settled: [obs, life, epoch]
          configured, \* the platforms of the latest approved configuration
          head,       \* the completed provider head in PostgreSQL
          publicHead, \* the completed provider head in Convex
          lane,       \* manifest_promotion_lanes
          causes,     \* triggers in manifest_promotion_evaluations
          att,        \* manifest_promotion_attempts and _operations
          published,  \* every state the public pointer has had
          blocked,    \* catalogManifestBlocks
          net,        \* requests on their way
          worker,     \* [Worker -> where its cycle stands]
          faults, operated

env == <<facts, configured, head, publicHead>>
vars == <<env, lane, causes, att, published, blocked, net, worker, faults,
          operated>>

Seqs == 1..MaxSeq
Kinds == {"activate", "refresh", "clear", "no_change", "failure"}
Enabled == Provider \in configured /\ facts.life % 2 = 0

NoHead == [release |-> 0, epoch |-> 0, life |-> 0, obs |-> 0]
Selection(obs, h) == [obs |-> obs, head |-> h]

\* A public state: its generation, the manifest, what was observed and which
\* provider proof was selected, and the operation that wrote it.
Empty == [gen |-> 0, manifest |-> None, selection |-> None, by |-> 0]
Public == Last(published)
WrittenBy(s) == SelectSeq(published, LAMBDA p : p.by = s)
Applied(s) == WrittenBy(s) # <<>>

IdleWorker == [pc |-> "idle", seq |-> 0, token |-> 0, data |-> None]
Idle(w) == worker' = [worker EXCEPT ![w] = IdleWorker]
Go(w, pc) == worker' = [worker EXCEPT ![w].pc = pc]

ManifestInit ==
    /\ facts = [obs |-> 0, life |-> 0, epoch |-> 0]
    /\ configured \in ProviderSets
    /\ head = NoHead /\ publicHead = NoHead
    /\ lane = [requested |-> 0, confirmed |-> 0, active |-> Empty,
               revision |-> 1, set |-> configured]
    /\ causes = {}
    /\ att = [s \in Seqs |-> None]
    /\ published = <<Empty>>
    /\ blocked = {}
    /\ net = {}
    /\ worker = [w \in Worker |-> IdleWorker]
    /\ faults = 0 /\ operated = 0

-----------------------------------------------------------------------------
(* The facts, the provider lane and the operators.                         *)

\* Something that is not a step of the lane itself may still happen.
Eventful == facts.obs + facts.life + facts.epoch + publicHead.release
              + faults + operated < MaxEvents

Fault == faults < MaxFaults /\ Eventful /\ faults' = faults + 1

Observe ==
    /\ facts.obs < MaxObs /\ Eventful
    /\ facts' = [facts EXCEPT !.obs = @ + 1]
    /\ UNCHANGED <<configured, head, publicHead>>

DecideLifecycle ==
    /\ facts.life < MaxLife /\ Eventful
    /\ facts' = [facts EXCEPT !.life = @ + 1]
    /\ UNCHANGED <<configured, head, publicHead>>

\* The provider lane's terminal operation reaches Convex: a new release, or
\* the old one confirmed under the latest facts.  Its claims wait for the
\* proof of the configured set.
ProviderFinalize ==
    /\ Enabled /\ lane.set = configured /\ head = publicHead
    /\ \E r \in {publicHead.release, publicHead.release + 1} :
         LET h == [release |-> r, epoch |-> facts.epoch,
                   life |-> facts.life, obs |-> facts.obs]
         IN /\ r \in 1..MaxRelease
            /\ r > publicHead.release => Eventful
            /\ r = publicHead.release => h.epoch = publicHead.epoch
            /\ h # publicHead
            /\ publicHead' = h
    /\ UNCHANGED <<facts, configured, head>>

FactsMove == /\ \/ Observe \/ DecideLifecycle \/ ProviderFinalize
             /\ UNCHANGED <<lane, causes, att, published, blocked, net,
                            worker, faults, operated>>

\* complete() of the provider lane adopts the head and requests an
\* evaluation in the same transaction.
ProviderComplete ==
    /\ head # publicHead
    /\ lane.requested < MaxSeq
    /\ head' = publicHead
    /\ lane' = [lane EXCEPT !.requested = @ + 1]
    /\ UNCHANGED <<facts, configured, publicHead, causes, att,
                   published, blocked, net, worker, faults, operated>>

\* A state written on operator authority, outside the lane: a rollback to a
\* manifest that was public before, or a clear.
OperatorWrites ==
    /\ operated < MaxOperator /\ Eventful
    /\ Public.manifest # None
    /\ \E p \in ToSet(published) :
         /\ p.manifest \notin blocked
         /\ p.manifest # Public.manifest
         /\ published' = Append(published,
              [gen |-> Public.gen + 1, manifest |-> p.manifest, by |-> 0,
               selection |-> IF p.manifest = None THEN None
                             ELSE Selection(facts.obs, p.selection.head)])
    /\ operated' = operated + 1
    /\ UNCHANGED <<env, lane, causes, att, blocked, net, worker, faults>>

OperatorBlocks ==
    /\ operated < MaxOperator /\ Eventful
    /\ \E p \in ToSet(published) :
         /\ p.manifest \notin blocked \cup {None, Public.manifest}
         /\ blocked' = blocked \cup {p.manifest}
    /\ operated' = operated + 1
    /\ UNCHANGED <<env, lane, causes, att, published, net, worker, faults>>

-----------------------------------------------------------------------------
(* Attempts, claims and supersession.                                      *)

ActiveStates == {"assembling", "ready", "in_progress", "retry_wait"}
ActiveSeqs == {s \in Seqs : att[s] # None /\ att[s].state \in ActiveStates}

NewAttempt == [state |-> "assembling", revision |-> lane.revision,
               set |-> lane.set, plan |-> None, sends |-> 0, acked |-> FALSE,
               retries |-> 0, cas |-> FALSE, token |-> 0]

\* promotionAttemptBootstrapProofIsCurrent
ProofCurrent(a) == /\ a.revision = lane.revision
                   /\ a.set = lane.set
                   /\ lane.set = configured

Released(a, state) == [a EXCEPT !.state = state, !.token = 0]

Confirm(l, s) == [l EXCEPT !.confirmed = IF s > @ THEN s ELSE @]
Request(l) == [l EXCEPT !.requested = @ + 1]

\* Mutation: what was sent under the old proof is superseded as well.
UndispatchedAny(s) == TRUE

\* Whether the attempt may still be superseded: nothing of it was sent.
Undispatched(s) == att[s].sends = 0

\* Mutation: superseding an attempt settles everything requested so far.
SupersededLaneAll(s) == IF lane.requested > s
                          THEN Confirm(lane, lane.requested)
                          ELSE Request(lane)

\* Superseding confirms the attempt's own evaluation when a newer one waits,
\* and asks for a new one otherwise.
SupersededLane(s) == IF lane.requested > s THEN Confirm(lane, s)
                                           ELSE Request(lane)

Supersede(s) ==
    /\ Undispatched(s)
    /\ lane.requested > s \/ lane.requested < MaxSeq
    /\ att' = [att EXCEPT ![s] = Released(@, "superseded")]
    /\ lane' = SupersededLane(s)

HoldsClaim(w) ==
    LET a == att[worker[w].seq]
    IN /\ a.token # 0 /\ a.token = worker[w].token
       /\ a.state \in ActiveStates \ {"retry_wait"}

\* Where a worker next locks its attempt; before it asks for a status or
\* probes the public state, in its heartbeat.
DatabasePcs == {"snapshot", "persist", "no_change", "status", "mark", "ack",
                "complete", "retry", "defer", "probe", "record", "fail"}

\* #lockClaimedAttempt finds the claim lapsed, taken over or settled.
LeaseLost(w) ==
    /\ worker[w].pc \in DatabasePcs
    /\ ~HoldsClaim(w)
    /\ Idle(w)
    /\ UNCHANGED <<env, lane, causes, att, published, blocked, net, faults,
                   operated>>

\* #lockClaimedAttempt, also in the heartbeat before a request: the provider
\* set was changed or proved anew, and nothing was sent.
StaleProof(w) ==
    /\ worker[w].pc \in DatabasePcs
    /\ HoldsClaim(w)
    /\ ~ProofCurrent(att[worker[w].seq])
    /\ Supersede(worker[w].seq)
    /\ Idle(w)
    /\ UNCHANGED <<env, causes, published, blocked, net, faults, operated>>

\* A step of worker w inside #lockClaimedAttempt, from pc.
Locked(w, pc) ==
    /\ worker[w].pc = pc
    /\ HoldsClaim(w)
    /\ ProofCurrent(att[worker[w].seq]) \/ ~Undispatched(worker[w].seq)

-----------------------------------------------------------------------------
(* A newly approved configuration.                                         *)

\* Mutation: nobody asks whether the removed platform is selected.
RemovalUnchecked(removed) == TRUE

\* prepare_catalog_configuration_provider_set_change refuses to remove a
\* platform that the mirrored state selects or that sent, unsettled work is
\* about.
RemovalAllowed(removed) ==
    Provider \in removed =>
        /\ lane.active.selection = None
        /\ head = publicHead
        /\ \A s \in ActiveSeqs : ~Undispatched(s) => att[s].plan.selection = None

\* It is a new epoch, with its own platforms.  Where it removes one, every
\* attempt that was not sent is superseded, and its request stays unconfirmed.
ChangeConfiguration ==
    /\ facts.epoch < MaxEpoch /\ Eventful
    /\ facts' = [facts EXCEPT !.epoch = @ + 1]
    /\ \E platforms \in ProviderSets :
         LET removed == configured \ platforms
         IN /\ RemovalAllowed(removed)
            /\ configured' = platforms
            /\ att' = [s \in Seqs |->
                         IF removed # {} /\ s \in ActiveSeqs /\ Undispatched(s)
                           THEN Released(att[s], "superseded") ELSE att[s]]
    /\ UNCHANGED <<head, publicHead, lane, causes, published, blocked, net,
                   worker, faults, operated>>

-----------------------------------------------------------------------------
(* A cycle: prove the provider set, request what the facts ask, claim.     *)

\* While the provider lane has not recorded the head it published, every
\* cycle may lose the same race; only so many of these are explored.
Paced == head = publicHead \/ lane.requested + Reserve <= MaxSeq

\* loadState asks for a new proof of a changed set, but not while a provider's
\* or the manifest's own sent operation is unsettled.
ReproofRequired == /\ lane.set # configured
                   /\ head = publicHead
                   /\ \A s \in ActiveSeqs : Undispatched(s)

\* ensureVerified begins, in a process with the credentials of the configured
\* set: validateEligibility stops any other.
LoadBootstrapState(w) ==
    /\ worker[w].pc = "idle" /\ Paced
    /\ IF \A v \in Worker : worker[v].pc = "idle" THEN UNCHANGED faults ELSE Fault
    /\ worker' = [worker EXCEPT
                    ![w].pc = IF ReproofRequired THEN "prove" ELSE "trigger",
                    ![w].data = IF ReproofRequired THEN configured ELSE None]
    /\ UNCHANGED <<env, lane, causes, att, published, blocked, net, operated>>

\* The coordinator reads the public state and the completed heads in Convex.
ProbeForProof(w) ==
    /\ worker[w].pc = "prove"
    /\ worker' = [worker EXCEPT
                    ![w].pc = "verify",
                    ![w].data = [set |-> @, active |-> Public,
                                 head |-> publicHead]]
    /\ UNCHANGED <<env, lane, causes, att, published, blocked, net, faults,
                   operated>>

\* #verify accepts the probes: the set is still the configured one, the public
\* state is the mirrored one, written by an acknowledged operation, the public
\* heads are the completed ones, and the public state selects no platform
\* outside the set.
Proves(proof) ==
    /\ proof.set = configured
    /\ proof.active = lane.active
    /\ proof.active.gen = 0
         \/ (proof.active.by # 0 /\ att[proof.active.by].acked)
    /\ Provider \in proof.set => proof.head = head
    /\ proof.active.selection # None => Provider \in proof.set

\* Verified, the set has a new proof, unless another worker has proved it.
\* Refused, the cycle ends: the loop polls again (STATE_CONFLICT), or the
\* process stops and is started again (BOOTSTRAP_UNPROVEN).
VerifyProviderSet(w) ==
    LET proof == worker[w].data
    IN /\ worker[w].pc = "verify"
       /\ IF Proves(proof)
            THEN /\ lane' = IF lane.set = proof.set THEN lane
                            ELSE [lane EXCEPT !.set = proof.set,
                                              !.revision = @ + 1]
                 /\ worker' = [worker EXCEPT ![w].pc = "reconcile",
                                             ![w].data = None]
            ELSE Idle(w) /\ UNCHANGED lane
       /\ UNCHANGED <<env, causes, att, published, blocked, net, faults,
                      operated>>

\* The receipts of the probes carry their time: the request is a new one.
EnqueueReconcile(w) ==
    /\ worker[w].pc = "reconcile"
    /\ lane.requested < MaxSeq
    /\ lane' = Request(lane)
    /\ Go(w, "trigger")
    /\ UNCHANGED <<env, causes, att, published, blocked, net, faults, operated>>

EnsureVerified(w) == \/ LoadBootstrapState(w) \/ ProbeForProof(w)
                     \/ VerifyProviderSet(w) \/ EnqueueReconcile(w)

LoadEvaluationTrigger(w) ==
    /\ worker[w].pc = "trigger"
    /\ worker' = [worker EXCEPT ![w].pc = "enqueue",
                                ![w].data = facts]
    /\ UNCHANGED <<env, lane, causes, att, published, blocked, net, faults,
                   operated>>

\* A trigger already recorded is coalesced.
EnqueueEvaluation(w) ==
    LET trigger == worker[w].data
    IN /\ worker[w].pc = "enqueue"
       /\ trigger \in causes \/ lane.requested < MaxSeq
       /\ causes' = causes \cup {trigger}
       /\ lane' = IF trigger \in causes THEN lane ELSE Request(lane)
       /\ worker' = [worker EXCEPT ![w].pc = "claim", ![w].data = None]
       /\ UNCHANGED <<env, att, published, blocked, net, faults, operated>>

\* Where a claimed attempt goes on.
Resume(a) == CASE a.cas -> "probe"
               [] a.plan = None -> "snapshot"
               [] a.plan # None /\ a.plan.kind = "no_change" -> "no_change"
               [] a.acked -> "complete"
               [] OTHER -> IF a.sends > 0 THEN "status" ELSE "mark"

\* Whether the active attempt s may be worked on under the proof it carries.
Workable(s) == ProofCurrent(att[s]) \/ ~Undispatched(s)

\* The random claim token: one that no worker on attempt s still holds.
FreshToken(s) ==
    Min({t \in 1 .. Cardinality(Worker) + 1 :
           \A v \in Worker : worker[v].seq = s => worker[v].token # t})

\* Taking the attempt s, which is a, for worker w.
TakeClaim(w, s, a) ==
    /\ att' = [att EXCEPT ![s] =
                 [a EXCEPT !.token = FreshToken(s),
                           !.state = IF a.plan = None THEN "assembling"
                                     ELSE "in_progress"]]
    /\ worker' = [worker EXCEPT ![w] =
                    [pc |-> Resume(a), seq |-> s, token |-> FreshToken(s),
                     data |-> None]]
    /\ UNCHANGED lane

\* claim: recovers the one active attempt, or starts one for the latest
\* request unless that request already had its attempt.
Claim(w) ==
    /\ worker[w].pc = "claim"
    /\ \/ \E s \in ActiveSeqs :
            \/ /\ ~Workable(s)
               /\ Supersede(s) /\ Idle(w)
            \/ /\ Workable(s)
               /\ IF att[s].token # 0
                    THEN Idle(w) /\ UNCHANGED <<att, lane>>
                    ELSE TakeClaim(w, s, att[s])
       \/ /\ ActiveSeqs = {}
          /\ IF /\ lane.set = configured
                /\ lane.requested > lane.confirmed
                /\ att[lane.requested] = None
               THEN TakeClaim(w, lane.requested, NewAttempt)
               ELSE Idle(w) /\ UNCHANGED <<att, lane>>
    /\ UNCHANGED <<env, causes, published, blocked, net, faults, operated>>

-----------------------------------------------------------------------------
(* Preparing the operation from one consistent snapshot.                   *)

\* selectProvider: the completed head when it is of this epoch and not older
\* than the last lifecycle decision, else the selection that is active, when
\* that manifest is of this epoch.
HeadEligible == /\ head.release > 0 /\ head.epoch = facts.epoch
                /\ head.life >= facts.life

FallbackEligible(active) == /\ active.manifest # None
                            /\ active.manifest.epoch = facts.epoch

\* prepareManifestPromotion over the facts, the completed head and a mirrored
\* public state.
PlanFor(active) ==
    LET chosen == IF HeadEligible THEN head ELSE active.selection.head
        manifest == [release |-> chosen.release, epoch |-> facts.epoch]
        selection == Selection(facts.obs, chosen)
        Plan(kind, m, sel) == [kind |-> kind, manifest |-> m,
                               selection |-> sel, expected |-> active]
    IN IF ~Enabled
         THEN Plan(IF active.manifest = None THEN "no_change" ELSE "clear",
                   None, None)
       ELSE IF ~HeadEligible /\ ~FallbackEligible(active)
         THEN Plan("failure", None, None)
       ELSE IF active.manifest # manifest
         THEN Plan("activate", manifest, selection)
       ELSE Plan(IF active.selection = selection THEN "no_change"
                 ELSE "refresh", manifest, selection)

\* loadEvaluationSnapshot, and the planning from it.
LoadEvaluationSnapshot(w) ==
    LET plan == PlanFor(lane.active)
    IN /\ Locked(w, "snapshot")
       /\ worker' = [worker EXCEPT
                       ![w].pc = IF plan.kind = "failure" THEN "fail"
                                 ELSE "persist",
                       ![w].data = plan]
       /\ UNCHANGED <<env, lane, causes, att, published, blocked, net, faults,
                      operated>>

\* An artifact or the database is unavailable while the plan is assembled.
AssemblyUnavailable(w) ==
    /\ worker[w].pc = "persist"
    /\ Fault
    /\ worker' = [worker EXCEPT ![w].pc = "retry", ![w].data = None]
    /\ UNCHANGED <<env, lane, causes, att, published, blocked, net, operated>>

PersistPreparedOperation(w) ==
    LET plan == worker[w].data
    IN /\ Locked(w, "persist")
       /\ att' = [att EXCEPT ![worker[w].seq].plan = plan,
                             ![worker[w].seq].state = "ready"]
       /\ worker' = [worker EXCEPT
                       ![w].pc = IF plan.kind = "no_change" THEN "no_change"
                                 ELSE "mark",
                       ![w].data = None]
       /\ UNCHANGED <<env, lane, causes, published, blocked, net, faults,
                      operated>>

\* #supersedeIfStaleBeforeFirstDispatch: a newer request arrived.
StaleEvaluation(s) == Undispatched(s) /\ lane.requested # s

CompleteNoChange(w) ==
    LET s == worker[w].seq
    IN /\ Locked(w, "no_change")
       /\ IF StaleEvaluation(s)
            THEN Supersede(s)
            ELSE /\ att' = [att EXCEPT ![s] = Released(@, "no_change")]
                 /\ lane' = Confirm(lane, s)
       /\ Idle(w)
       /\ UNCHANGED <<env, causes, published, blocked, net, faults, operated>>

-----------------------------------------------------------------------------
(* Sending it, and learning its fate.                                      *)

\* An operation that may have been sent is asked after before it is sent.
QueryStatus(w) ==
    /\ worker[w].pc = "status"
    /\ \/ /\ Go(w, IF Applied(worker[w].seq) THEN "ack" ELSE "mark")
          /\ UNCHANGED faults
       \/ /\ Fault
          /\ Go(w, "retry")
    /\ UNCHANGED <<env, lane, causes, att, published, blocked, net, operated>>

MarkOperationSent(w) ==
    LET s == worker[w].seq
    IN /\ Locked(w, "mark")
       /\ IF StaleEvaluation(s)
            THEN Supersede(s) /\ Idle(w) /\ UNCHANGED net
            ELSE /\ att' = [att EXCEPT ![s].sends = @ + 1,
                                       ![s].state = "in_progress"]
                 /\ net' = net \cup {[seq |-> s, send |-> att[s].sends + 1]}
                 /\ worker' = [worker EXCEPT ![w].pc = "await",
                                             ![w].data = att[s].sends + 1]
                 /\ UNCHANGED lane
       /\ UNCHANGED <<env, causes, published, blocked, faults, operated>>

\* What Convex answers to an operation it has no receipt of.
Answer(plan) ==
    CASE plan.expected # Public -> "cas"
      [] plan.expected = Public /\ plan.kind = "clear" -> "written"
      [] OTHER ->
           IF \/ plan.manifest \in blocked
              \/ plan.selection.obs < publicHead.obs
              \/ /\ plan.kind = "refresh"
                 /\ plan.selection.obs < Public.selection.obs
             THEN "refused"
           ELSE IF plan.kind = "activate" /\ plan.selection.head # publicHead
             THEN "cas"
           ELSE "written"

\* loadExactCatalogManifestReplay: the receipt of the same operation.
Replay(s) == Applied(s)

\* activateCatalogManifestRequest, refreshCatalogManifestRequest and the
\* clear of rollbackCatalogManifestRequest; the sender hears the answer if it
\* is still waiting for this very request.
Deliver(m) ==
    LET plan == att[m.seq].plan
        answer == IF Replay(m.seq) THEN "written" ELSE Answer(plan)
        pc == CASE answer = "written" -> "ack"
                [] answer = "cas" -> "defer"
                [] answer = "refused" -> "fail"
    IN /\ published' = IF Replay(m.seq) \/ answer # "written" THEN published
                       ELSE Append(published,
                              [gen |-> Public.gen + 1, by |-> m.seq,
                               manifest |-> plan.manifest,
                               selection |-> plan.selection])
       /\ net' = net \ {m}
       /\ worker' = [w \in Worker |->
                       IF /\ worker[w].pc = "await"
                          /\ worker[w].seq = m.seq /\ worker[w].data = m.send
                         THEN [worker[w] EXCEPT !.pc = pc, !.data = None]
                         ELSE worker[w]]
       /\ UNCHANGED <<env, lane, causes, att, blocked, faults, operated>>

\* The request is lost, or its sender stops waiting although it may arrive.
Drop(m) ==
    /\ Fault
    /\ net' = net \ {m}
    /\ UNCHANGED <<env, lane, causes, att, published, blocked, worker,
                   operated>>

Timeout(w) ==
    LET m == [seq |-> worker[w].seq, send |-> worker[w].data]
    IN /\ worker[w].pc = "await"
       /\ IF m \in net
            THEN Fault
            ELSE UNCHANGED faults
       /\ worker' = [worker EXCEPT ![w].pc = "retry", ![w].data = None]
       /\ UNCHANGED <<env, lane, causes, att, published, blocked, net,
                      operated>>

AcknowledgeOperation(w) ==
    /\ Locked(w, "ack")
    /\ att' = [att EXCEPT ![worker[w].seq].acked = TRUE]
    /\ Go(w, "complete")
    /\ UNCHANGED <<env, lane, causes, published, blocked, net, faults,
                   operated>>

-----------------------------------------------------------------------------
(* Settling an attempt.                                                    *)

\* The definition of a manifest is known from an acknowledged activation.
Known(m) == m = None \/ \E s \in Seqs : /\ att[s] # None /\ att[s].acked
                                        /\ att[s].plan.kind = "activate"
                                        /\ att[s].plan.manifest = m

\* replaceManifestPromotionActiveState accepts the state: never an older
\* generation, the same generation only unchanged, a newer one only with a
\* known manifest.
Replaceable(state) ==
    \/ state = lane.active
    \/ state.gen > lane.active.gen /\ Known(state.manifest)

Outcome(kind) == CASE kind = "activate" -> "activated"
                   [] kind = "refresh" -> "refreshed"
                   [] kind = "clear" -> "cleared"

Refuse(w) == Go(w, "refused") /\ UNCHANGED <<att, lane>>

\* complete with the receipt of the acknowledged operation.
Complete(w) ==
    LET s == worker[w].seq
        state == WrittenBy(s)[1]
    IN /\ Locked(w, "complete")
       /\ IF Replaceable(state)
            THEN /\ lane' = Confirm([lane EXCEPT !.active = state], s)
                 /\ att' = [att EXCEPT ![s] =
                              Released(@, Outcome(att[s].plan.kind))]
                 /\ Idle(w)
            ELSE Refuse(w)
       /\ UNCHANGED <<env, causes, published, blocked, net, faults, operated>>

\* complete as failed: the evaluation stays unconfirmed, and claim starts no
\* second attempt for it.
FailTerminal(w) ==
    /\ Locked(w, "fail")
    /\ att' = [att EXCEPT ![worker[w].seq] = Released(@, "failed")]
    /\ Idle(w)
    /\ UNCHANGED <<env, lane, causes, published, blocked, net, faults,
                   operated>>

Retried(a) == [Released(a, "retry_wait") EXCEPT !.retries = @ + 1]

\* scheduleRetry, or recordRetryExhaustion: what was never sent fails and is
\* requested anew, what was sent is asked after again.
Retry(w) ==
    LET s == worker[w].seq
        exhausted == att[s].retries + 1 > MaximumRetries
    IN /\ Locked(w, "retry")
       /\ IF exhausted /\ Undispatched(s)
            THEN /\ lane.requested < MaxSeq
                 /\ att' = [att EXCEPT ![s] = [Released(@, "failed") EXCEPT
                                                !.retries = @ + 1]]
                 /\ lane' = Request(lane)
            ELSE att' = [att EXCEPT ![s] = Retried(@)] /\ UNCHANGED lane
       /\ Idle(w)
       /\ UNCHANGED <<env, causes, published, blocked, net, faults, operated>>

\* deferManifestPromotionCasLoss keeps the refusal on the attempt.
DeferCasLoss(w) ==
    /\ Locked(w, "defer")
    /\ att' = [att EXCEPT ![worker[w].seq] = [Retried(@) EXCEPT !.cas = TRUE]]
    /\ Idle(w)
    /\ UNCHANGED <<env, lane, causes, published, blocked, net, faults,
                   operated>>

\* The public state is read; a failed probe defers once more.
ProbeActiveState(w) ==
    /\ worker[w].pc = "probe"
    /\ \/ /\ worker' = [worker EXCEPT ![w].pc = "record",
                                      ![w].data = Public]
          /\ UNCHANGED faults
       \/ /\ Fault
          /\ Go(w, "defer")
    /\ UNCHANGED <<env, lane, causes, att, published, blocked, net, operated>>

RecordCasLoss(w) ==
    LET s == worker[w].seq
        state == worker[w].data
    IN /\ Locked(w, "record")
       /\ lane.requested < MaxSeq
       /\ IF Replaceable(state)
            THEN /\ lane' = Request([lane EXCEPT !.active = state])
                 /\ att' = [att EXCEPT ![s] = Released(@, "cas_lost")]
                 /\ Idle(w)
            ELSE Refuse(w)
       /\ UNCHANGED <<env, causes, published, blocked, net, faults, operated>>

\* A worker dies or is stopped, or its lease runs out while it works.
Crash(w) ==
    /\ worker[w].pc \notin {"idle", "refused"}
    /\ Fault
    /\ Idle(w)
    /\ UNCHANGED <<env, lane, causes, att, published, blocked, net, operated>>

\* A claim lapses: at no cost when nobody works under it any more.
Orphaned(s) == \A w \in Worker : worker[w].pc # "idle" /\ worker[w].seq = s
                                   => worker[w].token # att[s].token

LeaseLapses(s) ==
    /\ att[s] # None /\ att[s].token # 0
    /\ IF Orphaned(s) THEN UNCHANGED faults
       ELSE Fault
    /\ att' = [att EXCEPT ![s].token = 0]
    /\ UNCHANGED <<env, lane, causes, published, blocked, net, worker,
                   operated>>

-----------------------------------------------------------------------------
Cycle(w) == \/ EnsureVerified(w) \/ LoadEvaluationTrigger(w)
            \/ EnqueueEvaluation(w) \/ Claim(w) \/ LeaseLost(w)
            \/ StaleProof(w) \/ LoadEvaluationSnapshot(w)
            \/ PersistPreparedOperation(w) \/ CompleteNoChange(w)
            \/ QueryStatus(w) \/ MarkOperationSent(w) \/ Timeout(w)
            \/ AcknowledgeOperation(w) \/ Complete(w) \/ FailTerminal(w)
            \/ Retry(w) \/ DeferCasLoss(w) \/ ProbeActiveState(w)
            \/ RecordCasLoss(w)

ManifestNext ==
    \/ FactsMove \/ ChangeConfiguration \/ ProviderComplete \/ OperatorWrites \/ OperatorBlocks
    \/ \E w \in Worker : Cycle(w) \/ Crash(w) \/ AssemblyUnavailable(w)
    \/ \E m \in net : Deliver(m) \/ Drop(m)
    \/ \E s \in Seqs : LeaseLapses(s)

ManifestSpec == ManifestInit /\ [][ManifestNext]_vars

\* Workers go on with their cycles, a request that is not lost arrives, a
\* lease nobody works under runs out, and the provider lane records the head
\* it has published.
ManifestFairness ==
    /\ \A w \in Worker : WF_vars(Cycle(w))
    /\ WF_vars(\E m \in net : Deliver(m))
    /\ \A s \in Seqs : WF_vars(LeaseLapses(s) /\ Orphaned(s))
    /\ WF_vars(ProviderComplete)

ManifestFairSpec == ManifestSpec /\ ManifestFairness

-----------------------------------------------------------------------------
(* Properties.                                                             *)

\* The types, and the shape of what is related by construction: generations
\* count the public states.
ManifestTypeOK ==
    /\ facts \in [obs : 0..MaxObs, life : 0..MaxLife, epoch : 0..MaxEpoch]
    /\ configured \in ProviderSets /\ lane.set \in ProviderSets
    /\ lane.requested \in 0..MaxSeq /\ lane.confirmed \in 0..lane.requested
    /\ \A i \in DOMAIN published : published[i].gen = i - 1
    /\ lane.active \in ToSet(published)
    /\ \A s \in Seqs : att[s] # None =>
         /\ att[s].state \in ActiveStates \cup
              {"superseded", "no_change", "failed", "cas_lost", "activated",
               "refreshed", "cleared"}
         /\ att[s].plan # None => att[s].plan.kind \in Kinds
    /\ \A w \in Worker : worker[w].pc \in DatabasePcs \cup
         {"idle", "prove", "verify", "reconcile", "trigger", "enqueue", "claim", "await", "refused"}
    /\ faults \in 0..MaxFaults /\ operated \in 0..MaxOperator

\* An operation that changed the public catalog is never lost: its attempt is
\* still active, or ended as activated, refreshed or cleared.  It is never
\* superseded, failed or given up as a lost race, whatever was delayed,
\* repeated or taken over (promotion-v2-stale-attempt.ts, the status query
\* and the replay).
AppliedIsKept ==
    \A s \in Seqs : Applied(s) =>
        /\ att[s].state \in ActiveStates \cup
             {"activated", "refreshed", "cleared"}
        /\ Len(WrittenBy(s)) = 1

\* The mirrored state can always be replaced: no receipt and no probe is older
\* than the mirror, contradicts it, or shows a manifest whose definition was
\* never acknowledged (replaceManifestPromotionActiveState does not throw).
NeverRefused == \A w \in Worker : worker[w].pc # "refused"

\* When every request is confirmed and the current facts have been requested,
\* the mirror is the public state, and the public state is what the facts and
\* the completed head ask for: no request was confirmed by an attempt that
\* planned from older facts.
ConfirmedIsCurrent ==
    ( /\ lane.requested = lane.confirmed
      /\ facts \in causes
      /\ operated = 0 )
    => /\ lane.active = Public
       /\ PlanFor(Public).kind = "no_change"

\* The lane's record of the public state is well-typed, replaceable, and current
\* once everything requested is confirmed.
ManifestInvariant == ManifestTypeOK /\ NeverRefused /\ ConfirmedIsCurrent

\* Once the facts stop changing, and as long as no operator overrides them,
\* the public catalog becomes and stays what they ask for, or the planner
\* refuses them (no eligible release).
CatalogConverges ==
    <>[](\/ operated > 0
         \/ PlanFor(Public).kind \in {"no_change", "failure"})

\* A changed provider set is proved in the end: "Once that work settles, a
\* configured-set mismatch becomes reproof_required and must create a new
\* durable proof revision before fresh claims can proceed"
\* (catalog-manifest-promotion-bootstrap.ts).  This holds as long as no operator
\* has written the public state behind the lane's back.
SetChangeIsProved ==
    (lane.set # configured) ~> (lane.set = configured \/ operated > 0)

\* The lane settles, on the facts and on the provider set, whatever was delayed,
\* repeated or taken over.
LaneConverges == CatalogConverges /\ SetChangeIsProved
==============================================================================

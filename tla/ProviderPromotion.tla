--------------------------- MODULE ProviderPromotion ---------------------------
(***************************************************************************)
(* The provider promotion lane: workers that turn the settled checkpoint   *)
(* of one provider into a release, staged in Convex batch by batch and     *)
(* finalized, or confirmed as unchanged, and that record the completed     *)
(* head in PostgreSQL.                                                     *)
(* packages/database/src/provider-promotion-repository.ts,                 *)
(* provider-promotion-retry-exhaustion.ts, promotion-v2-stale-attempt.ts,  *)
(* packages/services/src/provider-promotion-runner.ts,                     *)
(* provider-promotion-operations.ts, convex/providerRelease*.ts.           *)
(*                                                                         *)
(* A checkpoint is the settled sequence, the last observation, whether the *)
(* source head is later than that (freshness "delayed"), the shared        *)
(* configuration epoch and the content, named by the sequence that last    *)
(* changed it: the release identity is derived from content and epoch.     *)
(* The manifest lane's proof of the provider set is the epoch it proved.   *)
(***************************************************************************)
EXTENDS Naturals, Sequences, FiniteSets, SequencesExt

CONSTANTS Worker,             \* worker processes
          Batches,            \* batches of a release
          MaximumRetries,     \* retries before an attempt counts as exhausted
          MaximumOperations,  \* operations a cycle acknowledges at most
          Steady,             \* whether a change may leave the content as it is
          MaxSettled, MaxObs, MaxEpoch, MaxLife,   \* bounds: the facts
          MaxSeq,             \* bound: evaluations
          MaxFaults,          \* bound: crashes, lapses, losses, timeouts, overlaps
          MaxRefusals,        \* bound: blocked releases and assemblies
          MaxExpired,         \* bound: staged releases that retention deletes
          MaxEvents,          \* bound: all of these together
          None

ASSUME ProviderPromotionAssumption ==
    /\ Batches \in Nat /\ MaximumRetries \in Nat /\ Steady \in BOOLEAN
    /\ MaximumOperations \in Nat \ {0} /\ MaxSeq \in Nat \ {0}
    /\ None \notin Worker

VARIABLES facts,       \* the provider's checkpoint in PostgreSQL
          life,        \* lifecycle decisions; enabled at the even ones
          verified,    \* the epoch whose provider set is proved
          evals,       \* provider_promotion_evaluations, by sequence
          lane,        \* provider_promotion_lanes
          att,         \* provider_promotion_attempts and _operations
          notified,    \* attempts that requested a manifest evaluation
          publicHead,  \* providerCatalogCompletedHeads
          staging,     \* the staged release and its accepted batches
          receipts,    \* providerCatalogOperations
          blocked,     \* providerCatalogReleaseBlocks
          net,         \* requests on their way
          worker,      \* [Worker -> where its cycle stands]
          faults, refusals, expired

env == <<facts, life, verified>>
ledger == <<evals, lane, att, notified>>
convex == <<publicHead, staging, receipts, blocked>>
bounds == <<faults, refusals, expired>>
vars == <<env, ledger, convex, net, worker, bounds>>

Seqs == 1..MaxSeq
Start0 == [settled |-> 1, obs |-> 0, delayed |-> FALSE, epoch |-> 0,
           content |-> 1]
Checkpoints == [settled : 1..MaxSettled, obs : 0..MaxObs, delayed : BOOLEAN,
                epoch : 0..MaxEpoch, content : 1..MaxSettled]
NoHead == [release |-> 0, settled |-> 0, obs |-> 0, by |-> 0]

IdleWorker == [pc |-> "idle", seq |-> 0, token |-> 0, acked |-> 0,
               data |-> None]
Idle(w) == worker' = [worker EXCEPT ![w] = IdleWorker]
Go(w, pc) == worker' = [worker EXCEPT ![w].pc = pc]
Enabled == life % 2 = 0

ProviderInit ==
    /\ facts = Start0 /\ life = 0 /\ verified = 0
    /\ evals = <<>>
    /\ lane = [requested |-> 0, confirmed |-> 0, latest |-> None,
               settled |-> 0, completed |-> NoHead]
    /\ att = [s \in Seqs |-> None]
    /\ notified = {}
    /\ publicHead = NoHead /\ staging = None
    /\ receipts = {} /\ blocked = {}
    /\ net = {}
    /\ worker = [w \in Worker |-> IdleWorker]
    /\ faults = 0 /\ refusals = 0 /\ expired = 0

-----------------------------------------------------------------------------
(* The provider's facts, and what others do to the lane's surroundings.    *)

\* Something that is not a step of the lane itself may still happen; a refusal or
\* a deletion counts twice.
Eventful == (facts.settled - 1) + facts.obs + faults + 2 * (refusals + expired)
              < MaxEvents

Fault == faults < MaxFaults /\ Eventful /\ faults' = faults + 1

\* A public change settles.  Its cause is later than the last successful
\* observation, which makes the checkpoint delayed, or it is an older one whose
\* derivation took its time.
Settle(changes) ==
    /\ facts.settled < MaxSettled /\ Eventful
    /\ \E later \in BOOLEAN :
         facts' = [facts EXCEPT !.settled = @ + 1,
                                !.delayed = @ \/ later,
                                !.content = IF changes THEN facts.settled + 1
                                            ELSE @]

\* An import run reaches the provider's head.
Observe == /\ facts.obs < MaxObs /\ Eventful
           /\ facts' = [facts EXCEPT !.obs = @ + 1, !.delayed = FALSE]
           /\ UNCHANGED <<life, verified>>

\* A new configuration epoch is a public change, and part of every release.
Reconfigure == /\ facts.epoch < MaxEpoch
               /\ facts.settled < MaxSettled /\ Eventful
               /\ \E later \in BOOLEAN :
                    facts' = [facts EXCEPT !.epoch = @ + 1,
                                           !.settled = @ + 1,
                                           !.delayed = @ \/ later,
                                           !.content = facts.settled + 1]
               /\ UNCHANGED <<life, verified>>

\* A lifecycle decision settles as a change of the provider's catalog.
DecideLifecycle == /\ life < MaxLife /\ life' = life + 1
                   /\ Settle(FALSE)
                   /\ UNCHANGED verified

\* The manifest lane proves the provider set of the epoch (ensureVerified):
\* nothing sent is unsettled and the public head is the recorded one.
ActiveStates == {"assembling", "ready", "in_progress", "retry_wait"}
ActiveSeqs == {s \in Seqs : att[s] # None /\ att[s].state \in ActiveStates}

\* No operation of the attempt has a send_count above zero.
Undispatched(s) == att[s].acked = 0 /\ att[s].sends = 0

Reprove == /\ verified # facts.epoch
           /\ \A s \in ActiveSeqs : Undispatched(s)
           /\ publicHead = lane.completed
           /\ verified' = facts.epoch
           /\ UNCHANGED <<facts, life>>

FactsMove ==
    /\ \/ Settle(TRUE) /\ UNCHANGED <<life, verified>>
       \/ Steady /\ Settle(FALSE) /\ UNCHANGED <<life, verified>>
       \/ Observe \/ Reconfigure \/ DecideLifecycle \/ Reprove
    /\ UNCHANGED <<ledger, convex, net, worker, bounds>>

\* block, by an operator.
Block ==
    /\ refusals < MaxRefusals /\ Eventful /\ refusals' = refusals + 1
    /\ blocked' = blocked \cup {facts.content}
    /\ UNCHANGED <<env, ledger, publicHead, staging, receipts, net, worker,
                   faults, expired>>

\* deleteProviderReleaseOwnedDocuments of a release staged a day ago.
ExpireStaging ==
    /\ expired < MaxExpired /\ Eventful /\ expired' = expired + 1
    /\ staging # None
    /\ staging' = None
    /\ UNCHANGED <<env, ledger, publicHead, receipts, blocked, net, worker,
                   faults, refusals>>

-----------------------------------------------------------------------------
(* Evaluations and the lane.                                               *)

NewAttempt == [state |-> "assembling", epoch |-> verified, plan |-> None,
               acked |-> 0, sends |-> 0, retries |-> 0, token |-> 0,
               held |-> FALSE]

ProofCurrent(a) == a.epoch = verified /\ verified = facts.epoch
Released(a, state) == [a EXCEPT !.state = state, !.held = FALSE]

Confirm(l, s) == [l EXCEPT !.confirmed = IF s > @ THEN s ELSE @]

\* A new evaluation of checkpoint c becomes the requested one.
Request(l, c) == [l EXCEPT !.requested = Len(evals) + 1, !.latest = c]

\* A delayed checkpoint that follows a fresh one without a new observation (nor a
\* new configuration epoch), or the reverse.
FreshnessMoved(c) ==
    /\ c.obs = lane.latest.obs /\ c.epoch = lane.latest.epoch
    /\ c.delayed # lane.latest.delayed

\* Mutation: a new configuration epoch does not excuse another freshness.
RegressedAcrossEpochs(c) ==
    \/ c.settled < lane.settled
    \/ /\ lane.latest # None
       /\ \/ c.epoch < lane.latest.epoch
          \/ c.obs < lane.latest.obs
          \/ c.obs = lane.latest.obs /\ c.delayed # lane.latest.delayed

\* enqueueEvaluation throws CHECKPOINT_REGRESSED.
Regressed(c) == \/ c.settled < lane.settled
                \/ /\ lane.latest # None
                   /\ \/ c.epoch < lane.latest.epoch
                      \/ c.obs < lane.latest.obs
                      \/ FreshnessMoved(c)

\* A checkpoint that was ever evaluated is not evaluated again.
Coalesces(c) == c \in ToSet(evals)

Enqueue(c) ==
    IF Coalesces(c) THEN UNCHANGED <<evals, lane>>
    ELSE /\ Len(evals) < MaxSeq
         /\ evals' = Append(evals, c)
         /\ lane' = [Request(lane, c) EXCEPT !.settled = c.settled]

\* supersedeUndispatchedProviderAttempt: its own evaluation is confirmed when
\* a newer one waits, and its checkpoint is requested anew otherwise.
Supersede(s) ==
    /\ Undispatched(s)
    /\ att' = [att EXCEPT ![s] = Released(@, "superseded")]
    /\ IF lane.requested > s
         THEN lane' = Confirm(lane, s) /\ UNCHANGED evals
         ELSE /\ Len(evals) < MaxSeq
              /\ evals' = Append(evals, evals[s])
              /\ lane' = Request(lane, evals[s])

HoldsClaim(w) ==
    LET a == att[worker[w].seq]
    IN /\ a.held /\ a.token = worker[w].token
       /\ a.state \in ActiveStates \ {"retry_wait"}

\* Where a worker next locks its attempt.
DatabasePcs == {"supersede", "assemble", "persist", "status", "mark", "ack",
                "bounded", "complete", "fail", "retry", "loss"}

LeaseLost(w) ==
    /\ worker[w].pc \in DatabasePcs
    /\ ~HoldsClaim(w)
    /\ Idle(w)
    /\ UNCHANGED <<env, ledger, convex, net, bounds>>

\* #lockClaimedAttempt: the provider set is no longer the proved one.
StaleProof(w) ==
    /\ worker[w].pc \in DatabasePcs
    /\ HoldsClaim(w)
    /\ ~ProofCurrent(att[worker[w].seq])
    /\ Supersede(worker[w].seq)
    /\ Idle(w)
    /\ UNCHANGED <<env, notified, convex, net, bounds>>

Locked(w, pc) ==
    /\ worker[w].pc = pc
    /\ HoldsClaim(w)
    /\ ProofCurrent(att[worker[w].seq]) \/ ~Undispatched(worker[w].seq)

-----------------------------------------------------------------------------
(* A cycle: request the checkpoint, claim, compare.                        *)

\* An enabled provider's checkpoint is read and enqueued; a disabled one only
\* recovers what was sent.
BeginCycle(w) ==
    /\ worker[w].pc = "idle"
    /\ worker' = [worker EXCEPT
                    ![w] = IF Enabled
                             THEN [IdleWorker EXCEPT !.pc = "enqueue",
                                                     !.data = facts]
                             ELSE [IdleWorker EXCEPT !.pc = "reclaim"]]
    /\ IF \A v \in Worker : worker[v].pc = "idle" THEN UNCHANGED faults
       ELSE Fault
    /\ UNCHANGED <<env, ledger, convex, net, refusals, expired>>

\* enqueueEvaluation, at the start of a cycle and, before an attempt is given
\* up, for the checkpoint that replaces its own; a regressed one ends the
\* cycle with the claim still held.
EnqueueEvaluation(w) ==
    /\ worker[w].pc \in {"enqueue", "replace"}
    /\ IF Regressed(worker[w].data)
         THEN Idle(w) /\ UNCHANGED <<evals, lane>>
         ELSE /\ Enqueue(worker[w].data)
              /\ worker' = [worker EXCEPT
                              ![w].pc = IF @ = "enqueue" THEN "claim"
                                        ELSE "supersede",
                              ![w].data = None]
    /\ UNCHANGED <<env, att, notified, convex, net, bounds>>

Operations(plan) == IF plan.kind = "reuse" THEN 1 ELSE Batches + 2

\* The next step of a prepared attempt, n operations into the cycle.
NextOperation(a, n) ==
    IF a.acked = Operations(a.plan) THEN "complete"
    ELSE IF n >= MaximumOperations THEN "bounded"
    ELSE IF a.sends > 0 THEN "status" ELSE "mark"

\* Where a claimed attempt goes on in a recovery cycle.
Recover(a) == IF a.acked = 0 /\ a.sends = 0 THEN "supersede"
              ELSE NextOperation(a, 0)

\* The random claim token: one that no worker on attempt s still holds.
FreshToken(s) ==
    Min({t \in 1 .. Cardinality(Worker) + 1 :
           \A v \in Worker : worker[v].seq = s => worker[v].token # t})

TakeClaim(w, s, a) ==
    /\ att' = [att EXCEPT ![s] =
                 [a EXCEPT !.token = FreshToken(s), !.held = TRUE,
                           !.state = IF a.plan = None THEN "assembling"
                                     ELSE "in_progress"]]
    /\ worker' = [worker EXCEPT ![w] =
                    [pc |-> IF worker[w].pc = "claim" THEN "compare"
                            ELSE Recover(a),
                     seq |-> s, token |-> FreshToken(s), acked |-> 0,
                     data |-> None]]
    /\ UNCHANGED <<evals, lane>>

\* claim finds no active attempt of the lane.
NoneActive == ActiveSeqs = {}

Workable(s) == ProofCurrent(att[s]) \/ ~Undispatched(s)

\* claim: the one active attempt, or a new one for the requested evaluation.
Claim(w) ==
    /\ worker[w].pc \in {"claim", "reclaim"}
    /\ \/ \E s \in ActiveSeqs :
            \/ ~Workable(s) /\ Supersede(s) /\ Idle(w)
            \/ /\ Workable(s)
               /\ IF att[s].held THEN Idle(w) /\ UNCHANGED <<att, evals, lane>>
                  ELSE TakeClaim(w, s, att[s])
       \/ /\ NoneActive
          /\ IF verified = facts.epoch /\ lane.requested > lane.confirmed
               THEN TakeClaim(w, lane.requested, NewAttempt)
               ELSE Idle(w) /\ UNCHANGED <<att, evals, lane>>
    /\ UNCHANGED <<env, notified, convex, net, bounds>>

\* The checkpoint is read again, then the completed head: an attempt of which
\* nothing was sent gives way to a newer checkpoint, and to a completed one.
CompareCheckpoint(w) ==
    LET s == worker[w].seq
        a == att[s]
        moved == facts # evals[s]
    IN /\ worker[w].pc = "compare"
       /\ IF ~Enabled THEN Idle(w)
          ELSE IF moved /\ Undispatched(s)
            THEN worker' = [worker EXCEPT ![w].pc = "replace",
                                          ![w].data = facts]
          ELSE IF ~moved /\ evals[s].settled <= lane.completed.settled
            THEN Go(w, "supersede")
          ELSE IF a.plan = None
            THEN worker' = [worker EXCEPT ![w].pc = "assemble",
                                          ![w].data = lane.completed]
          ELSE Go(w, NextOperation(a, 0))
       /\ UNCHANGED <<env, ledger, convex, net, bounds>>

\* completeSuperseded
CompleteSuperseded(w) ==
    /\ Locked(w, "supersede")
    /\ att' = [att EXCEPT ![worker[w].seq] = Released(@, "superseded")]
    /\ lane' = Confirm(lane, worker[w].seq)
    /\ Idle(w)
    /\ UNCHANGED <<env, evals, notified, convex, net, bounds>>

-----------------------------------------------------------------------------
(* Assembling and preparing.                                               *)

\* A release is reused when its artifact was published before.
Artifacts == {evals[s].content : s \in {t \in Seqs : /\ att[t] # None
                                          /\ att[t].state = "published"}}

\* assemble and prepareProviderPromotion over the checkpoint of the moment,
\* with the completed head that was read before.
Assemble(w) ==
    LET plan == [kind |-> IF facts.content \in Artifacts THEN "reuse"
                          ELSE "publish",
                 checkpoint |-> facts, expected |-> worker[w].data]
    IN /\ Locked(w, "assemble")
       /\ IF ~Enabled THEN Go(w, "retry")
          ELSE worker' = [worker EXCEPT
                 ![w].pc = IF facts = evals[worker[w].seq] THEN "persist"
                           ELSE "replace",
                 ![w].data = IF facts = evals[worker[w].seq] THEN plan
                             ELSE facts]
       /\ UNCHANGED <<env, ledger, convex, net, bounds>>

AssemblyUnavailable(w) ==
    /\ Locked(w, "assemble")
    /\ Fault
    /\ Go(w, "retry")
    /\ UNCHANGED <<env, ledger, convex, net, refusals, expired>>

\* The assembler classifies the candidate as blocked.
AssemblyBlocked(w) ==
    /\ Locked(w, "assemble")
    /\ refusals < MaxRefusals /\ Eventful /\ refusals' = refusals + 1
    /\ Go(w, "fail")
    /\ UNCHANGED <<env, ledger, convex, net, faults, expired>>

\* operationIdentity: of the release, for a reuse of its checkpoint too.
OperationId(plan, i) ==
    LET release == plan.checkpoint.content
    IN IF plan.kind = "reuse"
         THEN <<"confirmReuse", release, plan.checkpoint.settled>>
       ELSE IF i = 1 THEN <<"start", release, 0>>
       ELSE IF i = Operations(plan) THEN <<"finalize", release, 0>>
       ELSE <<"applyBatch", release, i - 1>>

\* provider_promotion_operations_lane_operation_unique refuses the insert.
Collides(plan) ==
    \E s \in Seqs : /\ att[s] # None /\ att[s].plan # None
                    /\ OperationId(att[s].plan, 1) = OperationId(plan, 1)

PersistPreparedOperations(w) ==
    LET plan == worker[w].data
        s == worker[w].seq
    IN /\ Locked(w, "persist")
       /\ IF Collides(plan) THEN Idle(w) /\ UNCHANGED att
          ELSE /\ att' = [att EXCEPT ![s].plan = plan, ![s].state = "ready"]
               /\ worker' = [worker EXCEPT ![w].pc = "mark",
                                           ![w].data = None]
       /\ UNCHANGED <<env, evals, lane, notified, convex, net, bounds>>

-----------------------------------------------------------------------------
(* Sending the operations in order, and learning their fate.               *)

\* A status query before an operation is sent again.
QueryStatus(w) ==
    LET s == worker[w].seq
        id == OperationId(att[s].plan, att[s].acked + 1)
    IN /\ Locked(w, "status")
       /\ \/ /\ Go(w, IF [id |-> id, plan |-> att[s].plan] \in receipts
                      THEN "ack" ELSE "mark")
             /\ UNCHANGED faults
          \/ /\ Fault
             /\ Go(w, "retry")
       /\ UNCHANGED <<env, ledger, convex, net, refusals, expired>>

\* #supersedeIfStaleBeforeFirstDispatch
StaleEvaluation(s) == /\ Undispatched(s)
                      /\ \/ lane.requested # s
                         \/ lane.latest # evals[s]

\* markOperationSent, then the request.
MarkOperationSent(w) ==
    LET s == worker[w].seq
    IN /\ Locked(w, "mark")
       /\ IF StaleEvaluation(s)
            THEN Supersede(s) /\ Idle(w) /\ UNCHANGED net
            ELSE /\ att' = [att EXCEPT ![s].sends = @ + 1,
                                       ![s].state = "in_progress"]
                 /\ net' = net \cup {[seq |-> s, op |-> att[s].acked + 1,
                                      send |-> att[s].sends + 1]}
                 /\ worker' = [worker EXCEPT ![w].pc = "await",
                                             ![w].data = att[s].sends + 1]
                 /\ UNCHANGED <<evals, lane>>
       /\ UNCHANGED <<env, notified, convex, bounds>>

Staged(plan) == staging # None /\ staging.plan = plan
HasReceipt(id) == \E r \in receipts : r.id = id
IsComplete(release) == HasReceipt(<<"finalize", release, 0>>)

\* What Convex answers to operation i of a plan: "ok", "lost" for the codes
\* that lose the reconciliation, "refused" for every other refusal.
Answer(plan, i) ==
    LET kind == OperationId(plan, i)[1]
        release == plan.checkpoint.content
        isBlocked == release \in blocked
        behind == plan.expected # publicHead
        regressed == plan.checkpoint.settled <= publicHead.settled
    IN CASE kind = "start" ->
              IF isBlocked THEN "refused" ELSE IF behind THEN "lost"
              ELSE IF staging # None \/ IsComplete(release) THEN "refused"
              ELSE "ok"
         [] kind = "applyBatch" ->
              IF isBlocked THEN "refused"
              ELSE IF behind \/ ~Staged(plan) THEN "lost"
              ELSE IF staging.accepted # i - 2 THEN "refused" ELSE "ok"
         [] kind = "finalize" ->
              IF ~Staged(plan) THEN "lost" ELSE IF isBlocked THEN "refused"
              ELSE IF behind THEN "lost"
              ELSE IF regressed \/ release = publicHead.release
                THEN "refused"
              ELSE IF staging.accepted # Batches THEN "lost" ELSE "ok"
         [] kind = "confirmReuse" ->
              IF ~IsComplete(release) \/ isBlocked THEN "refused"
              ELSE IF behind THEN "lost"
              ELSE IF release # publicHead.release \/ regressed
                THEN "refused" ELSE "ok"

\* start, applyBatch, finalize and confirmReuse; an operation with a receipt
\* is answered from it, or refused when its body is another one.
Deliver(m) ==
    LET plan == att[m.seq].plan
        id == OperationId(plan, m.op)
        receipt == [id |-> id, plan |-> plan]
        answer == IF receipt \in receipts THEN "replay"
                  ELSE IF HasReceipt(id) THEN "refused"
                  ELSE Answer(plan, m.op)
        pc == CASE answer \in {"ok", "replay"} -> "ack"
                [] answer = "lost" -> "loss"
                [] answer = "refused" -> "fail"
        terminal == id[1] \in {"finalize", "confirmReuse"}
    IN /\ receipts' = IF answer = "ok" THEN receipts \cup {receipt}
                      ELSE receipts
       /\ publicHead' = IF answer = "ok" /\ terminal
                          THEN [release |-> plan.checkpoint.content,
                                settled |-> plan.checkpoint.settled,
                                obs |-> plan.checkpoint.obs, by |-> m.seq]
                          ELSE publicHead
       /\ staging' = CASE answer # "ok" -> staging
                       [] answer = "ok" /\ id[1] = "start" ->
                            [plan |-> plan, accepted |-> 0]
                       [] answer = "ok" /\ id[1] = "applyBatch" ->
                            [staging EXCEPT !.accepted = @ + 1]
                       [] answer = "ok" /\ id[1] = "finalize" -> None
                       [] answer = "ok" /\ id[1] = "confirmReuse" -> staging
       /\ net' = net \ {m}
       /\ worker' = [w \in Worker |->
                       IF /\ worker[w].pc = "await"
                          /\ worker[w].seq = m.seq /\ worker[w].data = m.send
                          /\ att[m.seq].acked + 1 = m.op
                         THEN [worker[w] EXCEPT !.pc = pc, !.data = None]
                         ELSE worker[w]]
       /\ UNCHANGED <<env, ledger, blocked, bounds>>

\* The request is lost, or its sender stops waiting although it may arrive.
Drop(m) ==
    /\ Fault
    /\ net' = net \ {m}
    /\ UNCHANGED <<env, ledger, convex, worker, refusals, expired>>

Timeout(w) ==
    LET m == [seq |-> worker[w].seq, op |-> att[worker[w].seq].acked + 1,
              send |-> worker[w].data]
    IN /\ worker[w].pc = "await"
       /\ IF m \in net THEN Fault
          ELSE UNCHANGED faults
       /\ worker' = [worker EXCEPT ![w].pc = "retry", ![w].data = None]
       /\ UNCHANGED <<env, ledger, convex, net, refusals, expired>>

AcknowledgeOperation(w) ==
    LET s == worker[w].seq
        a == [att[s] EXCEPT !.acked = @ + 1, !.sends = 0]
    IN /\ Locked(w, "ack")
       /\ att' = [att EXCEPT ![s] = a]
       /\ worker' = [worker EXCEPT
                       ![w].acked = @ + 1,
                       ![w].pc = NextOperation(a, worker[w].acked + 1)]
       /\ UNCHANGED <<env, evals, lane, notified, convex, net, bounds>>

-----------------------------------------------------------------------------
(* Settling an attempt.                                                    *)

Outcome(plan) == IF plan.kind = "reuse" THEN "reused" ELSE "published"

\* Mutation: the lane keeps the head it expected.
CompletedHeadKept(s) == lane.completed
\* The head in the receipt of the terminal operation.
CompletedHead(s) == [release |-> att[s].plan.checkpoint.content,
                     settled |-> att[s].plan.checkpoint.settled,
                     obs |-> att[s].plan.checkpoint.obs, by |-> s]

\* complete enqueues the manifest evaluation in its transaction.
Announced(s) == notified \cup {s}

\* complete; it throws PREDECESSOR_CONFLICT when the head is not the expected.
Complete(w) ==
    LET s == worker[w].seq
    IN /\ Locked(w, "complete")
       /\ IF att[s].plan.expected # lane.completed
            THEN UNCHANGED <<att, lane, notified>>
            ELSE /\ att' = [att EXCEPT ![s] = Released(@, Outcome(att[s].plan))]
                 /\ lane' = [Confirm(lane, s) EXCEPT
                               !.completed = CompletedHead(s)]
                 /\ notified' = Announced(s)
       /\ Idle(w)
       /\ UNCHANGED <<env, evals, convex, net, bounds>>

FailTerminal(w) ==
    LET s == worker[w].seq
    IN /\ Locked(w, "fail")
       /\ att' = [att EXCEPT ![s] = Released(@, "failed")]
       /\ lane' = Confirm(lane, s)
       /\ Idle(w)
       /\ UNCHANGED <<env, evals, notified, convex, net, bounds>>

Retried(a) == [Released(a, "retry_wait") EXCEPT !.retries = @ + 1]

\* recordRetryExhaustion of an attempt of which nothing was sent: it fails and
\* its own checkpoint is requested anew, whatever was requested meanwhile.
Exhausted(s) ==
    /\ Len(evals) < MaxSeq
    /\ att' = [att EXCEPT ![s] = [Released(@, "failed") EXCEPT
                                   !.retries = @ + 1]]
    /\ evals' = Append(evals, evals[s])
    /\ lane' = Request(lane, evals[s])

\* scheduleRetry, after a failure or when the cycle has done its share, and
\* recordRetryExhaustion.
Retry(w) ==
    LET s == worker[w].seq
    IN /\ \/ /\ Locked(w, "bounded")
             /\ att' = [att EXCEPT ![s] = Retried(@)]
             /\ UNCHANGED <<evals, lane>>
          \/ /\ Locked(w, "retry")
             /\ IF att[s].retries + 1 > MaximumRetries /\ Undispatched(s)
                  THEN Exhausted(s)
                  ELSE /\ att' = [att EXCEPT ![s] = Retried(@)]
                       /\ UNCHANGED <<evals, lane>>
       /\ Idle(w)
       /\ UNCHANGED <<env, notified, convex, net, bounds>>

\* recordReconciliationLoss requests the attempt's own checkpoint anew.
RecordReconciliationLoss(w) ==
    LET s == worker[w].seq
    IN /\ Locked(w, "loss")
       /\ Len(evals) < MaxSeq
       /\ att' = [att EXCEPT ![s] = Released(@, "cas_lost")]
       /\ evals' = Append(evals, evals[s])
       /\ lane' = Request(lane, evals[s])
       /\ Idle(w)
       /\ UNCHANGED <<env, notified, convex, net, bounds>>

\* A worker dies or is stopped.
Crash(w) ==
    /\ worker[w].pc # "idle"
    /\ Fault
    /\ Idle(w)
    /\ UNCHANGED <<env, ledger, convex, net, refusals, expired>>

\* A claim lapses: at no cost when nobody works under it any more.
Orphaned(s) == \A w \in Worker : worker[w].pc # "idle" /\ worker[w].seq = s
                                   => worker[w].token # att[s].token

LeaseLapses(s) ==
    /\ att[s] # None /\ att[s].held
    /\ IF Orphaned(s) THEN UNCHANGED faults
       ELSE Fault
    /\ att' = [att EXCEPT ![s].held = FALSE]
    /\ UNCHANGED <<env, evals, lane, notified, convex, net, worker, refusals,
                   expired>>

-----------------------------------------------------------------------------
Cycle(w) == \/ BeginCycle(w) \/ EnqueueEvaluation(w) \/ Claim(w)
            \/ CompareCheckpoint(w) \/ CompleteSuperseded(w) \/ LeaseLost(w)
            \/ StaleProof(w) \/ Assemble(w) \/ PersistPreparedOperations(w)
            \/ QueryStatus(w) \/ MarkOperationSent(w) \/ Timeout(w)
            \/ AcknowledgeOperation(w) \/ Complete(w) \/ FailTerminal(w)
            \/ Retry(w) \/ RecordReconciliationLoss(w)

ProviderNext ==
    \/ FactsMove \/ Block \/ ExpireStaging
    \/ \E w \in Worker : \/ Cycle(w) \/ Crash(w) \/ AssemblyUnavailable(w)
                         \/ AssemblyBlocked(w)
    \/ \E m \in net : Deliver(m) \/ Drop(m)
    \/ \E s \in Seqs : LeaseLapses(s)

ProviderSpec == ProviderInit /\ [][ProviderNext]_vars

\* Workers go on with their cycles, a request that is not lost arrives, a
\* lease nobody works under runs out, a changed provider set is proved.
ProviderFairness ==
    /\ \A w \in Worker : WF_vars(Cycle(w))
    /\ WF_vars(\E m \in net : Deliver(m))
    /\ \A s \in Seqs : WF_vars(LeaseLapses(s) /\ Orphaned(s))
    /\ WF_vars(Reprove /\ UNCHANGED <<ledger, convex, net, worker, bounds>>)

ProviderFairSpec == ProviderSpec /\ ProviderFairness

-----------------------------------------------------------------------------
(* Properties.                                                             *)

\* The types; at most one attempt is active at a time.
ProviderTypeOK ==
    /\ facts \in Checkpoints /\ life \in 0..MaxLife
    /\ verified \in 0..MaxEpoch
    /\ evals \in Seq(Checkpoints) /\ Len(evals) <= MaxSeq
    /\ lane.requested \in 0..Len(evals) /\ lane.confirmed \in 0..lane.requested
    /\ Cardinality(ActiveSeqs) <= 1
    /\ \A s \in Seqs : att[s] # None =>
         att[s].state \in ActiveStates \cup
           {"superseded", "failed", "cas_lost", "published", "reused"}
    /\ \A w \in Worker : worker[w].pc \in DatabasePcs \cup
         {"idle", "enqueue", "claim", "reclaim", "compare", "replace",
          "await"}
    /\ faults \in 0..MaxFaults /\ refusals \in 0..MaxRefusals

\* An attempt whose terminal operation moved the public head is never
\* superseded, failed or given up as lost: it is still active or completed.
\* Delayed and repeated requests, takeovers, a disabled provider and a changed
\* provider set never orphan a published release (executeRecoveryCycle, the
\* status query, supersedeUndispatchedProviderAttempt).
AppliedIsKept ==
    publicHead.by # 0 =>
        att[publicHead.by].state \in ActiveStates \cup {"published", "reused"}

\* The completed head in PostgreSQL is the public one, or the public one was
\* written by the attempt in progress, which expects the completed head: the
\* lane is never behind by two heads and complete never finds another
\* predecessor (PROMOTION_V2_PREDECESSOR_CONFLICT is never thrown).
HeadsAgree ==
    \/ publicHead = lane.completed
    \/ \E s \in ActiveSeqs : /\ publicHead.by = s
                             /\ att[s].plan.expected = lane.completed

\* What the lane says of its attempts and of the completed head agrees with the
\* public head, in well-typed states.
ProviderInvariant == ProviderTypeOK /\ AppliedIsKept /\ HeadsAgree

\* The provider's checkpoint lost its freshness through a change that settled
\* after the last observation: every cycle is refused as regressed, before it
\* claims, until the provider is observed again.
AwaitsObservation == lane.latest # None /\ FreshnessMoved(facts)

\* The evaluation of the current checkpoint was claimed, and given up unsent, by
\* another worker's recovery cycle that began while the provider was disabled; the
\* checkpoint is not evaluated again.
GivenUpByRecovery ==
    /\ life > 0
    /\ lane.latest = facts /\ lane.confirmed = lane.requested
    /\ att[lane.requested].state = "superseded"

\* Not so: a disabled provider, releases that were refused or deleted while
\* staged, an evaluation a recovery cycle gave up, and a release that an attempt
\* replaced unsent has left in the ledger: the operations of any later attempt at
\* it collide with the ones it left.
Undisturbed ==
    /\ Enabled /\ refusals = 0 /\ expired = 0 /\ ~GivenUpByRecovery
    /\ \A s \in Seqs : att[s] # None /\ att[s].state = "superseded"
                         /\ att[s].plan # None
                       => att[s].plan.checkpoint.content # facts.content

\* Once the provider's facts stop changing the lane comes to rest: its checkpoint
\* is published and recorded (SettledIsPublished), and a head that is public has
\* been handed to the manifest lane, whatever was lost, repeated or taken over
\* before; unless the checkpoint waits for an observation, which can hold back
\* even the completion of a release that is public already.
SettledIsPublished == Undisturbed => lane.completed.settled = facts.settled
PublicIsNotified == publicHead.by # 0 => publicHead.by \in notified
ProviderSettles ==
    <>[](AwaitsObservation \/ (SettledIsPublished /\ PublicIsNotified))
==============================================================================

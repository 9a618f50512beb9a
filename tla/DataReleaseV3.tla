---------------------------- MODULE DataReleaseV3 ----------------------------
(***************************************************************************)
(* The publication lifecycle of data_release_v3: the Convex mutations that *)
(* stage, complete, activate and roll back a release and the retained EV   *)
(* history that moves with them (src/convex/dataReleaseV3Lifecycle.ts,     *)
(* dataReleaseV3EvFacts.ts, dataReleaseV3RetainedEv.ts), the one-time      *)
(* migration of releases published before that history existed             *)
(* (dataReleaseV3EvFactsBackfill.ts, dataReleaseV3EvMigrationState.ts and  *)
(* its driver scripts/local/local-convex-ev-migration.mts), and the        *)
(* publisher that drives a plan through the mutations                      *)
(* (src/packages/services/src/buyback-adjusted-ev-release-publisher.ts).   *)
(*                                                                         *)
(* Every mutation is one serialisable transaction, hence one step.  The    *)
(* caller may time out: its request is then executed later or never.       *)
(* Digests are injective, so a chain hash is the sequence it was computed  *)
(* from, a release fingerprint is its plan and a request digest is the     *)
(* request.  Rows carry a key, the rows they refer to and what the         *)
(* reconciliation reads of them; everything else a row holds is left out.  *)
(***************************************************************************)
EXTENDS RetainedEv, Integers, FiniteSets, SequencesExt

CONSTANTS None,          \* no release, no plan
          Plans,         \* assembled plans
          Plan,          \* Plan[p]: [rid, asOf, policy, batches]
          Legacy,        \* plans published before the history, oldest first
          Publishers,    \* publisher processes
          ShardRows,     \* MAX_ROWS_PER_DATA_RELEASE_V3_SHARD
          PageRows,      \* MAX_BACKFILL_PAGE_ROWS
          Deployments    \* what a behaviour is about, see `given'

ASSUME PlanAssumption ==
  /\ Legacy \in Seq(Plans) /\ Len(Legacy) <= 2
  /\ \A p \in Plans : Plan[p].rid \in Sources
  /\ ShardRows \in Nat \ {0} /\ PageRows \in Nat \ {0}
  /\ \A d \in Deployments : /\ d.shape \in {"empty", "activated", "rolled_back"}
                            /\ d.tags \subseteq Nat /\ d.migrates \in BOOLEAN

VARIABLES given,     \* chosen at the start and kept: the state the feature is deployed
                     \* on (shape), the plans publisher w may publish (assigned[w]), the
                     \* operation ids of an operator (tags; 0 is the publisher's, {} no
                     \* operator), whether the migration command is run (migrates), and
                     \* the bounds on pointer moves (moves) and timed-out calls (timeouts)
          release,   \* dataReleaseV3Releases and dataReleaseV3EvFactSets, by public id
          head,      \* activeDataReleaseV3State
          retained,  \* dataReleaseV3RetainedEv: pack -> value
          journal,   \* dataReleaseV3EvRetentionTransitions with their changes
          receipts,  \* dataReleaseV3Operations: operation id -> stored receipt
          pub,       \* publisher processes
          mig,       \* the migration command
          late,      \* timed-out requests that may still be executed
          timeouts,  \* calls that timed out so far
          branch     \* history variable: releases activated on this branch and on the other

server == <<release, head, retained, journal, receipts>>
clients == <<pub, mig>>
vars == <<given, release, head, retained, journal, receipts, pub, mig, late,
          timeouts, branch>>

-----------------------------------------------------------------------------
(* Plans and their rows *)

Kinds == <<"categories", "collectibles", "repacks", "chases">>
BATCH_KIND_RANK(kind) == CHOOSE n \in DOMAIN Kinds : Kinds[n] = kind

\* The rows of one kind in a series of batches, in staging order.
Rows(batches, kind) ==
  FlattenSeq([n \in DOMAIN batches |->
                IF batches[n].kind = kind THEN batches[n].rows ELSE <<>>])
References(batches) ==
  UNION {{<<batches[n].kind, batches[n].rows[m].key>> :
            m \in DOMAIN batches[n].rows} : n \in DOMAIN batches}
Repacks == [p \in Plans |-> Rows(Plan[p].batches, "repacks")]
Packs == UNION {{Repacks[p][n].key : n \in DOMAIN Repacks[p]} : p \in Plans}

\* What the release staged from plan p says of each pack it lists
\* (evFactsFromDetail, releaseValues).
FactsOf == [p \in Plans |->
  [k \in {Repacks[p][n].key : n \in DOMAIN Repacks[p]} |->
     LET row == CHOOSE x \in Range(Repacks[p]) : x.key = k
     IN  [at |-> row.at, src |-> Plan[p].rid, valid |-> row.valid]]]

NoRelease == [plan |-> None, lifecycle |-> "absent", staged |-> <<>>,
              required |-> FALSE, facts |-> "none", source |-> "none",
              count |-> 0, asked |-> 0]
NoHead == [gen |-> 0, active |-> None, previous |-> None, terminal |-> None,
           transition |-> 0, forward |-> TRUE]
Exists(r) == r # None /\ release[r].lifecycle # "absent"
Complete(r) == r # None /\ release[r].lifecycle = "complete"
PolicyV3(r) == Plan[release[r].plan].policy

-----------------------------------------------------------------------------
(* Requests, answers and the receipt store *)

Request == [kind : {"start", "applyBatch", "finalize", "activate", "rollback",
                    "page", "initialize"},
            rid : Sources, plan : Plans \cup {None}, i : Nat,
            expected : Sources \cup {None}, previous : Sources \cup {None},
            gen : Nat, tag : Nat, force : BOOLEAN]

NewRequest(kind, rid) ==
  [kind |-> kind, rid |-> rid, plan |-> None, i |-> 0, expected |-> None,
   previous |-> None, gen |-> 0, tag |-> 0, force |-> FALSE]

\* An operation id names the operation and the release, not its content.
OperationId(q) == [q EXCEPT !.plan = None, !.force = FALSE]

Answer(ok, what, n) == [ok |-> ok, what |-> what, n |-> n]
Refused == Answer(FALSE, "refused", 0)

loadExactReplay(q) == OperationId(q) \in DOMAIN receipts

storeReceipt(q, what) ==
  receipts' = (OperationId(q) :> [body |-> q, what |-> what, gen |-> head'.gen,
                                  active |-> head'.active,
                                  previous |-> head'.previous]) @@ receipts

\* The same bytes get the stored receipt, other bytes are refused.
Replayed(q, ans) ==
  /\ loadExactReplay(q)
  /\ ans = IF receipts[OperationId(q)].body = q
           THEN Answer(TRUE, receipts[OperationId(q)].what, 0) ELSE Refused
  /\ UNCHANGED <<server, branch>>

RefusedUnless(permitted, ans) ==
  /\ ~permitted /\ ans = Refused
  /\ UNCHANGED <<server, branch>>

-----------------------------------------------------------------------------
(* start, applyBatch and finalize *)

StartPermitted(q) ==
  Exists(q.rid) => release[q.rid].plan = q.plan

start(q, ans) ==
  \/ Replayed(q, ans)
  \/ /\ ~loadExactReplay(q)
     /\ RefusedUnless(StartPermitted(q), ans)
  \/ /\ ~loadExactReplay(q) /\ StartPermitted(q)
     /\ release' = [release EXCEPT ![q.rid] =
          IF Exists(q.rid) THEN @
          ELSE [NoRelease EXCEPT !.plan = q.plan, !.lifecycle = "staging",
                                 !.required = TRUE]]
     /\ ans = Answer(TRUE, IF Complete(q.rid) THEN "already_complete"
                           ELSE IF Exists(q.rid) THEN "resumed" ELSE "started", 0)
     /\ UNCHANGED <<head, retained, journal, branch>>
     /\ storeReceipt(q, ans.what)

SortedUnique(rows) ==
  \A n \in 1 .. Len(rows) - 1 : rows[n].key < rows[n + 1].key

\* Batches come in the order of their kinds and, within a kind, of their keys.
FollowsLast(staged, batch) ==
  staged # <<>> =>
    LET last == Last(staged)
    IN  \/ BATCH_KIND_RANK(batch.kind) > BATCH_KIND_RANK(last.kind)
        \/ /\ batch.kind = last.kind
           /\ Last(last.rows).key < batch.rows[1].key

assertStagedReferences(staged, batch) ==
  \A n \in DOMAIN batch.rows :
    LET row == batch.rows[n]
    IN  /\ batch.kind # "categories" => row.refs \subseteq References(staged)
        /\ (batch.kind = "chases" /\ row.top # 0) =>
             \E repack \in Range(Rows(staged, "repacks")) :
               repack.key = row.top /\ repack.top = row.key

\* stageReleaseEvFacts and the full packing of a search shard.
StagesFacts(rel, batch) ==
  LET accepted == Len(Rows(rel.staged, "repacks"))
  IN  /\ Len(batch.rows) = IF Len(Repacks[rel.plan]) - accepted < ShardRows
                           THEN Len(Repacks[rel.plan]) - accepted ELSE ShardRows
      /\ rel.count = accepted
      /\ rel.facts # "none" => rel.facts = "building" /\ rel.source = "staging"

BatchPermitted(rel, batch, i) ==
  /\ rel.lifecycle = "staging"
  /\ i = Len(rel.staged) + 1
  /\ i <= Len(Plan[rel.plan].batches)
  /\ SortedUnique(batch.rows)
  /\ FollowsLast(rel.staged, batch)
  /\ Len(Rows(rel.staged, batch.kind)) + Len(batch.rows)
       <= Len(Rows(Plan[rel.plan].batches, batch.kind))
  /\ assertStagedReferences(rel.staged, batch)
  /\ batch.kind = "repacks" => StagesFacts(rel, batch)

applyBatch(q, ans) ==
  LET batch == Plan[q.plan].batches[q.i]
      permitted == BatchPermitted(release[q.rid], batch, q.i)
      repacks == IF batch.kind = "repacks" THEN Len(batch.rows) ELSE 0
  IN  \/ Replayed(q, ans)
      \/ /\ ~loadExactReplay(q)
         /\ RefusedUnless(permitted, ans)
      \/ /\ ~loadExactReplay(q) /\ permitted
         /\ release' = [release EXCEPT ![q.rid] =
              [@ EXCEPT !.staged = Append(@, batch),
                        !.count = @ + repacks,
                        !.facts = IF repacks > 0 THEN "building" ELSE @,
                        !.source = IF repacks > 0 THEN "staging" ELSE @]]
         /\ ans = Answer(TRUE, "accepted", 0)
         /\ UNCHANGED <<head, retained, journal, branch>>
         /\ storeReceipt(q, ans.what)

\* Declared and verified top chases, counted over the staged rows.
TopChases(staged, kind) ==
  Len(SelectSeq(Rows(staged, kind), LAMBDA row : row.top # 0))

assertCategoryHierarchy(staged) ==
  \A row \in Range(Rows(staged, "categories")) :
    row.refs \subseteq References(staged)

Reconciles(rel) ==
  /\ rel.staged = Plan[rel.plan].batches
  /\ TopChases(rel.staged, "repacks") = TopChases(rel.staged, "chases")
  /\ \A kind \in {"collectibles", "repacks", "chases"} :
       \A row \in Range(Rows(rel.staged, kind)) :
         row.seen <= Plan[rel.plan].asOf
  /\ assertCategoryHierarchy(rel.staged)
  /\ rel.facts # "building" => rel.facts = "none" /\ Repacks[rel.plan] = <<>>
  /\ rel.count = Len(Repacks[rel.plan])

finalize(q, ans) ==
  LET rel == release[q.rid]
      permitted == /\ rel.lifecycle = "staging" /\ rel.plan = q.plan
                   /\ Reconciles(rel)
  IN  \/ Replayed(q, ans)
      \/ /\ ~loadExactReplay(q)
         /\ RefusedUnless(permitted, ans)
      \/ /\ ~loadExactReplay(q) /\ permitted
         /\ release' = [release EXCEPT
              ![q.rid].lifecycle = "complete", ![q.rid].facts = "complete",
              ![q.rid].source = "staging"]
         /\ ans = Answer(TRUE, "complete", 0)
         /\ UNCHANGED <<head, retained, journal, branch>>
         /\ storeReceipt(q, ans.what)

-----------------------------------------------------------------------------
(* activate and rollback, with the retained history *)

\* loadReleaseEvFacts finds a sealed fact set of the expected size.
FactsReady(r) ==
  /\ release[r].facts = "complete"
  /\ release[r].count = Len(Repacks[release[r].plan])

NoFacts == [k \in {} |-> NoValue]
ReleaseFacts(r) == IF r = None THEN NoFacts ELSE FactsOf[release[r].plan]
Observe(values, facts) ==
  [k \in Packs |-> IF k \in DOMAIN facts
                   THEN applyObservation(values[k], facts[k]) ELSE values[k]]

\* The journal entry of the transition that activates `to' after `from'.
Transition(from, to, before, after) ==
  [from |-> from, to |-> to,
   changes |-> [k \in {x \in Packs : retained[x] # after[x]} |->
                  [before |-> before[k], after |-> after[k]]]]

\* A release published before the history seeds it when it is displaced.
Seeds(r) == r # None /\ PolicyV3(r)

activateRetainedEv(from, to, seedPrevious) ==
  LET seeding == seedPrevious /\ Seeds(from)
      trunk == IF seeding THEN <<from>> ELSE branch.here
  IN  /\ \E before \in {IF seeding THEN Observe(retained, ReleaseFacts(from)) ELSE retained} :
         \E after \in {Observe(before, ReleaseFacts(to))} :
         \E t \in {Transition(from, to, before, after)} :
           /\ journal' = Append(journal, t)
           /\ retained' = [k \in Packs |-> IF k \in DOMAIN t.changes
                                           THEN t.changes[k].after ELSE retained[k]]
      /\ branch' = [here |-> Append(trunk, to), there |-> trunk]

ActivatePermitted(q) ==
  /\ Complete(q.rid) /\ release[q.rid].plan = q.plan /\ PolicyV3(q.rid)
  /\ head.active = q.expected /\ head.active # q.rid
  /\ (~q.force /\ head.active # None) =>
       Plan[q.plan].asOf >= Plan[release[head.active].plan].asOf
  /\ FactsReady(q.rid)
  /\ (head.transition = 0 /\ Seeds(head.active)) => FactsReady(head.active)

activate(q, ans) ==
  \/ Replayed(q, ans)
  \/ /\ ~loadExactReplay(q)
     /\ RefusedUnless(ActivatePermitted(q), ans)
  \/ /\ ~loadExactReplay(q) /\ ActivatePermitted(q) /\ head.gen < given.moves
     /\ activateRetainedEv(head.active, q.rid, head.transition = 0)
     /\ release' = IF head.transition = 0 /\ Seeds(head.active)
                   THEN [release EXCEPT ![head.active].required = TRUE]
                   ELSE release
     /\ head' = [gen |-> head.gen + 1, active |-> q.rid, previous |-> head.active,
                 terminal |-> OperationId(q), transition |-> Len(journal'),
                 forward |-> TRUE]
     /\ ans = Answer(TRUE, "activated", 0)
     /\ storeReceipt(q, ans.what)

\* loadRetainedEvPointer: the journal entry is the one that made this head.
PointerProved ==
  /\ head.transition # 0
  /\ LET t == journal[head.transition]
     IN  <<head.active, head.previous>> =
           IF head.forward THEN <<t.to, t.from>> ELSE <<t.from, t.to>>
\* The stored history is the side of the entry that is in force.
ChangesProved ==
  LET t == journal[head.transition]
  IN  \A k \in DOMAIN t.changes :
        retained[k] = IF head.forward THEN t.changes[k].after
                                      ELSE t.changes[k].before

RollbackTarget(r) ==
  /\ head.active # None /\ head.previous = r
  /\ Complete(r) /\ PolicyV3(r)

\* Mutation: a rollback moves the pointer and leaves the history.
HistoryStays == retained' = retained

\* rollbackRetainedEv: the journal entry is applied in its other direction.
rollbackRetainedEv ==
  LET t == journal[head.transition]
      undo(k) == IF head.forward THEN t.changes[k].before ELSE t.changes[k].after
  IN  retained' = IF head.transition = 0 THEN retained
                  ELSE [k \in Packs |-> IF k \in DOMAIN t.changes
                                        THEN undo(k) ELSE retained[k]]

\* Mutation: the journal entry keeps its direction when it is reversed.
ReverseOnce(q) ==
  [head EXCEPT !.gen = @ + 1, !.active = head.previous, !.previous = head.active,
               !.terminal = OperationId(q), !.forward = FALSE]

ReversedHead(q) ==
  [head EXCEPT !.gen = @ + 1, !.active = head.previous, !.previous = head.active,
               !.terminal = OperationId(q),
               !.forward = IF head.transition = 0 THEN @ ELSE ~@]

rollback(q, ans) ==
  LET permitted == /\ head.active = q.expected /\ RollbackTarget(q.rid)
                   /\ head.transition # 0 => PointerProved /\ ChangesProved
  IN  \/ Replayed(q, ans)
      \/ /\ ~loadExactReplay(q)
         /\ RefusedUnless(permitted, ans)
      \/ /\ ~loadExactReplay(q) /\ permitted /\ head.gen < given.moves
         /\ rollbackRetainedEv
         /\ head' = ReversedHead(q)
         /\ branch' = [here |-> branch.there, there |-> branch.here]
         /\ ans = Answer(TRUE, "rolled_back", 0)
         /\ UNCHANGED <<release, journal>>
         /\ storeReceipt(q, ans.what)

-----------------------------------------------------------------------------
(* The one-time migration of releases published without compact facts *)

\* usesLegacyEvSnapshot: how the public reader treats release r.
LegacySnapshot(r) ==
  IF release[r].required \/ head.transition # 0 THEN "no"
  ELSE IF \/ release[r].source = "staging"
          \/ \E n \in DOMAIN journal : r \in {journal[n].from, journal[n].to}
       THEN "refused" ELSE "yes"

\* loadEvMigrationState
PointerOf(r) == r # None => Complete(r) /\ PolicyV3(r)
MigrationState ==
  IF ~(PointerOf(head.active) /\ PointerOf(head.previous)) THEN "refused"
  ELSE IF head.active = None THEN "initialized"
  ELSE CASE LegacySnapshot(head.active) = "refused" -> "refused"
         [] LegacySnapshot(head.active) = "yes" -> "required"
         [] OTHER ->
              IF /\ FactsReady(head.active)
                 /\ head.previous # None => FactsReady(head.previous)
                 /\ PointerProved /\ ChangesProved
              THEN "initialized" ELSE "refused"

Pinned(q) ==
  /\ head.gen = q.gen /\ head.active = q.expected /\ head.previous = q.previous
InScope(r) ==
  r \in {head.active, head.previous} /\ Complete(r) /\ PolicyV3(r)

\* The page starts where the fact set ends.
PageDue(q) == release[q.rid].count = q.i

\* backfillActiveReleaseEvFacts: one page after the first q.i packs.
page(q, ans) ==
  LET rel == release[q.rid]
      total == Len(Repacks[rel.plan])
  IN  \/ /\ ~(Pinned(q) /\ InScope(q.rid)) /\ ans = Refused
         /\ UNCHANGED <<server, branch>>
      \/ /\ Pinned(q) /\ InScope(q.rid) /\ rel.facts = "complete"
         /\ ans = IF FactsReady(q.rid) THEN Answer(TRUE, "complete", rel.count)
                                       ELSE Refused
         /\ UNCHANGED <<server, branch>>
      \/ /\ Pinned(q) /\ InScope(q.rid) /\ rel.facts # "complete"
         /\ PageDue(q) => rel.source = "staging"
         /\ ans = IF rel.source = "backfill" /\ rel.asked = q.i
                  THEN Answer(TRUE, "building", rel.count) ELSE Refused
         /\ UNCHANGED <<server, branch>>
      \/ /\ Pinned(q) /\ InScope(q.rid) /\ rel.facts # "complete"
         /\ rel.source # "staging" /\ PageDue(q)
         /\ \E n \in 0 .. PageRows :
              /\ n = 0 <=> rel.count = total
              /\ rel.count + n <= total
              /\ release' = [release EXCEPT ![q.rid] =
                   [@ EXCEPT !.source = "backfill", !.count = @ + n, !.asked = q.i,
                             !.facts = IF rel.count + n = total THEN "complete"
                                                                ELSE "building"]]
              /\ ans = Answer(TRUE, IF rel.count + n = total THEN "complete"
                                    ELSE "building", rel.count + n)
         /\ UNCHANGED <<head, retained, journal, receipts, branch>>

\* Only a stored activation proves that the retained release was public before
\* the active one: after a rollback it is the branch that was given up.
TerminalProved ==
  /\ head.terminal \in DOMAIN receipts
  /\ head.terminal.kind = "activate" /\ head.terminal.rid = head.active
  /\ LET r == receipts[head.terminal]
     IN  <<r.gen, r.active, r.previous>> = <<head.gen, head.active, head.previous>>

InitializePermitted(q) ==
  /\ Pinned(q) /\ head.active = q.rid /\ InScope(q.rid)
  /\ IF head.transition # 0 THEN MigrationState = "initialized"
     ELSE /\ LegacySnapshot(q.rid) = "yes" /\ TerminalProved
          /\ FactsReady(q.rid)
          /\ Seeds(head.previous) => FactsReady(head.previous)

initialize(q, ans) ==
  \/ RefusedUnless(InitializePermitted(q), ans)
  \/ /\ InitializePermitted(q) /\ head.transition # 0
     /\ ans = Answer(TRUE, "initialized", 0)
     /\ UNCHANGED <<server, branch>>
  \/ /\ InitializePermitted(q) /\ head.transition = 0
     /\ activateRetainedEv(head.previous, q.rid, TRUE)
     /\ release' = [r \in Sources |->
          IF r \in {head.previous, q.rid} THEN [release[r] EXCEPT !.required = TRUE]
                                          ELSE release[r]]
     /\ head' = [head EXCEPT !.transition = Len(journal'), !.forward = TRUE]
     /\ ans = Answer(TRUE, "initialized", 0)
     /\ UNCHANGED receipts

Serve(q, ans) ==
  CASE q.kind = "start"      -> start(q, ans)
    [] q.kind = "applyBatch" -> applyBatch(q, ans)
    [] q.kind = "finalize"   -> finalize(q, ans)
    [] q.kind = "activate"   -> activate(q, ans)
    [] q.kind = "rollback"   -> rollback(q, ans)
    [] q.kind = "page"       -> page(q, ans)
    [] q.kind = "initialize" -> initialize(q, ans)

Answers(q) ==
  LET done(what) == Answer(TRUE, what, 0)
  IN  {Refused} \cup
      CASE q.kind = "start" -> {done(w) : w \in {"started", "resumed", "already_complete"}}
        [] q.kind = "applyBatch" -> {done("accepted")}
        [] q.kind = "finalize"   -> {done("complete")}
        [] q.kind = "activate"   -> {done("activated")}
        [] q.kind = "rollback"   -> {done("rolled_back")}
        [] q.kind = "page"       -> {Answer(TRUE, w, n) : w \in {"building", "complete"},
                                                         n \in 0 .. Cardinality(Packs)}
        [] q.kind = "initialize" -> {done("initialized")}

-----------------------------------------------------------------------------
(* The publisher: publish(plan) and rollback(input) *)

IdlePublisher == [pc |-> "idle", plan |-> None, expected |-> None, i |-> 0, gen |-> 0]
Ended == {"idle", "unchanged", "activated", "not_observed", "failed"}

PublishRead(w) ==
  /\ pub[w].pc \in Ended
  /\ \E p \in given.assigned[w] :
       pub' = [pub EXCEPT ![w] =
         [pc |-> IF head.active # Plan[p].rid THEN "start"
                 ELSE IF release[head.active].plan = p THEN "unchanged" ELSE "failed",
          plan |-> p, expected |-> head.active, i |-> 0, gen |-> head.gen]]
  /\ UNCHANGED <<given, server, mig, late, timeouts, branch>>

\* The request of the step publisher w is at.
PublishRequest(w) ==
  LET new(kind) == [NewRequest(kind, Plan[pub[w].plan].rid) EXCEPT !.plan = pub[w].plan]
  IN  CASE pub[w].pc = "batch" -> [new("applyBatch") EXCEPT !.i = pub[w].i]
        [] pub[w].pc = "activate" -> [new("activate") EXCEPT !.expected = pub[w].expected]
        [] OTHER -> new(pub[w].pc)
Calling(w) == pub[w].pc \in {"start", "batch", "finalize", "activate"}

\* The step after an answer.
PublishNext(w, ans) ==
  LET batches == Len(Plan[pub[w].plan].batches)
      next(pc, i) == [pub[w] EXCEPT !.pc = pc, !.i = i]
  IN  IF ~ans.ok THEN next("failed", 0)
      ELSE CASE pub[w].pc = "start" /\ ans.what = "already_complete" -> next("finalize", 0)
             [] pub[w].pc = "start" /\ ans.what # "already_complete" ->
                  IF batches = 0 THEN next("finalize", 0) ELSE next("batch", 1)
             [] pub[w].pc = "batch" ->
                  IF pub[w].i = batches THEN next("finalize", 0)
                                        ELSE next("batch", pub[w].i + 1)
             [] pub[w].pc = "finalize" -> next("status", 0)
             [] pub[w].pc = "activate" -> next("read_back", 0)

PublishCall(w) ==
  /\ Calling(w)
  /\ \E q \in {PublishRequest(w)} : \E ans \in Answers(q) :
       /\ Serve(q, ans)
       /\ pub' = [pub EXCEPT ![w] = PublishNext(w, ans)]
  /\ UNCHANGED <<given, mig, late, timeouts>>

\* The status read-back proves the staged release before it is activated.
PublishStatus(w) ==
  LET rel == release[Plan[pub[w].plan].rid]
  IN  /\ pub[w].pc = "status"
      /\ pub' = [pub EXCEPT ![w].pc =
           IF /\ rel.lifecycle = "complete" /\ rel.plan = pub[w].plan
              /\ rel.staged = Plan[rel.plan].batches
           THEN "activate" ELSE "failed"]
      /\ UNCHANGED <<given, server, mig, late, timeouts, branch>>

readBackActivation(w) ==
  /\ pub[w].pc = "read_back"
  /\ pub' = [pub EXCEPT ![w].pc =
       IF /\ head.active = Plan[pub[w].plan].rid
          /\ release[head.active].plan = pub[w].plan
          /\ head.previous = pub[w].expected
       THEN "activated" ELSE "not_observed"]
  /\ UNCHANGED <<given, server, mig, late, timeouts, branch>>

\* The transport gives up on a call; the request may still reach the server.
PublishTimeout(w) ==
  /\ Calling(w) /\ timeouts < given.timeouts
  /\ late' = late \cup {PublishRequest(w)}
  /\ timeouts' = timeouts + 1
  /\ pub' = [pub EXCEPT ![w].pc = "failed"]
  /\ UNCHANGED <<given, server, mig, branch>>

LateRequest ==
  \E q \in late :
    /\ \E ans \in Answers(q) : Serve(q, ans)
    /\ late' = late \ {q}
    /\ UNCHANGED <<given, clients, timeouts>>

\* An operator rolls back to the retained release, under the publisher's
\* operation id or one of its own.
OperatorRollback ==
  \E tag \in given.tags :
    LET q == [NewRequest("rollback", head.previous) EXCEPT
                !.expected = head.active, !.tag = tag]
    IN  /\ head.previous # None
        /\ \E ans \in Answers(q) : Serve(q, ans)
        /\ UNCHANGED <<given, clients, late, timeouts>>

\* An operator activates a complete release by hand, older data included.
OperatorActivate ==
  \E tag \in given.tags \ {0} : \E r \in Sources :
    LET q == [NewRequest("activate", r) EXCEPT
                !.plan = release[r].plan, !.expected = head.active,
                !.tag = tag, !.force = TRUE]
    IN  /\ Complete(r)
        /\ \E ans \in Answers(q) : Serve(q, ans)
        /\ UNCHANGED <<given, clients, late, timeouts>>

-----------------------------------------------------------------------------
(* The migration command: migrateLocalConvexEv *)

IdleMigration == [pc |-> "idle", gen |-> 0, active |-> None, previous |-> None,
                  rid |-> None, i |-> 0]

MigrateRead ==
  /\ given.migrates /\ mig.pc \in {"idle", "failed"}
  /\ mig' = [pc |-> CASE MigrationState = "initialized" -> "ready"
                      [] MigrationState = "refused" -> "failed"
                      [] OTHER -> "progress",
             gen |-> head.gen, active |-> head.active, previous |-> head.previous,
             rid |-> IF head.previous # None THEN head.previous ELSE head.active,
             i |-> 0]
  /\ UNCHANGED <<given, server, pub, late, timeouts, branch>>

MigratePins == <<mig.gen, mig.active, mig.previous>>

\* Mutation: only the retained release is filled in.
MigratePreviousOnly(done) ==
  [mig EXCEPT !.pc = IF done THEN "initialize" ELSE "page",
              !.rid = IF done THEN mig.active ELSE @]

\* The retained release is filled in first, then the active one.
MigrateTarget(done) ==
  IF ~done THEN [mig EXCEPT !.pc = "page"]
  ELSE IF mig.rid = mig.active THEN [mig EXCEPT !.pc = "initialize"]
  ELSE [mig EXCEPT !.pc = "progress", !.rid = mig.active, !.i = 0]

\* progress: where the backfill of one release stands.
MigrateProgress ==
  /\ mig.pc = "progress"
  /\ mig' = IF /\ InScope(mig.rid)
               /\ MigratePins = <<head.gen, head.active, head.previous>>
            THEN [MigrateTarget(release[mig.rid].facts = "complete") EXCEPT
                    !.i = IF release[mig.rid].facts = "complete" THEN 0
                          ELSE release[mig.rid].count]
            ELSE [mig EXCEPT !.pc = "failed"]
  /\ UNCHANGED <<given, server, pub, late, timeouts, branch>>

MigrateRequest ==
  [NewRequest(mig.pc, mig.rid) EXCEPT !.expected = mig.active,
     !.previous = mig.previous, !.gen = mig.gen, !.i = mig.i]

MigrateCall ==
  /\ mig.pc \in {"page", "initialize"}
  /\ \E q \in {MigrateRequest} : \E ans \in Answers(q) :
       /\ Serve(q, ans)
       /\ mig' = IF ~ans.ok \/ (ans.what = "building" /\ ans.n <= mig.i)
                 THEN [mig EXCEPT !.pc = "failed"]
                 ELSE IF mig.pc = "initialize" THEN [mig EXCEPT !.pc = "verify"]
                 ELSE IF ans.what = "complete" THEN MigrateTarget(TRUE)
                 ELSE [mig EXCEPT !.i = ans.n]
  /\ UNCHANGED <<given, pub, late, timeouts>>

MigrateTimeout ==
  /\ mig.pc \in {"page", "initialize"} /\ timeouts < given.timeouts
  /\ late' = late \cup {MigrateRequest}
  /\ timeouts' = timeouts + 1
  /\ mig' = [mig EXCEPT !.pc = "failed"]
  /\ UNCHANGED <<given, server, pub, branch>>

\* The pointers are the pinned ones and the history is in place.
MigrateVerify ==
  /\ mig.pc = "verify"
  /\ mig' = [mig EXCEPT !.pc =
       IF /\ MigratePins = <<head.gen, head.active, head.previous>>
          /\ MigrationState = "initialized"
       THEN "ready" ELSE "failed"]
  /\ UNCHANGED <<given, server, pub, late, timeouts, branch>>

-----------------------------------------------------------------------------
(* The states the feature is deployed on, and the specification *)

\* A release completed by the earlier build: no facts, no marker.
LegacyRelease(p) ==
  [NoRelease EXCEPT !.plan = p, !.lifecycle = "complete", !.staged = Plan[p].batches]
LegacyActivation(p, expected) ==
  OperationId([NewRequest("activate", Plan[p].rid) EXCEPT !.expected = expected])
LegacyRollback(p, expected) ==
  OperationId([NewRequest("rollback", Plan[p].rid) EXCEPT !.expected = expected])

\* Two legacy publications, the second possibly rolled back.
LegacyHead(shape) ==
  LET old == Plan[Legacy[1]].rid
      new == Plan[Legacy[2]].rid
  IN  CASE shape = "empty" -> NoHead
        [] shape = "activated" ->
             [NoHead EXCEPT !.gen = 2, !.active = new, !.previous = old,
                            !.terminal = LegacyActivation(Legacy[2], old)]
        [] shape = "rolled_back" ->
             [NoHead EXCEPT !.gen = 3, !.active = old, !.previous = new,
                            !.terminal = LegacyRollback(Legacy[1], new)]

LegacyReceipts(shape) ==
  LET old == Plan[Legacy[1]].rid
      new == Plan[Legacy[2]].rid
      receipt(id, p, what, gen, active, previous) ==
        id :> [body |-> [id EXCEPT !.plan = p], what |-> what, gen |-> gen,
               active |-> active, previous |-> previous]
  IN  IF shape = "empty" THEN [id \in {} |-> None]
      ELSE receipt(LegacyActivation(Legacy[1], None), Legacy[1], "activated", 1, old, None)
           @@ receipt(LegacyActivation(Legacy[2], old), Legacy[2], "activated", 2, new, old)
           @@ IF shape = "rolled_back"
              THEN receipt(LegacyRollback(Legacy[1], new), None, "rolled_back", 3, old, new)
              ELSE [id \in {} |-> None]

Init ==
  /\ given \in Deployments
  /\ release = [r \in Sources |->
       IF given.shape # "empty" /\ \E n \in DOMAIN Legacy : Plan[Legacy[n]].rid = r
       THEN LegacyRelease(CHOOSE p \in Range(Legacy) : Plan[p].rid = r)
       ELSE NoRelease]
  /\ head = LegacyHead(given.shape)
  /\ retained = [k \in Packs |-> NoValue]
  /\ journal = <<>>
  /\ receipts = LegacyReceipts(given.shape)
  /\ pub = [w \in Publishers |-> IdlePublisher]
  /\ mig = IdleMigration
  /\ late = {} /\ timeouts = 0
  /\ branch = [here |-> <<>>, there |-> <<>>]

PublishStep(w) ==
  PublishRead(w) \/ PublishCall(w) \/ PublishStatus(w) \/ readBackActivation(w)
MigrateStep == MigrateRead \/ MigrateProgress \/ MigrateCall \/ MigrateVerify

Next ==
  \/ \E w \in Publishers : PublishStep(w) \/ PublishTimeout(w)
  \/ MigrateStep \/ MigrateTimeout
  \/ LateRequest
  \/ OperatorRollback \/ OperatorActivate

Spec == Init /\ [][Next]_vars

\* Where no operator intervenes, a plan that was not published is published
\* again and a migration that was not finished is run again.
Unattended == given.tags = {}
FairSpec ==
  /\ Spec
  /\ \A w \in Publishers : WF_vars(Unattended /\ PublishStep(w))
  /\ WF_vars(Unattended /\ MigrateStep)

-----------------------------------------------------------------------------
(* Properties *)

\* Types of the server's tables and of the clients' states.
V3TypeOK ==
  /\ \A r \in Sources :
       /\ release[r].plan \in Plans \cup {None}
       /\ release[r].lifecycle \in {"absent", "staging", "complete"}
       /\ release[r].facts \in {"none", "building", "complete"}
       /\ release[r].source \in {"none", "staging", "backfill"}
       /\ release[r].count \in 0 .. Cardinality(Packs)
  /\ head.active \in Sources \cup {None} /\ head.previous \in Sources \cup {None}
  /\ head.transition \in 0 .. Len(journal)
  /\ \A k \in Packs : retained[k] \in ValidValue \cup {NoValue}
  /\ late \subseteq Request
  /\ \A w \in Publishers : pub[w].pc \in Ended \cup
       {"start", "batch", "finalize", "status", "activate", "read_back"}

\* The retained value of every pack is what the releases activated on the
\* present branch published, in that order: nothing staged, refused, replayed
\* or rolled back leaves a trace in it, and a migrated deployment has the
\* history of its two retained releases (docs/last-known-ev-display.md,
\* "Durable retention and identity").
HistoryIsTheBranch ==
  \A k \in Packs :
    LET listing == SelectSeq(branch.here,
                     LAMBDA r : k \in DOMAIN ReleaseFacts(r))
        said == [n \in DOMAIN listing |-> ReleaseFacts(listing[n])[k]]
    IN  retained[k] = FoldLeft(applyObservation, NoValue, said)

\* The head can always be read and rolled back: the public reader, which
\* answers RELEASE_UNAVAILABLE when the facts, the marker or the journal do
\* not agree with the pointers, serves the active release, and a rollback to
\* the retained release finds the history as its journal entry left it.
HeadIsServable ==
  head.active # None =>
    /\ Complete(head.active)
    /\ \/ LegacySnapshot(head.active) = "yes"
       \/ /\ LegacySnapshot(head.active) = "no"
          /\ PointerProved /\ ChangesProved /\ FactsReady(head.active)

\* Every retained value can be witnessed: the release it came from is complete
\* and still says so of that pack, and the facts of the active release change
\* nothing in it (readRetainedEvWitness refuses otherwise).
HistoryIsWitnessed ==
  head.transition # 0 =>
    /\ \A k \in DOMAIN ReleaseFacts(head.active) :
         applyObservation(retained[k], ReleaseFacts(head.active)[k]) = retained[k]
    /\ \A k \in Packs : retained[k] # NoValue =>
         LET src == retained[k].src
         IN  /\ Complete(src) /\ FactsReady(src)
             /\ k \in DOMAIN ReleaseFacts(src)
             /\ ReleaseFacts(src)[k].valid /\ ReleaseFacts(src)[k].at = retained[k].at

\* The history never puts releases published before it was kept in another
\* order than theirs, also when the migration runs on a rolled-back head
\* ("Ambiguous legacy heads need operator review").
LegacyHistoryInOrder ==
  \A m, n \in DOMAIN Legacy : \A i, j \in DOMAIN branch.here :
    (branch.here[i] = Plan[Legacy[m]].rid /\ branch.here[j] = Plan[Legacy[n]].rid /\ i < j)
      => m <= n

\* Each stored activation or rollback moved the pointer once and nothing else
\* did, however often its request was sent, delayed or repeated.
OneMovePerReceipt ==
  head.gen = Cardinality({id \in DOMAIN receipts :
                            id.kind \in {"activate", "rollback"}})

\* A complete release holds its plan and only its plan, in order, and a chase
\* row for every top chase a repack advertises.
CompleteIsWhole ==
  \A r \in Sources : Complete(r) =>
    /\ release[r].staged = Plan[release[r].plan].batches
    /\ \A repack \in Range(Rows(release[r].staged, "repacks")) :
         repack.top # 0 =>
           \E chase \in Range(Rows(release[r].staged, "chases")) :
             chase.key = repack.top

\* In every state the stored releases are whole, the head can be served and
\* rolled back, each move has its receipt and each retained value its witness.
V3Invariant ==
  /\ V3TypeOK /\ CompleteIsWhole /\ OneMovePerReceipt
  /\ HeadIsServable /\ HistoryIsWitnessed /\ LegacyHistoryInOrder

\* Without an operator a plan keeps being published until it is public,
\* whatever times out and whether or not the deployment has been migrated.
PlanIsPublished ==
  Unattended =>
    <>(\A w \in Publishers : \A p \in given.assigned[w] : Plan[p].rid \in Range(branch.here))
=============================================================================

----------------------------- MODULE EmailOutbox -----------------------------
(***************************************************************************)
(* The durable email outbox: enqueueing with an idempotency key under a    *)
(* per-source bound, drains that claim due intents and deliver them one by *)
(* one, the operator's retry of a failed intent, and the pruning of old    *)
(* history.  packages/database/src/email-message-outbox-repository.ts (its *)
(* central twin has the same transitions under a row version) and          *)
(* packages/services/src/message-outbox/drain-service.ts.                  *)
(*                                                                         *)
(* Time is kept as what has become true of a row: it is due, its claim has *)
(* lapsed, its history is past the retention cutoff.  How long backoff,    *)
(* lease and retention last decides none of the properties.                *)
(***************************************************************************)
EXTENDS Naturals, Sequences, FiniteSets, SequencesExt

CONSTANTS Key,               \* idempotency keys
          Caller,            \* enqueuing requests, one event each
          Drain,             \* worker processes running the drain
          SourceOf,          \* [Key -> source], the triggering source
          RecipientOf,       \* [Key -> recipient]
          SourceActiveLimit, \* live intents one source may hold
          BatchSize,         \* intents claimed per pass
          PerRecipientLimit, \* of those, to one recipient
          MaximumAttempts,   \* attempts before a retryable failure is final
          MaxFaults,         \* bound: crashes, errors, lost answers, operator retries
          MaxRounds,         \* bound: times one key is inserted
          MaxClaims,         \* bound: no pass outlives its lease after so many claims
          None

\* A row of email_message_intents.
Row == [state: {"pending", "retrying", "sent", "skipped", "failed"}, due: BOOLEAN,
        claim: {"none", "held", "lapsed"}, attempts: Nat, old: BOOLEAN,
        round: 1..MaxRounds]

ASSUME EmailAssumption ==
    /\ SourceActiveLimit \in Nat \ {0} /\ BatchSize \in Nat \ {0}
    /\ PerRecipientLimit \in Nat \ {0} /\ MaximumAttempts \in Nat \ {0}
    /\ MaxRounds \in Nat /\ MaxFaults \in Nat
    /\ IsFiniteSet(Key) /\ None \notin Caller \cup Row
    /\ DOMAIN SourceOf = Key /\ DOMAIN RecipientOf = Key

VARIABLES intents,   \* [Key -> row or None]: email_message_intents
          history,   \* [Key -> set of attempt rows]: email_message_attempts
          caller,    \* [Caller -> where its enqueue stands]
          lock,      \* [source -> holder or None]: the advisory lock
          drain,     \* [Drain -> where its pass stands]
          rounds,    \* [Key -> how often its intent was inserted]
          requeues,  \* [Key -> operator retries of the intent in the table]
          mailed,    \* [Items -> how often the provider took the message]
          excused,   \* [Items -> takeovers and lost answers it lived through]
          marked,    \* the items ever marked sent
          faults     \* faults and operator retries so far

vars == <<intents, history, caller, lock, drain, rounds, requeues, mailed,
          excused, marked, faults>>

\* One insertion of a key: a pruned key can be enqueued again.
Items == Key \X (1..MaxRounds)

Sources == {SourceOf[k] : k \in Key}
Live(row) == row # None /\ row.state \in {"pending", "retrying"}
Terminal(row) == row # None /\ row.state \in {"sent", "skipped", "failed"}

\* An intent as it is inserted.
NewIntent(round) == [state |-> "pending", due |-> TRUE, claim |-> "none",
                     attempts |-> 0, old |-> FALSE, round |-> round]

IdleCaller == [pc |-> "idle", key |-> None]
IdleDrain(mode) == [pc |-> "idle", claims |-> <<>>, outcome |-> None,
                    mode |-> mode]

\* What delivery.resolve() answers: ready, disabled or console (send skips),
\* or a required configuration is missing.
Modes == {"ready", "skips", "missing_configuration"}

EmailInit ==
    /\ intents = [k \in Key |-> None]
    /\ history = [k \in Key |-> {}]
    /\ caller = [c \in Caller |-> IdleCaller]
    /\ lock = [s \in Sources |-> None]
    /\ drain \in [Drain -> {IdleDrain(m) : m \in Modes}]
    /\ rounds = [k \in Key |-> 0]
    /\ requeues = [k \in Key |-> 0]
    /\ mailed = [i \in Items |-> 0]
    /\ excused = [i \in Items |-> 0]
    /\ marked = {}
    /\ faults = 0

-----------------------------------------------------------------------------
(* Enqueue: a lookup without a lock, then a transaction that holds the     *)
(* advisory lock of its source from its first statement to its commit.     *)

CallerVars == <<history, drain, requeues, mailed, excused, marked, faults>>

\* The answer (enqueued, deduplicated, rejected) is told by the step.
Return(c) == caller' = [caller EXCEPT ![c] = [pc |-> "done", key |-> None]]

\* The fast path: a known key converges without lock or capacity.
EnqueueFastPath(c, k) ==
    /\ caller[c].pc = "idle"
    /\ rounds[k] < MaxRounds
    /\ IF intents[k] # None
         THEN Return(c)
         ELSE caller' = [caller EXCEPT ![c] = [pc |-> "begin", key |-> k]]
    /\ UNCHANGED <<intents, lock, rounds>> /\ UNCHANGED CallerVars

\* Mutation: the lock is taken per key, so other keys of the source go on.
EnqueueLockByKey(c) ==
    /\ caller[c].pc = "begin"
    /\ \A o \in Caller : caller[o].pc \in {"count", "insert"}
                           => caller[o].key # caller[c].key
    /\ IF intents[caller[c].key] # None
         THEN Return(c)
         ELSE caller' = [caller EXCEPT ![c].pc = "count"]
    /\ UNCHANGED <<lock, intents, rounds>> /\ UNCHANGED CallerVars

\* pg_advisory_xact_lock waits for the holder; the key is looked up again
\* under it, before capacity is measured.
EnqueueLock(c) ==
    LET k == caller[c].key
        s == SourceOf[k]
    IN /\ caller[c].pc = "begin"
       /\ lock[s] = None
       /\ IF intents[k] # None
            THEN Return(c) /\ UNCHANGED lock
            ELSE /\ lock' = [lock EXCEPT ![s] = c]
                 /\ caller' = [caller EXCEPT ![c].pc = "count"]
       /\ UNCHANGED <<intents, rounds>> /\ UNCHANGED CallerVars

ActiveCount(s) == Cardinality({k \in Key : SourceOf[k] = s /\ Live(intents[k])})

Release(c, k) == lock' = [lock EXCEPT ![SourceOf[k]] = None]

EnqueueCount(c) ==
    LET k == caller[c].key
    IN /\ caller[c].pc = "count"
       /\ IF ActiveCount(SourceOf[k]) >= SourceActiveLimit
            THEN Return(c) /\ Release(c, k)
            ELSE /\ caller' = [caller EXCEPT ![c].pc = "insert"]
                 /\ UNCHANGED lock
       /\ UNCHANGED <<intents, rounds>> /\ UNCHANGED CallerVars

\* The insert yields to a row with the same key, and commits.
EnqueueInsert(c) ==
    LET k == caller[c].key
    IN /\ caller[c].pc = "insert"
       /\ intents[k] = None => rounds[k] < MaxRounds
       /\ IF intents[k] = None
            THEN /\ intents' = [intents EXCEPT ![k] = NewIntent(rounds[k] + 1)]
                 /\ rounds' = [rounds EXCEPT ![k] = @ + 1]
                 /\ Return(c)
            ELSE Return(c) /\ UNCHANGED <<intents, rounds>>
       /\ Release(c, k)
       /\ UNCHANGED CallerVars

-----------------------------------------------------------------------------
(* A drain pass.                                                           *)

DrainVars == <<caller, lock, rounds, requeues>>

\* Mutation: only unclaimed intents are due.
EligibleUnclaimed(k) ==
    Live(intents[k]) /\ intents[k].due /\ intents[k].claim = "none"

Eligible(k) == Live(intents[k]) /\ intents[k].due /\ intents[k].claim # "held"

\* The batches claimDueBatch may take: as many eligible rows as the pass and
\* the recipients' shares allow.  Which of two due rows goes first is left
\* open.
Batches ==
    LET fits(b) == /\ Cardinality(b) <= BatchSize
                   /\ \A k \in b : Cardinality({j \in b :
                          RecipientOf[j] = RecipientOf[k]}) <= PerRecipientLimit
        eligible == {k \in Key : Eligible(k)}
    IN {b \in SUBSET eligible :
           fits(b) /\ \A k \in eligible \ b : ~fits(b \cup {k})}

\* A claim remembers the intent and its attempt number; the claim's random
\* token is the pair of the two, as every claim raises the number.
ClaimOf(k) == [key |-> k, round |-> intents[k].round,
               number |-> intents[k].attempts + 1]

Claimed(row) == [row EXCEPT !.claim = "held", !.attempts = @ + 1]

\* A pass with a required configuration missing claims nothing.
ClaimDueBatch(d) ==
    /\ drain[d].pc = "idle"
    /\ drain[d].mode # "missing_configuration"
    /\ \E b \in Batches :
         /\ b # {}
         /\ intents' = [k \in Key |-> IF k \in b THEN Claimed(intents[k])
                                                 ELSE intents[k]]
         /\ excused' = [i \in Items |->
              IF /\ i[1] \in b /\ i[2] = intents[i[1]].round
                 /\ intents[i[1]].claim = "lapsed"
                THEN excused[i] + 1 ELSE excused[i]]
         /\ \E order \in SetToSeqs(b) :
              drain' = [drain EXCEPT ![d].pc = "process",
                ![d].claims = [i \in DOMAIN order |-> ClaimOf(order[i])]]
    /\ UNCHANGED <<history, mailed, marked, faults>> /\ UNCHANGED DrainVars

\* What an attempt comes to: sent, skipped, or failed for good or for now.
Outcomes == {"sent", "skipped", "fatal", "retryable"}

\* No renderer, a renderer that throws, or one that reports a failure.
RenderFails(d) ==
    /\ drain[d].pc = "process"
    /\ drain' = [drain EXCEPT ![d].pc = "record", ![d].outcome = "fatal"]
    /\ UNCHANGED <<intents, history, mailed, excused, marked, faults>>
    /\ UNCHANGED DrainVars

\* Mutation: a transient refusal of the provider counts as sent.
SendOptimistic(d) ==
    /\ drain[d].pc = "process"
    /\ drain[d].mode = "ready"
    /\ drain' = [drain EXCEPT ![d].pc = "record", ![d].outcome = "sent"]
    /\ UNCHANGED <<intents, history, mailed, excused, marked, faults>>
    /\ UNCHANGED DrainVars

\* delivery.send; its answer may be lost after the provider took the message,
\* which the delivery boundary reports as a retryable failure.
Send(d) ==
    LET claim == Head(drain[d].claims)
        i == <<claim.key, claim.round>>
        Answer(o) == drain' = [drain EXCEPT ![d].pc = "record",
                                            ![d].outcome = o]
    IN /\ drain[d].pc = "process"
       /\ \/ /\ drain[d].mode = "skips" /\ Answer("skipped")
             /\ UNCHANGED <<mailed, excused, faults>>
          \/ /\ drain[d].mode = "ready" /\ Answer("sent")
             /\ mailed' = [mailed EXCEPT ![i] = @ + 1]
             /\ UNCHANGED <<excused, faults>>
          \/ /\ drain[d].mode = "ready"
             /\ \E o \in {"fatal", "retryable"} : Answer(o)
             /\ UNCHANGED <<mailed, excused, faults>>
          \/ /\ drain[d].mode = "ready" /\ Answer("retryable")
             /\ faults < MaxFaults /\ faults' = faults + 1
             /\ mailed' = [mailed EXCEPT ![i] = @ + 1]
             /\ excused' = [excused EXCEPT ![i] = @ + 1]
       /\ UNCHANGED <<intents, history, marked>> /\ UNCHANGED DrainVars

\* Mutation: the row is found by its id alone.
HoldsRow(claim, row) == Live(row) /\ row.round = claim.round

\* The claim still stands: the row is the one claimed, live, with its token.
HoldsToken(claim, row) ==
    /\ Live(row) /\ row.round = claim.round
    /\ row.claim # "none" /\ row.attempts = claim.number

Settled(row, o) ==
    LET final == o # "retryable" \/ row.attempts >= MaximumAttempts
    IN [row EXCEPT !.claim = "none",
                   !.state = CASE o \in {"sent", "skipped"} -> o
                               [] OTHER -> IF final THEN "failed"
                                                    ELSE "retrying",
                   !.due = final]

NextClaim(d) ==
    LET rest == Tail(drain[d].claims)
    IN drain' = [drain EXCEPT ![d].claims = rest, ![d].outcome = None,
                   ![d].pc = IF rest = <<>> THEN "idle" ELSE "process"]

\* Transition and attempt row in one transaction; a claim taken over is lost
\* and writes nothing.
RecordAttemptOutcome(d) ==
    LET claim == Head(drain[d].claims)
        k == claim.key
        o == drain[d].outcome
    IN /\ drain[d].pc = "record"
       /\ IF HoldsToken(claim, intents[k])
            THEN /\ intents' = [intents EXCEPT ![k] = Settled(@, o)]
                 /\ history' = [history EXCEPT ![k] = @ \cup
                      {[number |-> claim.number, outcome |-> o]}]
                 /\ marked' = IF o = "sent"
                                THEN marked \cup {<<k, claim.round>>}
                                ELSE marked
            ELSE UNCHANGED <<intents, history, marked>>
       /\ NextClaim(d)
       /\ UNCHANGED <<mailed, excused, faults>> /\ UNCHANGED DrainVars

\* Recording throws: the pass counts an error and goes on with the batch.
RecordThrows(d) ==
    /\ drain[d].pc = "record"
    /\ faults < MaxFaults /\ faults' = faults + 1
    /\ NextClaim(d)
    /\ UNCHANGED <<intents, history, mailed, excused, marked>>
    /\ UNCHANGED DrainVars

\* The worker dies and starts again, reading its delivery settings anew.
Crash(d) ==
    /\ faults < MaxFaults /\ faults' = faults + 1
    /\ \E m \in Modes : drain' = [drain EXCEPT ![d] = IdleDrain(m)]
    /\ UNCHANGED <<intents, history, mailed, excused, marked>>
    /\ UNCHANGED DrainVars

-----------------------------------------------------------------------------
(* Time, the operator and retention.                                       *)

RowVars == <<caller, lock, drain, rounds, mailed, excused, marked>>

\* A pass that still runs works on the claim of k.
ClaimAlive(k) == \E d \in Drain : \E i \in DOMAIN drain[d].claims :
    HoldsToken(drain[d].claims[i], intents[k]) /\ drain[d].claims[i].key = k

\* Backoff elapses, a lease lapses, a finalized intent grows old.
Passes(k) ==
    /\ intents[k] # None
    /\ \/ /\ Live(intents[k]) /\ ~intents[k].due
          /\ intents' = [intents EXCEPT ![k].due = TRUE]
       \/ /\ Live(intents[k]) /\ intents[k].claim = "held"
          /\ intents[k].attempts < MaxClaims \/ ~ClaimAlive(k)
          /\ intents' = [intents EXCEPT ![k].claim = "lapsed"]
       \/ /\ Terminal(intents[k]) /\ ~intents[k].old
          /\ intents' = [intents EXCEPT ![k].old = TRUE]
    /\ UNCHANGED <<history, requeues, faults>> /\ UNCHANGED RowVars

\* The operator's retry keeps counter and history.
RequeueTerminalIntent(k) ==
    /\ intents[k] # None /\ intents[k].state = "failed"
    /\ faults < MaxFaults /\ faults' = faults + 1
    /\ intents' = [intents EXCEPT ![k].state = "pending", ![k].due = TRUE,
                     ![k].old = FALSE]
    /\ requeues' = [requeues EXCEPT ![k] = @ + 1]
    /\ UNCHANGED history /\ UNCHANGED RowVars

Prunable(k) == Terminal(intents[k]) /\ intents[k].old

PruneHistory(k) ==
    /\ Prunable(k)
    /\ intents' = [intents EXCEPT ![k] = None]
    /\ history' = [history EXCEPT ![k] = {}]
    /\ requeues' = [requeues EXCEPT ![k] = 0]
    /\ UNCHANGED faults /\ UNCHANGED RowVars

EmailNext ==
    \/ \E c \in Caller : \/ \E k \in Key : EnqueueFastPath(c, k)
                         \/ EnqueueLock(c) \/ EnqueueCount(c)
                         \/ EnqueueInsert(c)
    \/ \E d \in Drain : \/ ClaimDueBatch(d) \/ RenderFails(d) \/ Send(d)
                        \/ RecordAttemptOutcome(d) \/ RecordThrows(d)
                        \/ Crash(d)
    \/ \E k \in Key : Passes(k) \/ RequeueTerminalIntent(k) \/ PruneHistory(k)

EmailSpec == EmailInit /\ [][EmailNext]_vars

\* Workers poll, a pass that began goes on, a started transaction ends, time
\* passes.  A worker stuck on a missing configuration is not asked to.
EmailFairSpec ==
    /\ EmailSpec
    /\ \A d \in Drain : /\ WF_vars(ClaimDueBatch(d))
                        /\ WF_vars(Send(d) \/ RenderFails(d))
                        /\ WF_vars(RecordAttemptOutcome(d))
    /\ \A k \in Key : WF_vars(Passes(k))
    /\ \A c \in Caller : WF_vars(EnqueueLock(c) \/ EnqueueCount(c)
                                   \/ EnqueueInsert(c))

-----------------------------------------------------------------------------
(* Properties.                                                             *)

Attempt == [number: Nat \ {0}, outcome: Outcomes]
Claim == [key: Key, round: 1..MaxRounds, number: Nat \ {0}]
Pass == [pc: {"idle", "process", "record"}, claims: Seq(Claim),
         outcome: Outcomes \cup {None}, mode: Modes]

EmailTypeOK ==
    /\ intents \in [Key -> Row \cup {None}]
    /\ history \in [Key -> SUBSET Attempt]
    /\ caller \in [Caller -> [pc: {"idle", "begin", "count", "insert", "done"},
                              key: Key \cup {None}]]
    /\ lock \in [Sources -> Caller \cup {None}]
    /\ drain \in [Drain -> Pass]
    /\ rounds \in [Key -> 0..MaxRounds] /\ requeues \in [Key -> Nat]
    /\ mailed \in [Items -> Nat] /\ excused \in [Items -> Nat]
    /\ marked \subseteq Items /\ faults \in Nat

\* Enqueueing never takes a source past its limit, however its callers
\* interleave; only an operator's retry adds a live intent beyond it.
SourceBound ==
    \A s \in Sources :
        Cardinality({k \in Key : /\ SourceOf[k] = s /\ Live(intents[k])
                                 /\ requeues[k] = 0}) <= SourceActiveLimit

\* Of all passes that hold a claim on an intent at most one can still record:
\* the history has one row per attempt, its last row is what the intent's
\* state says, and a sent message is in it once.
HistoryAgrees ==
    \A k \in Key :
        /\ \A a, b \in history[k] : a.number = b.number => a = b
        /\ Cardinality({a \in history[k] : a.outcome = "sent"}) <= 1
        /\ Terminal(intents[k]) =>
             \E a \in history[k] :
                 /\ \A b \in history[k] : b.number <= a.number
                 /\ a.number = intents[k].attempts
                 /\ intents[k].state = (IF a.outcome \in {"fatal", "retryable"}
                                          THEN "failed" ELSE a.outcome)

\* A message goes out twice only after a claim was taken over at its lapse or
\* the provider's answer was lost: never because two passes shared a claim.
DuplicatesAreExcused ==
    \A i \in Items : mailed[i] <= 1 + excused[i]

\* Recorded attempts stop at the limit, plus one for each operator retry.
RecordedAttemptsBounded ==
    \A k \in Key : Cardinality(history[k]) <= MaximumAttempts + requeues[k]

\* What is recorded of an intent agrees with what was done for it, however
\* claims lapse and answers are lost: the three together.
AttemptsAreKept == HistoryAgrees /\ DuplicatesAreExcused /\ RecordedAttemptsBounded

\* The outbox keeps the promise of an outbox: an intent is enqueued before it
\* is mailed and is marked sent only after the provider took it.
Ledger == INSTANCE ReliableOutbox WITH
    Item <- Items,
    emitted <- {i \in Items : i[2] <= rounds[i[1]]},
    applied <- {i \in Items : mailed[i] > 0},
    acknowledged <- marked
OutboxIsReliable == Ledger!Spec

\* Every enqueued intent comes to rest, unless every worker is left without
\* a configuration it needs.
IntentsComeToRest ==
    \A k \in Key : Live(intents[k]) ~>
        \/ ~Live(intents[k])
        \/ \A d \in Drain : drain[d].mode = "missing_configuration"
=============================================================================

-------------------------- MODULE EmailOutbox_proofs --------------------------
(***************************************************************************)
(* Theorems about EmailOutbox, for every finite set of idempotency keys,   *)
(* every set of callers and workers, every limit, batch and share, however *)
(* claims lapse, answers are lost and workers die.                         *)
(***************************************************************************)
EXTENDS EmailOutbox, FiniteSetTheorems, SequenceTheorems, TLAPS

-----------------------------------------------------------------------------
(* The invariant, in the parts its proof needs.                            *)

\* The live intents of a source that no operator brought back.
Counted(s) == {k \in Key : SourceOf[k] = s /\ Live(intents[k]) /\ requeues[k] = 0}

\* Between its count and its insert a caller holds the lock of its source, and
\* what it counted still leaves room.
CallersLock ==
    \A c \in Caller :
        /\ caller[c].pc \in {"begin", "count", "insert"} => caller[c].key \in Key
        /\ caller[c].pc \in {"count", "insert"} => lock[SourceOf[caller[c].key]] = c
        /\ caller[c].pc = "insert" =>
             Cardinality(Counted(SourceOf[caller[c].key])) < SourceActiveLimit

\* A row is the latest insertion of its key; a finalized one holds no claim.
RowsAreLatest ==
    \A k \in Key :
        /\ intents[k] = None => history[k] = {}
        /\ intents[k] # None => intents[k].round = rounds[k]
        /\ Terminal(intents[k]) => intents[k].claim = "none"

\* Passes hold claims that were made, each held once.
ClaimsAreOwn ==
    /\ \A d \in Drain :
        /\ drain[d].pc = "idle" <=> drain[d].claims = <<>>
        /\ drain[d].pc = "record" => drain[d].outcome \in Outcomes
        /\ \A n \in DOMAIN drain[d].claims :
             LET claim == drain[d].claims[n]
                 row == intents[claim.key]
             IN /\ claim.round <= rounds[claim.key]
                /\ row # None /\ row.round = claim.round => claim.number <= row.attempts
    /\ \A d, e \in Drain : \A m \in DOMAIN drain[d].claims, n \in DOMAIN drain[e].claims :
         drain[d].claims[m] = drain[e].claims[n] => d = e /\ m = n

\* The attempt a claim of a live row is about has not been recorded.
AttemptIsOpen ==
    \A k \in Key : \A a \in history[k] :
        /\ intents[k] # None => a.number <= intents[k].attempts
        /\ Live(intents[k]) /\ intents[k].claim # "none" => a.number < intents[k].attempts
        /\ a.outcome = "sent" => intents[k] # None /\ intents[k].state = "sent"

\* Recorded attempts after which the intent did not go on by itself.
Final(k) == {a \in history[k] : a.outcome # "retryable" \/ a.number >= MaximumAttempts}

\* Each of them but the last was followed by an operator's retry.
FinalAttempts ==
    \A k \in Key :
        /\ IsFiniteSet(history[k])
        /\ Cardinality(Final(k)) <= requeues[k] + (IF Terminal(intents[k]) THEN 1 ELSE 0)

\* The numbers of the claims of an insertion that are still held and whose
\* message was not told to be sent.
CanMail(d, n, i) ==
    /\ drain[d].claims[n].key = i[1] /\ drain[d].claims[n].round = i[2]
    /\ ~(n = 1 /\ drain[d].pc = "record" /\ drain[d].outcome = "sent")
Mailing(i) ==
    {x \in Nat : \E d \in Drain : \E n \in DOMAIN drain[d].claims :
                     CanMail(d, n, i) /\ drain[d].claims[n].number = x}

\* Nobody may be at it: the row waits for a claim or for the operator.
Waiting(row) == row # None /\ row.state \in {"pending", "retrying", "failed"} /\ row.claim = "none"
Share(i) == IF Waiting(intents[i[1]]) /\ intents[i[1]].round = i[2] THEN 0 ELSE 1

\* Every message that went out or may still go out beyond the first is excused.
MailIsExcused ==
    \A i \in Items :
        /\ IsFiniteSet(Mailing(i))
        /\ mailed[i] + Cardinality(Mailing(i)) <= excused[i] + Share(i)
        /\ i[2] > rounds[i[1]] => mailed[i] = 0

\* What is about to be recorded as sent was taken by the provider.
SentWasMailed ==
    \A d \in Drain : drain[d].pc = "record" /\ drain[d].outcome = "sent" =>
        mailed[<<Head(drain[d].claims).key, Head(drain[d].claims).round>>] > 0

EmailInv ==
    /\ EmailTypeOK /\ CallersLock /\ SourceBound /\ RowsAreLatest /\ ClaimsAreOwn
    /\ HistoryAgrees /\ AttemptIsOpen /\ FinalAttempts /\ MailIsExcused /\ SentWasMailed

-----------------------------------------------------------------------------
(* Types.                                                                  *)

\* Passing on: the claim at the head is dropped, the others move up.
LEMMA PassedOn ==
    ASSUME drain \in [Drain -> Pass], NEW d \in Drain, drain[d].claims # <<>>, NextClaim(d)
    PROVE  /\ drain' \in [Drain -> Pass]
           /\ \A e \in Drain : e # d => drain'[e] = drain[e]
           /\ drain'[d].outcome = None
           /\ drain'[d].pc \in {"idle", "process"}
           /\ drain'[d].pc = "idle" <=> drain'[d].claims = <<>>
           /\ \A n \in DOMAIN drain'[d].claims :
                n + 1 \in DOMAIN drain[d].claims /\ n \in Nat \ {0}
                /\ drain'[d].claims[n] = drain[d].claims[n + 1]
<1> DEFINE rest == Tail(drain[d].claims)
<1>1. drain[d] \in Pass /\ drain[d].claims \in Seq(Claim)
  BY DEF Pass
<1>2. rest \in Seq(Claim) /\ Len(rest) = Len(drain[d].claims) - 1
      /\ \A n \in 1 .. Len(rest) : rest[n] = drain[d].claims[n + 1]
  BY <1>1, HeadTailProperties
<1>3. /\ DOMAIN rest = 1 .. Len(rest) /\ Len(rest) \in Nat
      /\ DOMAIN drain[d].claims = 1 .. Len(drain[d].claims) /\ Len(drain[d].claims) \in Nat
  BY <1>1, <1>2, LenProperties
<1> DEFINE new == [drain[d] EXCEPT !.claims = rest, !.outcome = None,
                     !.pc = IF rest = <<>> THEN "idle" ELSE "process"]
<1>4. drain' = [drain EXCEPT ![d] = new]
  BY DEF NextClaim
<1> HIDE DEF rest
<1>5. /\ new \in Pass /\ new.claims = rest /\ new.outcome = None
      /\ new.pc \in {"idle", "process"} /\ (new.pc = "idle" <=> rest = <<>>)
  BY <1>1, <1>2 DEF Pass
<1> HIDE DEF new
<1>6. drain' \in [Drain -> Pass] /\ drain'[d] = new /\ \A e \in Drain : e # d => drain'[e] = drain[e]
  BY <1>4, <1>5
<1>7. /\ drain'[d].claims = rest /\ drain'[d].outcome = None
      /\ drain'[d].pc \in {"idle", "process"} /\ (drain'[d].pc = "idle" <=> drain'[d].claims = <<>>)
  BY <1>5, <1>6
<1>8. \A n \in DOMAIN rest : /\ n + 1 \in DOMAIN drain[d].claims /\ n \in Nat \ {0}
                             /\ rest[n] = drain[d].claims[n + 1]
  BY <1>2, <1>3
<1> QED BY <1>6, <1>7, <1>8

\* A pass that is not idle has a claim at its head.
LEMMA HeadClaim ==
    ASSUME drain \in [Drain -> Pass], NEW d \in Drain, drain[d].claims # <<>>
    PROVE  /\ Head(drain[d].claims) \in Claim /\ Head(drain[d].claims) = drain[d].claims[1]
           /\ 1 \in DOMAIN drain[d].claims
<1>1. drain[d].claims \in Seq(Claim)
  BY DEF Pass
<1> QED BY <1>1, HeadTailProperties, LenProperties, EmptySeq

\* What a pass does between two claims: its claims stay as they are.
LEMMA Answered ==
    ASSUME drain \in [Drain -> Pass], NEW d \in Drain, NEW o \in Outcomes,
           drain' = [drain EXCEPT ![d].pc = "record", ![d].outcome = o]
    PROVE  /\ drain' \in [Drain -> Pass]
           /\ \A e \in Drain : e # d => drain'[e] = drain[e]
           /\ drain'[d].pc = "record" /\ drain'[d].outcome = o
           /\ drain'[d].claims = drain[d].claims
<1> DEFINE new == [drain[d] EXCEPT !.pc = "record", !.outcome = o]
<1>1. drain' = [drain EXCEPT ![d] = new]
  OBVIOUS
<1>2. new \in Pass /\ new.pc = "record" /\ new.outcome = o /\ new.claims = drain[d].claims
  BY DEF Pass
<1> HIDE DEF new
<1> QED BY <1>1, <1>2

\* The claims of a batch: one for each row, each on the row's next attempt.
HoldsBatch(d, order) ==
    drain' = [drain EXCEPT ![d].pc = "process",
                ![d].claims = [i \in DOMAIN order |-> ClaimOf(order[i])]]

LEMMA Batched ==
    ASSUME EmailTypeOK, EmailAssumption, NEW d \in Drain, NEW b \in Batches, b # {},
           NEW order \in SetToSeqs(b),
           HoldsBatch(d, order)
    PROVE  /\ drain' \in [Drain -> Pass]
           /\ \A e \in Drain : e # d => drain'[e] = drain[e]
           /\ drain'[d].pc = "process" /\ drain'[d].claims # <<>>
           /\ \A n \in DOMAIN drain'[d].claims :
                order[n] \in b /\ drain'[d].claims[n] = ClaimOf(order[n])
           /\ \A m, n \in DOMAIN drain'[d].claims :
                drain'[d].claims[m] = drain'[d].claims[n] => m = n
<1>1. b \subseteq Key /\ (\A k \in b : intents[k] \in Row /\ Eligible(k)) /\ IsFiniteSet(b)
  <2>1. b \subseteq {k \in Key : Eligible(k)}
    BY DEF Batches
  <2>2. \A k \in Key : Eligible(k) => intents[k] \in Row
    BY DEF Eligible, Live, EmailTypeOK
  <2> QED BY <2>1, <2>2, FS_Subset DEF EmailAssumption
<1>2. Cardinality(b) \in Nat /\ Cardinality(b) # 0
  BY <1>1, FS_CardinalityType, FS_EmptySet
<1>3. /\ order \in [1 .. Cardinality(b) -> b]
      /\ \A m, n \in 1 .. Cardinality(b) : m # n => order[m] # order[n]
  BY DEF SetToSeqs
<1> DEFINE made == [i \in DOMAIN order |-> ClaimOf(order[i])]
<1>4. \A k \in b : ClaimOf(k) \in Claim /\ ClaimOf(k).key = k
  BY <1>1 DEF ClaimOf, Claim, Row
<1>5. made = [i \in 1 .. Cardinality(b) |-> ClaimOf(order[i])]
  BY <1>3
<1>6. made \in Seq(Claim)
  <2>1. \A i \in 1 .. Cardinality(b) : ClaimOf(order[i]) \in Claim
    BY <1>3, <1>4
  <2>2. made \in [1 .. Cardinality(b) -> Claim]
    BY <1>5, <2>1
  <2> QED BY <1>2, <2>2, SeqDef
<1>7. made # <<>> /\ DOMAIN made = 1 .. Cardinality(b)
  BY <1>2, <1>5
<1>8. /\ \A n \in DOMAIN made : order[n] \in b /\ made[n] = ClaimOf(order[n])
      /\ \A m, n \in DOMAIN made : made[m] = made[n] => m = n
  BY <1>3, <1>4, <1>5
<1> HIDE DEF made
<1> DEFINE new == [drain[d] EXCEPT !.pc = "process", !.claims = made]
<1>9. drain' = [drain EXCEPT ![d] = new]
  BY DEF made, HoldsBatch
<1>10. drain[d] \in Pass
  BY DEF EmailTypeOK
<1>11. new \in Pass /\ new.pc = "process" /\ new.claims = made
  BY <1>6, <1>10 DEF Pass
<1> HIDE DEF new
<1>12. drain \in [Drain -> Pass]
  BY DEF EmailTypeOK
<1>13. drain' \in [Drain -> Pass] /\ drain'[d] = new /\ \A e \in Drain : e # d => drain'[e] = drain[e]
  BY <1>9, <1>11, <1>12
<1>14. drain'[d].claims = made
  BY <1>11, <1>13
<1>15. drain'[d].pc = "process" /\ drain'[d].claims # <<>>
  BY <1>7, <1>11, <1>13, <1>14
<1>16. \A n \in DOMAIN drain'[d].claims : order[n] \in b /\ drain'[d].claims[n] = ClaimOf(order[n])
  BY <1>8, <1>14
<1>17. \A m, n \in DOMAIN drain'[d].claims : drain'[d].claims[m] = drain'[d].claims[n] => m = n
  BY <1>8, <1>14
<1> QED BY <1>13, <1>15, <1>16, <1>17

\* What becomes of a row is a row.
LEMMA RowTypes ==
    ASSUME NEW row \in Row, NEW o \in Outcomes
    PROVE  /\ Claimed(row) \in Row /\ Claimed(row).claim = "held"
           /\ Claimed(row).attempts = row.attempts + 1
           /\ Claimed(row).round = row.round /\ Claimed(row).state = row.state
           /\ Settled(row, o) \in Row /\ Settled(row, o).claim = "none"
           /\ Settled(row, o).attempts = row.attempts /\ Settled(row, o).round = row.round
           /\ Settled(row, o).state =
                IF o \in {"sent", "skipped"} THEN o
                ELSE IF o # "retryable" \/ row.attempts >= MaximumAttempts THEN "failed"
                ELSE "retrying"
<1>1. row.attempts \in Nat /\ row.attempts + 1 \in Nat
  BY DEF Row
<1>2. /\ Claimed(row) \in Row /\ Claimed(row).claim = "held"
      /\ Claimed(row).attempts = row.attempts + 1
      /\ Claimed(row).round = row.round /\ Claimed(row).state = row.state
  BY <1>1 DEF Claimed, Row
<1> DEFINE final == o # "retryable" \/ row.attempts >= MaximumAttempts
           state == IF o \in {"sent", "skipped"} THEN o ELSE IF final THEN "failed" ELSE "retrying"
<1>3. (CASE o \in {"sent", "skipped"} -> o [] OTHER -> IF final THEN "failed" ELSE "retrying") = state
  BY Zenon
<1>4. final \in BOOLEAN /\ state \in {"retrying", "sent", "skipped", "failed"}
  BY DEF Outcomes
<1>5. Settled(row, o) = [row EXCEPT !.claim = "none", !.state = state, !.due = final]
  BY <1>3, Zenon DEF Settled
<1> HIDE DEF final, state
<1>6. /\ Settled(row, o) \in Row /\ Settled(row, o).claim = "none"
      /\ Settled(row, o).attempts = row.attempts /\ Settled(row, o).round = row.round
      /\ Settled(row, o).state = state
  BY <1>4, <1>5 DEF Row
<1> QED BY <1>2, <1>6 DEF state, final

\* Giving a row of one key another value, or none.
LEMMA RowChanged ==
    ASSUME EmailTypeOK, NEW k \in Key, NEW r \in Row \cup {None},
           intents' = [intents EXCEPT ![k] = r]
    PROVE  intents' \in [Key -> Row \cup {None}]
           /\ intents'[k] = r /\ \A j \in Key : j # k => intents'[j] = intents[j]
  BY DEF EmailTypeOK

\* Where an enqueue goes next.
LEMMA CallerTypes ==
    ASSUME EmailTypeOK, NEW c \in Caller, NEW p \in {"count", "insert"},
           NEW k \in Key,
           \/ Return(c)
           \/ caller' = [caller EXCEPT ![c] = [pc |-> "begin", key |-> k]]
           \/ caller' = [caller EXCEPT ![c].pc = p]
    PROVE  caller' \in [Caller -> [pc: {"idle", "begin", "count", "insert", "done"},
                                   key: Key \cup {None}]]
<1>1. caller[c].key \in Key \cup {None}
  BY DEF EmailTypeOK
<1>2. \/ caller' = [caller EXCEPT ![c] = [pc |-> "done", key |-> None]]
      \/ caller' = [caller EXCEPT ![c] = [pc |-> "begin", key |-> k]]
      \/ caller' = [caller EXCEPT ![c] = [caller[c] EXCEPT !.pc = p]]
  BY DEF Return
<1>3. [caller[c] EXCEPT !.pc = p] \in [pc: {"idle", "begin", "count", "insert", "done"}, key: Key \cup {None}]
  BY DEF EmailTypeOK
<1> QED BY <1>2, <1>3 DEF EmailTypeOK

LEMMA EnqueueTypes ==
    ASSUME EmailAssumption, EmailTypeOK, CallersLock, NEW c \in Caller,
           \/ \E k \in Key : EnqueueFastPath(c, k)
           \/ EnqueueLock(c) \/ EnqueueCount(c) \/ EnqueueInsert(c)
    PROVE  EmailTypeOK'
<1>1. history' = history /\ drain' = drain /\ requeues' = requeues /\ mailed' = mailed
      /\ excused' = excused /\ marked' = marked /\ faults' = faults
  BY DEF EnqueueFastPath, EnqueueLock, EnqueueCount, EnqueueInsert, CallerVars
<1>2. CASE \E k \in Key : EnqueueFastPath(c, k)
  <2>1. caller' \in [Caller -> [pc: {"idle", "begin", "count", "insert", "done"},
                                key: Key \cup {None}]]
    BY <1>2, CallerTypes DEF EnqueueFastPath
  <2> QED BY <1>1, <1>2, <2>1 DEF EnqueueFastPath, EmailTypeOK
<1>3. CASE EnqueueLock(c)
  <2>1. caller[c].key \in Key
    BY <1>3 DEF EnqueueLock, CallersLock
  <2>2. caller' \in [Caller -> [pc: {"idle", "begin", "count", "insert", "done"},
                                key: Key \cup {None}]]
    BY <1>3, <2>1, CallerTypes DEF EnqueueLock
  <2>3. lock' \in [Sources -> Caller \cup {None}] /\ intents' = intents /\ rounds' = rounds
    BY <1>3, <2>1 DEF EnqueueLock, EmailTypeOK
  <2> QED BY <1>1, <2>2, <2>3 DEF EmailTypeOK
<1>4. CASE EnqueueCount(c)
  <2>1. caller[c].key \in Key
    BY <1>4 DEF EnqueueCount, CallersLock
  <2>2. caller' \in [Caller -> [pc: {"idle", "begin", "count", "insert", "done"},
                                key: Key \cup {None}]]
    BY <1>4, <2>1, CallerTypes DEF EnqueueCount
  <2>3. lock' \in [Sources -> Caller \cup {None}] /\ intents' = intents /\ rounds' = rounds
    BY <1>4, <2>1 DEF EnqueueCount, Release, EmailTypeOK
  <2> QED BY <1>1, <2>2, <2>3 DEF EmailTypeOK
<1>5. CASE EnqueueInsert(c)
  <2>1. caller[c].key \in Key
    BY <1>5 DEF EnqueueInsert, CallersLock
  <2>2. caller' \in [Caller -> [pc: {"idle", "begin", "count", "insert", "done"},
                                key: Key \cup {None}]]
    BY <1>5, <2>1, CallerTypes DEF EnqueueInsert
  <2>3. lock' \in [Sources -> Caller \cup {None}]
    BY <1>5, <2>1 DEF EnqueueInsert, Release, EmailTypeOK
  <2> DEFINE k == caller[c].key
  <2>4. CASE intents[k] # None
    <3>1. intents' = intents /\ rounds' = rounds
      BY <1>5, <2>4 DEF EnqueueInsert
    <3> QED BY <1>1, <2>2, <2>3, <3>1 DEF EmailTypeOK
  <2>5. CASE intents[k] = None
    <3>1. rounds[k] + 1 \in 1 .. MaxRounds /\ rounds[k] \in 0 .. MaxRounds
      BY <1>5, <2>1, <2>5 DEF EnqueueInsert, EmailTypeOK, EmailAssumption
    <3>2. NewIntent(rounds[k] + 1) \in Row
      BY <3>1 DEF NewIntent, Row
    <3>3. intents' \in [Key -> Row \cup {None}]
      BY <1>5, <2>1, <2>5, <3>2, RowChanged DEF EnqueueInsert
    <3>4. rounds' \in [Key -> 0..MaxRounds]
      BY <1>5, <2>1, <2>5, <3>1 DEF EnqueueInsert, EmailTypeOK
    <3> QED BY <1>1, <2>2, <2>3, <3>3, <3>4 DEF EmailTypeOK
  <2> QED BY <2>4, <2>5
<1> QED BY <1>2, <1>3, <1>4, <1>5

LEMMA DrainTypes ==
    ASSUME EmailAssumption, EmailTypeOK, ClaimsAreOwn, NEW d \in Drain,
           \/ ClaimDueBatch(d) \/ RenderFails(d) \/ Send(d)
           \/ RecordAttemptOutcome(d) \/ RecordThrows(d) \/ Crash(d)
    PROVE  EmailTypeOK'
<1>1. caller' = caller /\ lock' = lock /\ rounds' = rounds /\ requeues' = requeues
  BY DEF ClaimDueBatch, RenderFails, Send, RecordAttemptOutcome, RecordThrows, Crash, DrainVars
<1>2. drain \in [Drain -> Pass] /\ drain[d].pc \in {"idle", "process", "record"}
  BY DEF EmailTypeOK, Pass
<1>3. drain[d].pc # "idle" => drain[d].claims # <<>>
  BY DEF ClaimsAreOwn
<1>4. CASE ClaimDueBatch(d)
  <2>1. PICK b \in Batches :
         /\ b # {}
         /\ intents' = [k \in Key |-> IF k \in b THEN Claimed(intents[k]) ELSE intents[k]]
         /\ excused' = [i \in Items |->
              IF /\ i[1] \in b /\ i[2] = intents[i[1]].round /\ intents[i[1]].claim = "lapsed"
                THEN excused[i] + 1 ELSE excused[i]]
         /\ \E order \in SetToSeqs(b) : HoldsBatch(d, order)
    BY <1>4 DEF ClaimDueBatch, HoldsBatch
  <2>2. drain' \in [Drain -> Pass]
    BY <2>1, Batched
  <2>3. \A k \in b : intents[k] \in Row
    BY DEF Batches, Eligible, Live, EmailTypeOK
  <2>4. \A k \in b : Claimed(intents[k]) \in Row
    BY <2>3, RowTypes DEF Outcomes
  <2>5. intents' \in [Key -> Row \cup {None}]
    BY <2>1, <2>4 DEF EmailTypeOK
  <2>6. excused' \in [Items -> Nat]
    BY <2>1 DEF EmailTypeOK
  <2> QED BY <1>1, <1>4, <2>2, <2>5, <2>6 DEF ClaimDueBatch, EmailTypeOK
<1>5. CASE RenderFails(d)
  <2>1. drain' \in [Drain -> Pass]
    BY <1>2, <1>5, Answered DEF RenderFails, Outcomes
  <2> QED BY <1>1, <1>5, <2>1 DEF RenderFails, EmailTypeOK
<1>6. CASE Send(d)
  <2> DEFINE i == <<Head(drain[d].claims).key, Head(drain[d].claims).round>>
  <2>1. \E o \in Outcomes : drain' = [drain EXCEPT ![d].pc = "record", ![d].outcome = o]
    BY <1>6 DEF Send, Outcomes
  <2>2. drain' \in [Drain -> Pass]
    BY <1>2, <2>1, Answered
  <2>3. i \in Items
    BY <1>2, <1>3, <1>6, HeadClaim DEF Send, Items, Claim
  <2>4. /\ UNCHANGED mailed \/ mailed' = [mailed EXCEPT ![i] = @ + 1]
        /\ UNCHANGED excused \/ excused' = [excused EXCEPT ![i] = @ + 1]
        /\ UNCHANGED faults \/ faults' = faults + 1
        /\ UNCHANGED <<intents, history, marked>>
    BY <1>6 DEF Send
  <2> HIDE DEF i
  <2>5. mailed' \in [Items -> Nat] /\ excused' \in [Items -> Nat] /\ faults' \in Nat
    BY <2>3, <2>4 DEF EmailTypeOK
  <2> QED BY <1>1, <2>2, <2>4, <2>5 DEF EmailTypeOK
<1>7. CASE RecordAttemptOutcome(d)
  <2> DEFINE claim == Head(drain[d].claims)
             k == claim.key
             o == drain[d].outcome
  <2>1. drain' \in [Drain -> Pass]
    BY <1>2, <1>3, <1>7, PassedOn DEF RecordAttemptOutcome
  <2>2. claim \in Claim /\ k \in Key /\ o \in Outcomes
    BY <1>2, <1>3, <1>7, HeadClaim DEF RecordAttemptOutcome, Claim, ClaimsAreOwn
  <2>3. CASE ~HoldsToken(claim, intents[k])
    <3>1. UNCHANGED <<intents, history, marked, mailed, excused, faults>>
      BY <1>7, <2>3 DEF RecordAttemptOutcome
    <3> QED BY <1>1, <2>1, <3>1 DEF EmailTypeOK
  <2>4. CASE HoldsToken(claim, intents[k])
    <3>1. intents[k] \in Row
      BY <2>2, <2>4 DEF HoldsToken, Live, EmailTypeOK
    <3>2. /\ intents' = [intents EXCEPT ![k] = Settled(intents[k], o)]
          /\ history' = [history EXCEPT ![k] = @ \cup {[number |-> claim.number, outcome |-> o]}]
          /\ marked' = marked \/ marked' = marked \cup {<<k, claim.round>>}
          /\ UNCHANGED <<mailed, excused, faults>>
      BY <1>7, <2>4 DEF RecordAttemptOutcome
    <3> HIDE DEF claim, o
    <3>3. intents' \in [Key -> Row \cup {None}]
      <4>1. Settled(intents[k], o) \in Row
        BY <2>2, <3>1, RowTypes
      <4> QED BY <2>2, <3>2, <4>1, RowChanged
    <3>4. [number |-> claim.number, outcome |-> o] \in Attempt
      BY <2>2 DEF Claim, Attempt
    <3>5. history' \in [Key -> SUBSET Attempt]
      BY <2>2, <3>2, <3>4 DEF EmailTypeOK
    <3>6. marked' \subseteq Items
      BY <2>2, <3>2 DEF EmailTypeOK, Items, Claim
    <3> QED BY <1>1, <2>1, <3>2, <3>3, <3>5, <3>6 DEF EmailTypeOK
  <2> QED BY <2>3, <2>4
<1>8. CASE RecordThrows(d)
  <2>1. drain' \in [Drain -> Pass]
    BY <1>2, <1>3, <1>8, PassedOn DEF RecordThrows
  <2> QED BY <1>1, <1>8, <2>1 DEF RecordThrows, EmailTypeOK
<1>9. CASE Crash(d)
  <2>1. \A m \in Modes : IdleDrain(m) \in Pass
    BY EmptySeq DEF IdleDrain, Pass
  <2>2. drain' \in [Drain -> Pass]
    BY <1>2, <1>9, <2>1 DEF Crash
  <2> QED BY <1>1, <1>9, <2>2 DEF Crash, EmailTypeOK
<1> QED BY <1>4, <1>5, <1>6, <1>7, <1>8, <1>9

LEMMA RowStepTypes ==
    ASSUME EmailAssumption, EmailTypeOK, NEW k \in Key,
           Passes(k) \/ RequeueTerminalIntent(k) \/ PruneHistory(k)
    PROVE  /\ EmailTypeOK'
           /\ \A j \in Key : j # k => intents'[j] = intents[j] /\ history'[j] = history[j]
                                      /\ requeues'[j] = requeues[j]
           /\ UNCHANGED <<caller, lock, drain, rounds, mailed, excused, marked>>
<1>1. UNCHANGED <<caller, lock, drain, rounds, mailed, excused, marked>>
  BY DEF Passes, RequeueTerminalIntent, PruneHistory, RowVars
<1>2. CASE PruneHistory(k)
  BY <1>1, <1>2 DEF PruneHistory, EmailTypeOK
<1>3. CASE Passes(k) \/ RequeueTerminalIntent(k)
  <2>1. intents[k] \in Row
    BY <1>3 DEF Passes, RequeueTerminalIntent, EmailTypeOK
  <2>2. \E r \in Row : intents' = [intents EXCEPT ![k] = r]
    <3>1. /\ [intents[k] EXCEPT !.due = TRUE] \in Row /\ [intents[k] EXCEPT !.claim = "lapsed"] \in Row
          /\ [intents[k] EXCEPT !.old = TRUE] \in Row
          /\ [intents[k] EXCEPT !.state = "pending", !.due = TRUE, !.old = FALSE] \in Row
      BY <2>1 DEF Row
    <3>2. \/ intents' = [intents EXCEPT ![k] = [intents[k] EXCEPT !.due = TRUE]]
          \/ intents' = [intents EXCEPT ![k] = [intents[k] EXCEPT !.claim = "lapsed"]]
          \/ intents' = [intents EXCEPT ![k] = [intents[k] EXCEPT !.old = TRUE]]
          \/ intents' = [intents EXCEPT ![k] =
               [intents[k] EXCEPT !.state = "pending", !.due = TRUE, !.old = FALSE]]
      BY <1>3 DEF Passes, RequeueTerminalIntent
    <3> QED BY <3>1, <3>2
  <2>3. intents' \in [Key -> Row \cup {None}] /\ \A j \in Key : j # k => intents'[j] = intents[j]
    BY <2>2, RowChanged
  <2>4. /\ history' = history /\ requeues' \in [Key -> Nat] /\ faults' \in Nat
        /\ \A j \in Key : j # k => requeues'[j] = requeues[j]
    BY <1>3 DEF Passes, RequeueTerminalIntent, EmailTypeOK
  <2> QED BY <1>1, <2>3, <2>4 DEF EmailTypeOK
<1> QED BY <1>2, <1>3

LEMMA EmailTypeStep ==
    ASSUME EmailTypeOK, CallersLock, ClaimsAreOwn, [EmailNext]_vars
    PROVE  EmailTypeOK'
<1>1. CASE UNCHANGED vars
  BY <1>1 DEF vars, EmailTypeOK
<1> QED BY <1>1, EmailAssumption, EnqueueTypes, DrainTypes, RowStepTypes DEF EmailNext

-----------------------------------------------------------------------------
(* What a step does to one key.                                            *)

Kept(k) == history'[k] = history[k] /\ requeues'[k] = requeues[k] /\ rounds'[k] = rounds[k]

Still(k) == intents'[k] = intents[k] /\ Kept(k)

Taken(k) ==
    /\ Live(intents[k]) /\ intents[k].claim # "held"
    /\ intents'[k] \in Row /\ intents'[k].claim = "held"
    /\ intents'[k].state = intents[k].state /\ intents'[k].round = intents[k].round
    /\ intents'[k].attempts = intents[k].attempts + 1
    /\ \E d \in Drain : drain[d].pc = "idle" /\ drain'[d].pc = "process"
    /\ Kept(k)

Recorded(k, d) ==
    /\ drain[d].pc = "record" /\ drain[d].outcome \in Outcomes
    /\ drain'[d].pc # "record" /\ drain[d].claims # <<>> /\ Head(drain[d].claims).key = k
    /\ HoldsToken(Head(drain[d].claims), intents[k])
    /\ intents'[k] = Settled(intents[k], drain[d].outcome)
    /\ history'[k] = history[k] \cup
         {[number |-> intents[k].attempts, outcome |-> drain[d].outcome]}
    /\ requeues'[k] = requeues[k] /\ rounds'[k] = rounds[k]

Inserted(k) ==
    /\ intents[k] = None
    /\ intents'[k] \in Row /\ intents'[k].state = "pending" /\ intents'[k].claim = "none"
    /\ intents'[k].attempts = 0 /\ intents'[k].round = rounds[k] + 1
    /\ rounds'[k] = rounds[k] + 1
    /\ history'[k] = history[k] /\ requeues'[k] = requeues[k]

Waited(k) ==
    /\ intents[k] # None /\ intents'[k] \in Row
    /\ intents'[k].state = intents[k].state /\ intents'[k].round = intents[k].round
    /\ intents'[k].attempts = intents[k].attempts
    /\ \/ intents'[k].claim = intents[k].claim
       \/ Live(intents[k]) /\ intents[k].claim = "held" /\ intents'[k].claim = "lapsed"
    /\ Kept(k)

Retried(k) ==
    /\ intents[k] # None /\ intents[k].state = "failed"
    /\ intents'[k] \in Row /\ intents'[k].state = "pending"
    /\ intents'[k].round = intents[k].round /\ intents'[k].claim = intents[k].claim
    /\ intents'[k].attempts = intents[k].attempts
    /\ requeues'[k] = requeues[k] + 1
    /\ history'[k] = history[k] /\ rounds'[k] = rounds[k]

Pruned(k) ==
    /\ Terminal(intents[k]) /\ intents'[k] = None
    /\ history'[k] = {} /\ requeues'[k] = 0 /\ rounds'[k] = rounds[k]

Moved(k) ==
    \/ Still(k) \/ Taken(k) \/ (\E d \in Drain : Recorded(k, d)) \/ Inserted(k)
    \/ Waited(k) \/ Retried(k) \/ Pruned(k)

\* No step does anything else to a row.
LEMMA RowMoves ==
    ASSUME EmailTypeOK, CallersLock, ClaimsAreOwn, [EmailNext]_vars, NEW k \in Key
    PROVE  Moved(k)
<1>1. ASSUME UNCHANGED <<intents, history, requeues, rounds>> PROVE Moved(k)
  BY <1>1 DEF Moved, Still, Kept
<1>2. ASSUME NEW c \in Caller, EnqueueInsert(c) PROVE Moved(k)
  <2> DEFINE j == caller[c].key
  <2>1. j \in Key /\ UNCHANGED <<history, requeues>>
    BY <1>2 DEF EnqueueInsert, CallersLock, CallerVars
  <2>2. CASE intents[j] # None
    BY <1>1, <1>2, <2>1, <2>2 DEF EnqueueInsert
  <2>3. CASE intents[j] = None /\ j # k
    <3>1. intents'[k] = intents[k] /\ rounds'[k] = rounds[k]
      BY <1>2, <2>1, <2>3 DEF EnqueueInsert, EmailTypeOK
    <3> QED BY <2>1, <3>1 DEF Moved, Still, Kept
  <2>4. CASE intents[k] = None /\ j = k
    <3>1. rounds[k] \in 0 .. MaxRounds /\ rounds[k] < MaxRounds
      BY <1>2, <2>4 DEF EnqueueInsert, EmailTypeOK
    <3>2. intents'[k] = NewIntent(rounds[k] + 1) /\ rounds'[k] = rounds[k] + 1
      BY <1>2, <2>1, <2>4 DEF EnqueueInsert, EmailTypeOK
    <3>3. rounds[k] + 1 \in 1 .. MaxRounds
      BY <3>1, EmailAssumption DEF EmailAssumption
    <3>4. Inserted(k)
      BY <2>1, <2>4, <3>2, <3>3 DEF Inserted, NewIntent, Row
    <3> QED BY <3>4 DEF Moved
  <2> QED BY <2>2, <2>3, <2>4
<1>3. ASSUME NEW d \in Drain, ClaimDueBatch(d) PROVE Moved(k)
  <2>1. UNCHANGED <<history, requeues, rounds>>
    BY <1>3 DEF ClaimDueBatch, DrainVars
  <2>2. PICK b \in Batches :
         intents' = [j \in Key |-> IF j \in b THEN Claimed(intents[j]) ELSE intents[j]]
    BY <1>3 DEF ClaimDueBatch
  <2>3. CASE k \notin b
    BY <2>1, <2>2, <2>3 DEF Moved, Still, Kept
  <2>4. CASE k \in b
    <3>1. Eligible(k)
      BY <2>4 DEF Batches
    <3>2. intents[k] \in Row /\ Live(intents[k]) /\ intents[k].claim # "held"
      BY <3>1 DEF Eligible, Live, EmailTypeOK
    <3>3. intents'[k] = Claimed(intents[k])
      BY <2>2, <2>4
    <3>4. drain[d].pc = "idle" /\ drain'[d].pc = "process"
      <4>1. \E c \in Batches : c # {} /\ \E order \in SetToSeqs(c) : HoldsBatch(d, order)
        BY <1>3 DEF ClaimDueBatch, HoldsBatch
      <4> QED BY <1>3, <4>1, EmailAssumption, Batched DEF ClaimDueBatch
    <3>5. Taken(k)
      BY <2>1, <3>2, <3>3, <3>4, RowTypes DEF Taken, Kept, Outcomes
    <3> QED BY <3>5 DEF Moved
  <2> QED BY <2>3, <2>4
<1>4. ASSUME NEW d \in Drain, RecordAttemptOutcome(d) PROVE Moved(k)
  <2> DEFINE claim == Head(drain[d].claims)
  <2>1. drain[d].claims # <<>> /\ drain[d].outcome \in Outcomes /\ drain[d].pc = "record"
        /\ UNCHANGED <<requeues, rounds>>
    BY <1>4 DEF RecordAttemptOutcome, ClaimsAreOwn, DrainVars
  <2>4. drain'[d].pc # "record"
    BY <1>4, <2>1, PassedOn DEF RecordAttemptOutcome, EmailTypeOK
  <2>2. CASE ~HoldsToken(claim, intents[claim.key])
    BY <1>1, <1>4, <2>1, <2>2 DEF RecordAttemptOutcome
  <2>3. CASE HoldsToken(claim, intents[claim.key])
    <3>1. /\ intents' = [intents EXCEPT ![claim.key] = Settled(@, drain[d].outcome)]
          /\ history' = [history EXCEPT ![claim.key] = @ \cup
               {[number |-> claim.number, outcome |-> drain[d].outcome]}]
      BY <1>4, <2>3 DEF RecordAttemptOutcome
    <3>2. CASE claim.key # k
      BY <2>1, <3>1, <3>2 DEF Moved, Still, Kept, EmailTypeOK
    <3>3. CASE claim.key = k
      <4>1. claim.number = intents[k].attempts
        BY <2>3, <3>3 DEF HoldsToken
      <4>2. Recorded(k, d)
        BY <2>1, <2>3, <2>4, <3>1, <3>3, <4>1 DEF Recorded, EmailTypeOK
      <4> QED BY <4>2 DEF Moved
    <3> QED BY <3>2, <3>3
  <2> QED BY <2>2, <2>3
<1>5. ASSUME NEW j \in Key, Passes(j) PROVE Moved(k)
  <2>1. UNCHANGED <<history, requeues, rounds>> /\ intents[j] # None /\ intents[j] \in Row
    BY <1>5 DEF Passes, RowVars, EmailTypeOK
  <2>2. CASE j # k
    <3>1. intents'[k] = intents[k]
      BY <1>5, <2>2 DEF Passes, EmailTypeOK
    <3> QED BY <2>1, <3>1 DEF Moved, Still, Kept
  <2>3. CASE j = k
    <3>1. \/ intents'[k] = [intents[k] EXCEPT !.due = TRUE]
          \/ /\ Live(intents[k]) /\ intents[k].claim = "held"
             /\ intents'[k] = [intents[k] EXCEPT !.claim = "lapsed"]
          \/ intents'[k] = [intents[k] EXCEPT !.old = TRUE]
      BY <1>5, <2>3 DEF Passes, EmailTypeOK
    <3>2. Waited(k)
      BY <2>1, <2>3, <3>1 DEF Waited, Row, Kept
    <3> QED BY <3>2 DEF Moved
  <2> QED BY <2>2, <2>3
<1>6. ASSUME NEW j \in Key, RequeueTerminalIntent(j) PROVE Moved(k)
  <2>1. UNCHANGED <<history, rounds>> /\ intents[j] # None /\ intents[j] \in Row
    BY <1>6 DEF RequeueTerminalIntent, RowVars, EmailTypeOK
  <2>2. CASE j # k
    <3>1. intents'[k] = intents[k] /\ requeues'[k] = requeues[k]
      BY <1>6, <2>2 DEF RequeueTerminalIntent, EmailTypeOK
    <3> QED BY <2>1, <3>1 DEF Moved, Still, Kept
  <2>3. CASE j = k
    <3>1. /\ intents'[k] = [intents[k] EXCEPT !.state = "pending", !.due = TRUE, !.old = FALSE]
          /\ requeues'[k] = requeues[k] + 1 /\ intents[k].state = "failed"
      BY <1>6, <2>3 DEF RequeueTerminalIntent, EmailTypeOK
    <3>2. Retried(k)
      BY <2>1, <2>3, <3>1 DEF Retried, Row
    <3> QED BY <3>2 DEF Moved
  <2> QED BY <2>2, <2>3
<1>7. ASSUME NEW j \in Key, PruneHistory(j) PROVE Moved(k)
  <2>1. CASE j # k
    BY <1>7, <2>1 DEF PruneHistory, RowVars, Moved, Still, Kept, EmailTypeOK
  <2>2. CASE j = k
    <3>1. Pruned(k)
      BY <1>7, <2>2 DEF PruneHistory, Prunable, RowVars, Pruned, EmailTypeOK
    <3> QED BY <3>1 DEF Moved
  <2> QED BY <2>1, <2>2
<1>8. ASSUME NEW c \in Caller,
             (\E j \in Key : EnqueueFastPath(c, j)) \/ EnqueueLock(c) \/ EnqueueCount(c)
      PROVE  Moved(k)
  BY <1>1, <1>8 DEF EnqueueFastPath, EnqueueLock, EnqueueCount, CallerVars
<1>9. ASSUME NEW d \in Drain, RenderFails(d) \/ Send(d) \/ RecordThrows(d) \/ Crash(d)
      PROVE  Moved(k)
  BY <1>1, <1>9 DEF RenderFails, Send, RecordThrows, Crash, DrainVars
<1>10. CASE UNCHANGED vars
  BY <1>1, <1>10 DEF vars
<1> QED BY <1>2, <1>3, <1>4, <1>5, <1>6, <1>7, <1>8, <1>9, <1>10 DEF EmailNext

\* What recording does to a row, said of its fields.
LEMMA RecordedRow ==
    ASSUME EmailTypeOK, NEW k \in Key, NEW d \in Drain, Recorded(k, d)
    PROVE  /\ intents[k] \in Row /\ intents'[k] \in Row /\ intents'[k] # None
           /\ Live(intents[k]) /\ intents[k].claim # "none" /\ intents'[k].claim = "none"
           /\ intents'[k].attempts = intents[k].attempts
           /\ intents'[k].round = intents[k].round
           /\ intents[k].attempts \in Nat \ {0}
           /\ drain[d].outcome \in {"sent", "skipped"} => intents'[k].state = drain[d].outcome
           /\ drain[d].outcome \in {"fatal", "retryable"} =>
                intents'[k].state =
                  IF drain[d].outcome = "fatal" \/ intents[k].attempts >= MaximumAttempts
                  THEN "failed" ELSE "retrying"
<1>1. intents[k] \in Row /\ Live(intents[k]) /\ intents[k].claim # "none" /\ intents[k] # None
  BY DEF Recorded, HoldsToken, Live, EmailTypeOK
<1>2. Head(drain[d].claims) \in Claim /\ intents[k].attempts = Head(drain[d].claims).number
  BY HeadClaim DEF Recorded, HoldsToken, EmailTypeOK
<1>3. intents[k].attempts \in Nat \ {0}
  BY <1>2 DEF Claim
<1>4. drain[d].outcome \in Outcomes /\ intents'[k] = Settled(intents[k], drain[d].outcome)
  BY DEF Recorded
<1> DEFINE new == Settled(intents[k], drain[d].outcome)
<1>5. /\ new \in Row /\ new.claim = "none"
      /\ new.attempts = intents[k].attempts /\ new.round = intents[k].round
      /\ new.state = IF drain[d].outcome \in {"sent", "skipped"} THEN drain[d].outcome
                     ELSE IF drain[d].outcome # "retryable" \/ intents[k].attempts >= MaximumAttempts
                     THEN "failed" ELSE "retrying"
  BY <1>1, <1>4, RowTypes
<1> HIDE DEF new
<1>6. intents'[k] = new
  BY <1>4 DEF new
<1>7. None \notin Row
  BY EmailAssumption DEF EmailAssumption
<1> QED BY <1>1, <1>3, <1>4, <1>5, <1>6, <1>7 DEF Outcomes

LEMMA RowsStep ==
    ASSUME EmailTypeOK, CallersLock, ClaimsAreOwn, RowsAreLatest, [EmailNext]_vars
    PROVE  RowsAreLatest'
<1> SUFFICES ASSUME NEW k \in Key
             PROVE  /\ intents'[k] = None => history'[k] = {}
                    /\ intents'[k] # None => intents'[k].round = rounds'[k]
                    /\ Terminal(intents'[k]) => intents'[k].claim = "none"
  BY DEF RowsAreLatest
<1>1. /\ intents[k] = None => history[k] = {}
      /\ intents[k] # None => intents[k].round = rounds[k]
      /\ Terminal(intents[k]) => intents[k].claim = "none"
  BY DEF RowsAreLatest
<1>2. intents[k] \in Row \cup {None} /\ None \notin Row
  BY EmailAssumption DEF EmailTypeOK, EmailAssumption
<1>3. Moved(k)
  BY RowMoves
<1>4. CASE Still(k)
  BY <1>1, <1>4 DEF Still, Kept
<1>5. CASE Taken(k)
  BY <1>1, <1>2, <1>5 DEF Taken, Kept, Live, Terminal
<1>6. ASSUME NEW d \in Drain, Recorded(k, d) 
      PROVE  intents'[k] # None /\ intents'[k].round = rounds'[k] /\ intents'[k].claim = "none"
  BY <1>1, <1>2, <1>6, RecordedRow DEF Recorded, Live
<1>7. CASE Inserted(k)
  BY <1>2, <1>7 DEF Inserted
<1>8. CASE Waited(k)
  BY <1>1, <1>2, <1>8 DEF Waited, Kept, Terminal, Live
<1>9. CASE Retried(k)
  BY <1>1, <1>2, <1>9 DEF Retried, Terminal
<1>10. CASE Pruned(k)
  BY <1>10 DEF Pruned, Terminal
<1> QED BY <1>3, <1>4, <1>5, <1>6, <1>7, <1>8, <1>9, <1>10 DEF Moved

LEMMA AttemptIsOpenStep ==
    ASSUME EmailTypeOK, CallersLock, ClaimsAreOwn, RowsAreLatest, AttemptIsOpen, [EmailNext]_vars
    PROVE  AttemptIsOpen'
<1> SUFFICES ASSUME NEW k \in Key, NEW a \in history'[k]
             PROVE  /\ intents'[k] # None => a.number <= intents'[k].attempts
                    /\ Live(intents'[k]) /\ intents'[k].claim # "none" =>
                         a.number < intents'[k].attempts
                    /\ a.outcome = "sent" => intents'[k] # None /\ intents'[k].state = "sent"
  BY DEF AttemptIsOpen
<1>1. a \in history[k] =>
        /\ a.number \in Nat
        /\ intents[k] # None => a.number <= intents[k].attempts
        /\ Live(intents[k]) /\ intents[k].claim # "none" => a.number < intents[k].attempts
        /\ a.outcome = "sent" => intents[k] # None /\ intents[k].state = "sent"
  BY DEF AttemptIsOpen, EmailTypeOK, Attempt
<1>2. /\ intents[k] \in Row \cup {None} /\ None \notin Row
      /\ intents[k] = None => history[k] = {}
      /\ Terminal(intents[k]) => intents[k].claim = "none"
  BY EmailAssumption DEF EmailTypeOK, EmailAssumption, RowsAreLatest
<1>3. intents[k] # None => intents[k].attempts \in Nat
  BY <1>2 DEF Row
<1>4. CASE Still(k)
  BY <1>1, <1>4 DEF Still, Kept
<1>5. CASE Taken(k)
  <2>1. a \in history[k] /\ Live(intents[k]) /\ intents[k] # None
    BY <1>5 DEF Taken, Kept, Live
  <2>2. a.number < intents'[k].attempts /\ a.number <= intents'[k].attempts
    BY <1>1, <1>3, <1>5, <2>1 DEF Taken
  <2>3. a.outcome # "sent"
    BY <1>1, <2>1 DEF Live
  <2> QED BY <2>2, <2>3
<1>6. ASSUME NEW d \in Drain, Recorded(k, d)
      PROVE  /\ a.number <= intents'[k].attempts /\ intents'[k].claim = "none"
             /\ a.outcome = "sent" => intents'[k] # None /\ intents'[k].state = "sent"
  <2>1. CASE a \in history[k]
    <3>1. a.outcome # "sent" /\ a.number <= intents[k].attempts
      BY <1>1, <1>6, <2>1, RecordedRow DEF Live
    <3> QED BY <1>6, <3>1, RecordedRow
  <2>2. CASE a = [number |-> intents[k].attempts, outcome |-> drain[d].outcome]
    <3>1. a.number = intents[k].attempts /\ a.outcome = drain[d].outcome
      BY <2>2
    <3> QED BY <1>6, <3>1, RecordedRow DEF Live
  <2> QED BY <1>6, <2>1, <2>2 DEF Recorded
<1>7. CASE Inserted(k)
  BY <1>2, <1>7 DEF Inserted
<1>8. CASE Waited(k)
  <2>1. a \in history[k] /\ (Live(intents'[k]) <=> Live(intents[k]))
    BY <1>2, <1>8 DEF Waited, Kept, Live
  <2>2. Live(intents'[k]) /\ intents'[k].claim # "none" => intents[k].claim # "none"
    BY <1>8 DEF Waited
  <2>3. a.outcome = "sent" => intents'[k] # None /\ intents'[k].state = "sent"
    BY <1>1, <1>2, <1>8, <2>1 DEF Waited
  <2> QED BY <1>1, <1>8, <2>1, <2>2, <2>3 DEF Waited
<1>9. CASE Retried(k)
  <2>1. a \in history[k] /\ intents'[k].claim = "none"
    BY <1>2, <1>9 DEF Retried, Terminal
  <2>2. a.outcome # "sent"
    BY <1>1, <1>9, <2>1 DEF Retried
  <2>3. intents[k] # None /\ intents'[k].attempts = intents[k].attempts
    BY <1>9 DEF Retried
  <2> QED BY <1>1, <2>1, <2>2, <2>3
<1>10. CASE Pruned(k)
  BY <1>10 DEF Pruned
<1>11. Moved(k)
  BY RowMoves
<1> QED BY <1>4, <1>5, <1>6, <1>7, <1>8, <1>9, <1>10, <1>11 DEF Moved

\* Every attempt is recorded once, and the last of them explains the state.
LEMMA HistoryStep ==
    ASSUME EmailTypeOK, CallersLock, ClaimsAreOwn, RowsAreLatest, AttemptIsOpen, HistoryAgrees,
           [EmailNext]_vars
    PROVE  HistoryAgrees'
<1> DEFINE Sent(h) == {a \in h : a.outcome = "sent"}
           Explains(a, row, h) ==
               /\ a \in h /\ \A b \in h : b.number <= a.number
               /\ a.number = row.attempts
               /\ row.state = IF a.outcome \in {"fatal", "retryable"} THEN "failed" ELSE a.outcome
           Agrees(row, h) ==
               /\ \A a, b \in h : a.number = b.number => a = b
               /\ Cardinality(Sent(h)) <= 1
               /\ Terminal(row) => \E a : Explains(a, row, h)
<1>1. \A k \in Key : Agrees(intents[k], history[k])
  BY DEF HistoryAgrees
<1> SUFFICES ASSUME NEW k \in Key PROVE Agrees(intents'[k], history'[k])
  BY DEF HistoryAgrees
<1>2. /\ intents[k] \in Row \cup {None} /\ None \notin Row
      /\ \A a \in history[k] : a \in Attempt
      /\ \A a \in history[k] : a.number \in Nat
  BY EmailAssumption DEF EmailTypeOK, EmailAssumption, Attempt
<1>3. Cardinality(Sent({})) <= 1 /\ Agrees(None, {})
  BY FS_EmptySet, Cardinality({}) = 0, Sent({}) = {} DEF Terminal
<1>4. ASSUME history'[k] = history[k], Terminal(intents'[k]) =>
                /\ Terminal(intents[k]) /\ intents'[k].attempts = intents[k].attempts
                /\ intents'[k].state = intents[k].state
      PROVE  Agrees(intents'[k], history'[k])
  <2>1. ASSUME NEW a, Explains(a, intents[k], history[k]), Terminal(intents'[k])
        PROVE  Explains(a, intents'[k], history'[k])
    BY <1>4, <2>1
  <2> QED BY <1>1, <1>4, <2>1
<1>5. CASE Still(k)
  BY <1>4, <1>5 DEF Still, Kept
<1>6. CASE Taken(k)
  BY <1>4, <1>6 DEF Taken, Kept, Terminal, Live
<1>7. ASSUME NEW d \in Drain, Recorded(k, d) PROVE Agrees(intents'[k], history'[k])
  <2> DEFINE new == [number |-> intents[k].attempts, outcome |-> drain[d].outcome]
  <2>1. /\ history'[k] = history[k] \cup {new}
        /\ new.number = intents[k].attempts /\ new.outcome = drain[d].outcome
        /\ drain[d].outcome \in Outcomes
    BY <1>7 DEF Recorded
  <2>2. /\ intents[k].attempts \in Nat /\ intents'[k].attempts = intents[k].attempts
        /\ Live(intents[k]) /\ intents[k].claim # "none"
    BY <1>7, RecordedRow
  <2>3. \A a \in history[k] : a.number < intents[k].attempts /\ a.outcome # "sent"
    BY <2>2 DEF AttemptIsOpen, Live
  <2> HIDE DEF new
  <2>4. \A a, b \in history'[k] : a.number = b.number => a = b
    <3>1. \A a, b \in history[k] : a.number = b.number => a = b
      BY <1>1
    <3> QED BY <1>2, <2>1, <2>2, <2>3, <3>1
  <2>5. Cardinality(Sent(history'[k])) <= 1
    <3>1. Sent(history'[k]) = {} \/ Sent(history'[k]) = {new}
      BY <2>1, <2>3
    <3>2. Cardinality({}) = 0 /\ Cardinality({new}) = 1
      BY FS_EmptySet, FS_Singleton
    <3> HIDE DEF Sent
    <3> QED BY <3>1, <3>2
  <2>6. ASSUME Terminal(intents'[k]) PROVE Explains(new, intents'[k], history'[k])
    <3>1. intents'[k].state = IF new.outcome \in {"fatal", "retryable"} THEN "failed" ELSE new.outcome
      BY <1>7, <2>1, <2>6, RecordedRow DEF Terminal, Outcomes
    <3>2. new \in history'[k] /\ \A b \in history'[k] : b.number <= new.number
      BY <1>2, <2>1, <2>2, <2>3
    <3> QED BY <2>1, <2>2, <3>1, <3>2
  <2> QED BY <2>4, <2>5, <2>6
<1>8. CASE Inserted(k)
  BY <1>4, <1>8 DEF Inserted, Terminal
<1>9. CASE Waited(k)
  BY <1>2, <1>4, <1>9 DEF Waited, Kept, Terminal
<1>10. CASE Retried(k)
  BY <1>4, <1>10 DEF Retried, Terminal
<1>11. CASE Pruned(k)
  BY <1>3, <1>11 DEF Pruned
<1>12. Moved(k)
  BY RowMoves
<1> QED BY <1>5, <1>6, <1>7, <1>8, <1>9, <1>10, <1>11, <1>12 DEF Moved

\* Each recorded attempt that stopped the intent is followed by a retry of the
\* operator, but for the last.
LEMMA FinalAttemptsStep ==
    ASSUME EmailTypeOK, CallersLock, ClaimsAreOwn, RowsAreLatest, FinalAttempts, [EmailNext]_vars
    PROVE  FinalAttempts'
<1> SUFFICES ASSUME NEW k \in Key
             PROVE  /\ IsFiniteSet(history'[k])
                    /\ Cardinality(Final(k)') <= requeues'[k] + (IF Terminal(intents'[k]) THEN 1 ELSE 0)
  BY DEF FinalAttempts
<1>1. /\ IsFiniteSet(history[k])
      /\ Cardinality(Final(k)) <= requeues[k] + (IF Terminal(intents[k]) THEN 1 ELSE 0)
  BY DEF FinalAttempts
<1>2. IsFiniteSet(Final(k)) /\ Cardinality(Final(k)) \in Nat /\ requeues[k] \in Nat
  BY <1>1, FS_Subset, FS_CardinalityType DEF Final, EmailTypeOK
<1>3. history'[k] = history[k] => Final(k)' = Final(k)
  BY DEF Final
<1>4. CASE Still(k)
  BY <1>1, <1>3, <1>4 DEF Still, Kept
<1>5. CASE Taken(k)
  <2>1. ~Terminal(intents[k]) /\ ~Terminal(intents'[k])
    BY <1>5 DEF Taken, Live, Terminal
  <2> QED BY <1>1, <1>3, <1>5, <2>1 DEF Taken, Kept
<1>6. ASSUME NEW d \in Drain, Recorded(k, d)
      PROVE  /\ IsFiniteSet(history'[k])
             /\ Cardinality(Final(k)') <= requeues'[k] + (IF Terminal(intents'[k]) THEN 1 ELSE 0)
  <2> DEFINE new == [number |-> intents[k].attempts, outcome |-> drain[d].outcome]
  <2>1. /\ history'[k] = history[k] \cup {new} /\ requeues'[k] = requeues[k]
        /\ new.number = intents[k].attempts /\ new.outcome = drain[d].outcome
        /\ drain[d].outcome \in Outcomes
    BY <1>6 DEF Recorded
  <2>2. ~Terminal(intents[k])
    BY <1>6, RecordedRow DEF Live, Terminal
  <2> HIDE DEF new
  <2>3. IsFiniteSet(history'[k])
    BY <1>1, <2>1, FS_AddElement
  <2>4. CASE new.outcome = "retryable" /\ ~(new.number >= MaximumAttempts)
    <3>1. Final(k)' = Final(k)
      BY <2>1, <2>4 DEF Final
    <3> QED BY <1>1, <1>2, <2>1, <2>2, <2>3, <3>1
  <2>5. CASE new.outcome # "retryable" \/ new.number >= MaximumAttempts
    <3>1. Final(k)' = Final(k) \cup {new}
      BY <2>1, <2>5 DEF Final
    <3>2. Cardinality(Final(k)') <= Cardinality(Final(k)) + 1
      BY <1>2, <3>1, FS_AddElement
    <3>3. Terminal(intents'[k])
      BY <1>6, <2>1, <2>5, RecordedRow DEF Terminal, Outcomes
    <3>4. Cardinality(Final(k)) <= requeues[k] /\ Cardinality(Final(k)') \in Nat
      BY <1>1, <1>2, <2>2, <3>1, FS_AddElement, FS_CardinalityType
    <3> QED BY <1>2, <2>1, <2>3, <3>2, <3>3, <3>4
  <2> QED BY <2>4, <2>5
<1>7. CASE Inserted(k)
  <2>1. ~Terminal(intents[k]) /\ ~Terminal(intents'[k])
    BY <1>7 DEF Inserted, Terminal
  <2> QED BY <1>1, <1>3, <1>7, <2>1 DEF Inserted
<1>8. CASE Waited(k)
  <2>1. Terminal(intents[k]) => Terminal(intents'[k])
    BY <1>8, EmailAssumption DEF Waited, Terminal, EmailAssumption
  <2> QED BY <1>1, <1>2, <1>3, <1>8, <2>1 DEF Waited, Kept
<1>9. CASE Retried(k)
  <2>1. ~Terminal(intents'[k])
    BY <1>9 DEF Retried, Terminal
  <2> QED BY <1>1, <1>2, <1>3, <1>9, <2>1 DEF Retried
<1>10. CASE Pruned(k)
  <2>1. Final(k)' = {} /\ history'[k] = {} /\ requeues'[k] = 0
    BY <1>10 DEF Pruned, Final
  <2> QED BY <2>1, FS_EmptySet
<1>11. Moved(k)
  BY RowMoves
<1> QED BY <1>4, <1>5, <1>6, <1>7, <1>8, <1>9, <1>10, <1>11 DEF Moved

\* So an intent's recorded attempts stop at the limit, once for each retry.
LEMMA AttemptsStop ==
    ASSUME EmailAssumption, EmailTypeOK, HistoryAgrees, FinalAttempts
    PROVE  RecordedAttemptsBounded
<1> SUFFICES ASSUME NEW k \in Key PROVE Cardinality(history[k]) <= MaximumAttempts + requeues[k]
  BY DEF RecordedAttemptsBounded
<1> DEFINE goesOn == {a \in history[k] : a.outcome = "retryable" /\ ~(a.number >= MaximumAttempts)}
<1>1. /\ IsFiniteSet(history[k]) /\ requeues[k] \in Nat /\ MaximumAttempts \in Nat \ {0}
      /\ Cardinality(Final(k)) <= requeues[k] + 1
      /\ \A a, b \in history[k] : a.number = b.number => a = b
      /\ \A a \in history[k] : a.number \in Nat \ {0}
  <2>1. IsFiniteSet(Final(k)) /\ Cardinality(Final(k)) \in Nat
    BY FS_Subset, FS_CardinalityType DEF Final, FinalAttempts
  <2>2. requeues[k] \in Nat /\ MaximumAttempts \in Nat \ {0}
    BY DEF EmailTypeOK, EmailAssumption
  <2>3. IsFiniteSet(history[k]) /\ Cardinality(Final(k)) <= requeues[k] + 1
    BY <2>1, <2>2 DEF FinalAttempts
  <2>4. \A a \in history[k] : a.number \in Nat \ {0}
    BY DEF EmailTypeOK, Attempt
  <2>5. \A a, b \in history[k] : a.number = b.number => a = b
    BY DEF HistoryAgrees
  <2> QED BY <2>2, <2>3, <2>4, <2>5
<1>2. history[k] = Final(k) \cup goesOn /\ Final(k) \cap goesOn = {}
  BY DEF Final
<1>3. IsFiniteSet(Final(k)) /\ IsFiniteSet(goesOn)
  BY <1>1, FS_Subset DEF Final
<1> DEFINE last == MaximumAttempts - 1
<1>4. Cardinality(goesOn) <= last
  <2> DEFINE f == [a \in goesOn |-> a.number]
  <2>1. f \in Injection(goesOn, 1 .. last)
    BY <1>1 DEF Injection, IsInjective
  <2>2. IsFiniteSet(1 .. last) /\ Cardinality(1 .. last) = last
    BY <1>1, FS_Interval
  <2> HIDE DEF f, goesOn, last
  <2> QED BY <2>1, <2>2, FS_Injection
<1>5. Cardinality(history[k]) = Cardinality(Final(k)) + Cardinality(goesOn)
  <2> HIDE DEF goesOn
  <2>1. Cardinality(Final(k) \cup goesOn) =
           Cardinality(Final(k)) + Cardinality(goesOn) - Cardinality(Final(k) \cap goesOn)
    BY <1>3, FS_Union
  <2>2. /\ Cardinality(Final(k) \cap goesOn) = 0
        /\ Cardinality(Final(k)) \in Nat /\ Cardinality(goesOn) \in Nat
    BY <1>2, <1>3, FS_EmptySet, FS_CardinalityType
  <2> QED BY <1>2, <2>1, <2>2
<1>6. Cardinality(Final(k)) \in Nat /\ Cardinality(goesOn) \in Nat
  BY <1>3, FS_CardinalityType
<1> HIDE DEF goesOn
<1> QED BY <1>1, <1>4, <1>5, <1>6

-----------------------------------------------------------------------------
(* The bound of a source.                                                  *)

\* Only an insertion adds to what counts against a source.
LEMMA CountedGrows ==
    ASSUME EmailTypeOK, CallersLock, ClaimsAreOwn, [EmailNext]_vars, NEW s
    PROVE  /\ IsFiniteSet(Counted(s)) /\ Cardinality(Counted(s)) \in Nat
           /\ \A k \in Counted(s)' : k \in Counted(s) \/ Inserted(k)
           /\ rounds' = rounds =>
                /\ Counted(s)' \subseteq Counted(s)
                /\ Cardinality(Counted(s)') <= Cardinality(Counted(s))
                /\ Cardinality(Counted(s)') \in Nat
<1>1. IsFiniteSet(Counted(s)) /\ Cardinality(Counted(s)) \in Nat
  BY EmailAssumption, FS_Subset, FS_CardinalityType DEF Counted, EmailAssumption
<1>2. ASSUME NEW k \in Counted(s)' PROVE k \in Counted(s) \/ Inserted(k)
  <2>1. k \in Key /\ SourceOf[k] = s /\ Live(intents'[k]) /\ requeues'[k] = 0
        /\ requeues[k] \in Nat
    BY <1>2 DEF Counted, EmailTypeOK
  <2>2. Still(k) \/ Taken(k) \/ Waited(k) => Live(intents[k]) /\ requeues[k] = 0
    BY <2>1 DEF Still, Taken, Waited, Kept, Live
  <2>3. ASSUME NEW d \in Drain, Recorded(k, d) PROVE Live(intents[k]) /\ requeues[k] = 0
    BY <2>1, <2>3, RecordedRow DEF Recorded
  <2>4. ~Retried(k) /\ ~Pruned(k)
    BY <2>1 DEF Retried, Pruned, Live
  <2>5. Moved(k)
    BY <2>1, RowMoves
  <2> QED BY <2>1, <2>2, <2>3, <2>4, <2>5 DEF Moved, Counted
<1>3. ASSUME rounds' = rounds PROVE Counted(s)' \subseteq Counted(s)
  <2>1. \A k \in Key : ~Inserted(k)
    BY <1>3 DEF Inserted, EmailTypeOK
  <2> QED BY <1>2, <2>1 DEF Counted
<1> QED BY <1>1, <1>2, <1>3, FS_Subset, FS_CardinalityType

LEMMA CallersStep ==
    ASSUME EmailTypeOK, CallersLock, ClaimsAreOwn, SourceBound, [EmailNext]_vars
    PROVE  CallersLock' /\ SourceBound'
<1> DEFINE Bound(o) ==
        /\ caller[o].pc \in {"begin", "count", "insert"} => caller[o].key \in Key
        /\ caller[o].pc \in {"count", "insert"} => lock[SourceOf[caller[o].key]] = o
        /\ caller[o].pc = "insert" =>
             Cardinality(Counted(SourceOf[caller[o].key])) < SourceActiveLimit
<1>1. \A o \in Caller : Bound(o)
  BY DEF CallersLock
<1>2. \A s \in Sources : Cardinality(Counted(s)) <= SourceActiveLimit
  BY DEF SourceBound, Counted
<1>3. /\ SourceActiveLimit \in Nat /\ None \notin Caller
      /\ \A k \in Key : SourceOf[k] \in Sources
      /\ \A o \in Caller : caller[o] \in [pc: {"idle", "begin", "count", "insert", "done"},
                                          key: Key \cup {None}]
  BY EmailAssumption DEF EmailAssumption, Sources, EmailTypeOK
<1>4. ASSUME rounds' = rounds PROVE SourceBound'
  <2>1. \A s \in Sources : Cardinality(Counted(s)') <= SourceActiveLimit
    BY <1>2, <1>3, <1>4, CountedGrows
  <2> QED BY <2>1 DEF SourceBound, Counted
<1>5. ASSUME NEW o \in Caller, rounds' = rounds, caller'[o] = caller[o],
             caller[o].pc \in {"count", "insert"} =>
               lock'[SourceOf[caller[o].key]] = lock[SourceOf[caller[o].key]]
      PROVE  Bound(o)'
  <2>1. CASE caller[o].pc = "insert"
    <3> DEFINE s == SourceOf[caller[o].key]
    <3>1. Cardinality(Counted(s)) < SourceActiveLimit /\ Cardinality(Counted(s)) \in Nat
      BY <1>1, <2>1, CountedGrows
    <3>2. Cardinality(Counted(s)') <= Cardinality(Counted(s)) /\ Cardinality(Counted(s)') \in Nat
      BY <1>5, CountedGrows
    <3>3. Cardinality(Counted(s)') < SourceActiveLimit
      BY <1>3, <3>1, <3>2
    <3>4. (Cardinality(Counted(SourceOf[caller[o].key])) < SourceActiveLimit)'
      BY <1>5, <3>3 DEF Counted
    <3> QED BY <1>1, <1>5, <2>1, <3>4
  <2>2. CASE caller[o].pc # "insert"
    BY <1>1, <1>5, <2>2
  <2> QED BY <2>1, <2>2
<1>6. ASSUME rounds' = rounds, caller' = caller, lock' = lock PROVE CallersLock' /\ SourceBound'
  BY <1>4, <1>5, <1>6 DEF CallersLock
<1>7. ASSUME NEW c \in Caller, NEW k \in Key, EnqueueFastPath(c, k)
      PROVE  CallersLock' /\ SourceBound'
  <2>1. rounds' = rounds /\ lock' = lock
    BY <1>7 DEF EnqueueFastPath
  <2>2. \/ caller' = [caller EXCEPT ![c] = [pc |-> "done", key |-> None]]
        \/ caller' = [caller EXCEPT ![c] = [pc |-> "begin", key |-> k]]
    BY <1>7 DEF EnqueueFastPath, Return
  <2>3. \A o \in Caller : o # c => caller'[o] = caller[o]
    BY <2>2 DEF EmailTypeOK
  <2>4. \/ caller'[c].pc = "done"
        \/ caller'[c].pc = "begin" /\ caller'[c].key = k
    BY <2>2 DEF EmailTypeOK
  <2>5. Bound(c)'
    BY <2>4
  <2> QED BY <1>4, <1>5, <2>1, <2>3, <2>5 DEF CallersLock
<1>8. ASSUME NEW c \in Caller, EnqueueLock(c) PROVE CallersLock' /\ SourceBound'
  <2> DEFINE k == caller[c].key
             s == SourceOf[k]
  <2>1. rounds' = rounds /\ k \in Key /\ s \in Sources /\ lock[s] = None /\ caller[c].pc = "begin"
    BY <1>1, <1>3, <1>8 DEF EnqueueLock
  <2>2. CASE intents[k] # None
    <3>1. lock' = lock /\ caller' = [caller EXCEPT ![c] = [pc |-> "done", key |-> None]]
      BY <1>8, <2>2 DEF EnqueueLock, Return
    <3>2. caller'[c].pc = "done" /\ \A o \in Caller : o # c => caller'[o] = caller[o]
      BY <3>1 DEF EmailTypeOK
    <3>3. Bound(c)'
      BY <3>2
    <3> QED BY <1>4, <1>5, <2>1, <3>1, <3>2, <3>3 DEF CallersLock
  <2>3. CASE intents[k] = None
    <3>1. lock' = [lock EXCEPT ![s] = c] /\ caller' = [caller EXCEPT ![c].pc = "count"]
      BY <1>8, <2>3 DEF EnqueueLock
    <3>2. /\ caller'[c].pc = "count" /\ caller'[c].key = k
          /\ \A o \in Caller : o # c => caller'[o] = caller[o]
      BY <1>3, <3>1 DEF EmailTypeOK
    <3>3. lock'[s] = c /\ \A r \in Sources : r # s => lock'[r] = lock[r]
      BY <2>1, <3>1 DEF EmailTypeOK
    <3>4. Bound(c)'
      BY <2>1, <3>2, <3>3
    <3>5. \A o \in Caller : caller[o].pc \in {"count", "insert"} =>
            SourceOf[caller[o].key] # s /\ SourceOf[caller[o].key] \in Sources
      BY <1>1, <1>3, <2>1
    <3> HIDE DEF s, k, Bound
    <3>6. \A o \in Caller : o # c => Bound(o)'
      BY <1>5, <2>1, <3>2, <3>3, <3>5
    <3>7. \A o \in Caller : Bound(o)'
      BY <3>4, <3>6
    <3> QED BY <1>4, <2>1, <3>7 DEF CallersLock, Bound
  <2> QED BY <2>2, <2>3
<1>9. ASSUME NEW c \in Caller, EnqueueCount(c) \/ EnqueueInsert(c)
      PROVE  /\ caller[c].key \in Key /\ SourceOf[caller[c].key] \in Sources
             /\ lock[SourceOf[caller[c].key]] = c
             /\ \A o \in Caller : o # c /\ caller[o].pc \in {"count", "insert"} =>
                  /\ caller[o].key \in Key /\ SourceOf[caller[o].key] \in Sources
                  /\ SourceOf[caller[o].key] # SourceOf[caller[c].key]
  BY <1>1, <1>3, <1>9 DEF EnqueueCount, EnqueueInsert
<1>10. ASSUME NEW c \in Caller, EnqueueCount(c) PROVE CallersLock' /\ SourceBound'
  <2>0. PICK k \in Key, s \in Sources : k = caller[c].key /\ s = SourceOf[k]
    BY <1>9, <1>10
  <2>1. rounds' = rounds /\ intents' = intents /\ requeues' = requeues
    BY <1>10 DEF EnqueueCount, CallerVars
  <2>2. CASE ActiveCount(s) >= SourceActiveLimit
    <3>1. caller' = [caller EXCEPT ![c] = [pc |-> "done", key |-> None]]
          /\ lock' = [lock EXCEPT ![s] = None]
      BY <1>10, <2>0, <2>2 DEF EnqueueCount, Return, Release
    <3>2. caller'[c].pc = "done" /\ \A o \in Caller : o # c => caller'[o] = caller[o]
      BY <3>1 DEF EmailTypeOK
    <3>3. \A r \in Sources : r # s => lock'[r] = lock[r]
      BY <3>1 DEF EmailTypeOK
    <3>4. Bound(c)'
      BY <3>2
    <3> HIDE DEF Bound
    <3>5. \A o \in Caller : o # c => Bound(o)'
      BY <1>5, <1>9, <1>10, <2>0, <2>1, <3>2, <3>3
    <3> QED BY <1>4, <2>1, <3>4, <3>5 DEF CallersLock, Bound
  <2>3. CASE ~(ActiveCount(s) >= SourceActiveLimit)
    <3>1. caller' = [caller EXCEPT ![c].pc = "insert"] /\ lock' = lock
      BY <1>10, <2>0, <2>3 DEF EnqueueCount
    <3>2. /\ caller'[c].pc = "insert" /\ caller'[c].key = k
          /\ \A o \in Caller : o # c => caller'[o] = caller[o]
      BY <1>3, <2>0, <3>1 DEF EmailTypeOK
    <3>3. Cardinality(Counted(s)) < SourceActiveLimit
      <4> DEFINE live == {j \in Key : SourceOf[j] = s /\ Live(intents[j])}
      <4>1. IsFiniteSet(live) /\ Counted(s) \subseteq live
        BY EmailAssumption, FS_Subset DEF EmailAssumption, Counted
      <4>2. Cardinality(Counted(s)) <= Cardinality(live)
        BY <4>1, FS_Subset
      <4>3. Cardinality(Counted(s)) \in Nat /\ Cardinality(live) \in Nat
        BY <4>1, FS_Subset, FS_CardinalityType
      <4>4. ActiveCount(s) = Cardinality(live)
        BY DEF ActiveCount
      <4> HIDE DEF live
      <4> QED BY <1>3, <2>3, <4>2, <4>3, <4>4
    <3>4. Counted(s)' = Counted(s)
      BY <2>1 DEF Counted
    <3>5. Counted(SourceOf[caller[c].key])' = Counted(s)
      BY <2>0, <2>1, <3>2 DEF Counted
    <3>6. Bound(c)'
      BY <1>9, <1>10, <2>0, <3>1, <3>2, <3>3, <3>5
    <3> HIDE DEF Bound
    <3>7. \A o \in Caller : o # c => Bound(o)'
      BY <1>5, <2>1, <3>1, <3>2
    <3> QED BY <1>4, <2>1, <3>6, <3>7 DEF CallersLock, Bound
  <2> QED BY <2>2, <2>3
<1>11. ASSUME NEW c \in Caller, EnqueueInsert(c) PROVE CallersLock' /\ SourceBound'
  <2>0. PICK k \in Key, s \in Sources : k = caller[c].key /\ s = SourceOf[k]
    BY <1>9, <1>11
  <2>1. /\ caller[c].pc = "insert"
        /\ caller' = [caller EXCEPT ![c] = [pc |-> "done", key |-> None]]
        /\ lock' = [lock EXCEPT ![s] = None]
        /\ rounds' = rounds \/ rounds' = [rounds EXCEPT ![k] = @ + 1]
    BY <1>11, <2>0 DEF EnqueueInsert, Return, Release
  <2>2. caller'[c].pc = "done" /\ \A o \in Caller : o # c => caller'[o] = caller[o]
    BY <2>1 DEF EmailTypeOK
  <2>3. \A r \in Sources : r # s => lock'[r] = lock[r]
    BY <2>1 DEF EmailTypeOK
  <2>4. \A j \in Key : j # k => ~Inserted(j)
    BY <2>1 DEF Inserted, EmailTypeOK
  <2>5. ASSUME NEW r \in Sources, r # s
        PROVE  Cardinality(Counted(r)') <= Cardinality(Counted(r)) /\ Cardinality(Counted(r)') \in Nat
    <3>1. \A j \in Counted(r)' : j \in Key /\ SourceOf[j] = r
      BY DEF Counted
    <3>2. \A j \in Counted(r)' : j \in Counted(r) \/ Inserted(j)
      BY CountedGrows
    <3>3. Counted(r)' \subseteq Counted(r)
      BY <2>0, <2>4, <2>5, <3>1, <3>2
    <3> QED BY <3>3, CountedGrows, FS_Subset, FS_CardinalityType
  <2>6. Cardinality(Counted(s)') <= SourceActiveLimit
    <3>1. Counted(s)' \subseteq Counted(s) \cup {k}
      <4>1. \A j \in Counted(s)' : j \in Key
        BY DEF Counted
      <4>2. \A j \in Counted(s)' : j \in Counted(s) \/ Inserted(j)
        BY CountedGrows
      <4> QED BY <2>4, <4>1, <4>2
    <3>2. IsFiniteSet(Counted(s)) /\ Cardinality(Counted(s)) \in Nat
          /\ Cardinality(Counted(s)) < SourceActiveLimit
      BY <1>1, <2>0, <2>1, CountedGrows
    <3>3. IsFiniteSet(Counted(s) \cup {k}) /\ Cardinality(Counted(s) \cup {k}) <= Cardinality(Counted(s)) + 1
          /\ Cardinality(Counted(s) \cup {k}) \in Nat
      <4>1. /\ IsFiniteSet(Counted(s) \cup {k})
            /\ Cardinality(Counted(s) \cup {k}) =
                 IF k \in Counted(s) THEN Cardinality(Counted(s)) ELSE Cardinality(Counted(s)) + 1
        BY <3>2, FS_AddElement
      <4> QED BY <3>2, <4>1
    <3>4. Cardinality(Counted(s)') <= Cardinality(Counted(s) \cup {k}) /\ Cardinality(Counted(s)') \in Nat
      BY <3>1, <3>3, FS_Subset, FS_CardinalityType
    <3> QED BY <1>3, <3>2, <3>3, <3>4
  <2>7. SourceBound'
    <3>1. \A r \in Sources : Cardinality(Counted(r)) \in Nat
      BY CountedGrows
    <3>2. \A r \in Sources : Cardinality(Counted(r)') <= SourceActiveLimit
      BY <1>2, <1>3, <2>5, <2>6, <3>1
    <3> QED BY <3>2 DEF SourceBound, Counted
  <2>8. ASSUME NEW o \in Caller, o # c PROVE Bound(o)'
    <3>1. caller'[o] = caller[o]
      BY <2>2, <2>8
    <3>2. CASE caller[o].pc \in {"count", "insert"}
      <4>0. PICK r \in Sources : r = SourceOf[caller[o].key]
        BY <1>9, <1>11, <2>8, <3>2
      <4>1. caller[o].key \in Key /\ r # s /\ lock[r] = o
        BY <1>1, <1>9, <1>11, <2>0, <2>8, <3>2, <4>0
      <4>2. lock'[r] = o
        BY <2>3, <4>1
      <4>3. ASSUME caller[o].pc = "insert" PROVE Cardinality(Counted(r)') < SourceActiveLimit
        <5>1. Cardinality(Counted(r)) < SourceActiveLimit /\ Cardinality(Counted(r)) \in Nat
          BY <1>1, <4>0, <4>3, CountedGrows
        <5> QED BY <1>3, <2>5, <4>1, <5>1
      <4>4. Counted(SourceOf[caller[o].key])' = Counted(r)'
        BY <3>1, <4>0 DEF Counted
      <4> QED BY <3>1, <4>0, <4>1, <4>2, <4>3, <4>4
    <3>3. CASE caller[o].pc \notin {"count", "insert"}
      BY <1>1, <3>1, <3>3
    <3> QED BY <3>2, <3>3
  <2>9. Bound(c)'
    BY <2>2
  <2> QED BY <2>7, <2>8, <2>9 DEF CallersLock
<1>12. ASSUME NEW d \in Drain,
              \/ ClaimDueBatch(d) \/ RenderFails(d) \/ Send(d)
              \/ RecordAttemptOutcome(d) \/ RecordThrows(d) \/ Crash(d)
       PROVE  CallersLock' /\ SourceBound'
  BY <1>6, <1>12 DEF ClaimDueBatch, RenderFails, Send, RecordAttemptOutcome, RecordThrows, Crash, DrainVars
<1>13. ASSUME NEW k \in Key, Passes(k) \/ RequeueTerminalIntent(k) \/ PruneHistory(k)
       PROVE  CallersLock' /\ SourceBound'
  BY <1>6, <1>13 DEF Passes, RequeueTerminalIntent, PruneHistory, RowVars
<1>14. CASE UNCHANGED vars
  BY <1>6, <1>14 DEF vars
<1> QED BY <1>7, <1>8, <1>10, <1>11, <1>12, <1>13, <1>14 DEF EmailNext

-----------------------------------------------------------------------------
(* What a step does to one pass.                                           *)

\* The claims it holds stay, and it learns how an attempt went.
Answers(d) ==
    /\ drain[d].pc = "process" /\ drain'[d].pc = "record"
    /\ drain'[d].outcome \in Outcomes /\ drain'[d].claims = drain[d].claims

\* It is done with the claim at the head.
GoesOn(d) ==
    /\ drain[d].pc = "record" /\ drain'[d].pc \in {"idle", "process"}
    /\ drain'[d].pc = "idle" <=> drain'[d].claims = <<>>
    /\ \A n \in DOMAIN drain'[d].claims :
         /\ n \in Nat \ {0} /\ n + 1 \in DOMAIN drain[d].claims
         /\ drain'[d].claims[n] = drain[d].claims[n + 1]

\* It begins with nothing, or with the claims it just made.
Restarts(d) == drain'[d].pc = "idle" /\ drain'[d].claims = <<>>

Begins(d) ==
    /\ drain[d].claims = <<>>
    /\ drain'[d].pc = "process" /\ drain'[d].claims # <<>>
    /\ \A n \in DOMAIN drain'[d].claims : \E k \in Key :
         Taken(k) /\ drain'[d].claims[n] = ClaimOf(k)
    /\ \A m, n \in DOMAIN drain'[d].claims :
         drain'[d].claims[m] = drain'[d].claims[n] => m = n

PassMoved(d) == Answers(d) \/ GoesOn(d) \/ Restarts(d) \/ Begins(d)

\* A step moves at most one pass.
LEMMA DrainMoves ==
    ASSUME EmailTypeOK, CallersLock, ClaimsAreOwn, [EmailNext]_vars
    PROVE  \/ drain' = drain
           \/ \E d \in Drain : /\ PassMoved(d)
                               /\ \A e \in Drain : e # d => drain'[e] = drain[e]
<1>1. drain \in [Drain -> Pass]
  BY DEF EmailTypeOK
<1>2. ASSUME NEW d \in Drain, ClaimDueBatch(d)
      PROVE  PassMoved(d) /\ \A e \in Drain : e # d => drain'[e] = drain[e]
  <2>1. PICK b \in Batches :
         /\ b # {}
         /\ intents' = [k \in Key |-> IF k \in b THEN Claimed(intents[k]) ELSE intents[k]]
         /\ \E order \in SetToSeqs(b) : HoldsBatch(d, order)
    BY <1>2 DEF ClaimDueBatch, HoldsBatch
  <2>2. PICK order \in SetToSeqs(b) : HoldsBatch(d, order)
    BY <2>1
  <2>3. /\ \A e \in Drain : e # d => drain'[e] = drain[e]
        /\ drain'[d].pc = "process" /\ drain'[d].claims # <<>>
        /\ \A n \in DOMAIN drain'[d].claims :
             order[n] \in b /\ drain'[d].claims[n] = ClaimOf(order[n])
        /\ \A m, n \in DOMAIN drain'[d].claims :
             drain'[d].claims[m] = drain'[d].claims[n] => m = n
    BY <2>1, <2>2, EmailAssumption, Batched
  <2>4. \A k \in b : k \in Key /\ Taken(k)
    <3> SUFFICES ASSUME NEW k \in b PROVE k \in Key /\ Taken(k)
      OBVIOUS
    <3>1. k \in Key /\ Eligible(k)
      BY DEF Batches
    <3>2. intents[k] \in Row /\ Live(intents[k]) /\ intents[k].claim # "held"
      BY <3>1 DEF Eligible, Live, EmailTypeOK
    <3>3. intents'[k] = Claimed(intents[k]) /\ Kept(k)
      BY <1>2, <2>1, <3>1 DEF ClaimDueBatch, DrainVars, Kept
    <3>4. drain[d].pc = "idle" /\ drain'[d].pc = "process"
      BY <1>2, <2>3 DEF ClaimDueBatch
    <3> QED BY <3>1, <3>2, <3>3, <3>4, RowTypes DEF Taken, Outcomes
  <2>5. drain[d].claims = <<>>
    BY <1>2 DEF ClaimDueBatch, ClaimsAreOwn
  <2>6. Begins(d)
    BY <2>3, <2>4, <2>5 DEF Begins
  <2> QED BY <2>3, <2>6 DEF PassMoved
<1>3. ASSUME NEW d \in Drain, RenderFails(d) \/ Send(d)
      PROVE  PassMoved(d) /\ \A e \in Drain : e # d => drain'[e] = drain[e]
  <2>1. drain[d].pc = "process" /\
        \E o \in Outcomes : drain' = [drain EXCEPT ![d].pc = "record", ![d].outcome = o]
    BY <1>3 DEF RenderFails, Send, Outcomes
  <2>2. PICK o \in Outcomes : drain' = [drain EXCEPT ![d].pc = "record", ![d].outcome = o]
    BY <2>1
  <2>3. /\ \A e \in Drain : e # d => drain'[e] = drain[e]
        /\ drain'[d].pc = "record" /\ drain'[d].outcome = o /\ drain'[d].claims = drain[d].claims
    BY <1>1, <2>2, Answered
  <2> QED BY <2>1, <2>3 DEF PassMoved, Answers
<1>4. ASSUME NEW d \in Drain, RecordAttemptOutcome(d) \/ RecordThrows(d)
      PROVE  PassMoved(d) /\ \A e \in Drain : e # d => drain'[e] = drain[e]
  <2>1. drain[d].pc = "record" /\ NextClaim(d) /\ drain[d].claims # <<>>
    BY <1>4 DEF RecordAttemptOutcome, RecordThrows, ClaimsAreOwn
  <2> QED BY <1>1, <2>1, PassedOn DEF PassMoved, GoesOn
<1>5. ASSUME NEW d \in Drain, Crash(d)
      PROVE  PassMoved(d) /\ \A e \in Drain : e # d => drain'[e] = drain[e]
  BY <1>1, <1>5 DEF Crash, IdleDrain, PassMoved, Restarts
<1>6. ASSUME NEW c \in Caller,
             \/ \E k \in Key : EnqueueFastPath(c, k)
             \/ EnqueueLock(c) \/ EnqueueCount(c) \/ EnqueueInsert(c)
      PROVE  drain' = drain
  BY <1>6 DEF EnqueueFastPath, EnqueueLock, EnqueueCount, EnqueueInsert, CallerVars
<1>7. ASSUME NEW k \in Key, Passes(k) \/ RequeueTerminalIntent(k) \/ PruneHistory(k)
      PROVE  drain' = drain
  BY <1>7 DEF Passes, RequeueTerminalIntent, PruneHistory, RowVars
<1>8. CASE UNCHANGED vars
  BY <1>8 DEF vars
<1> QED BY <1>2, <1>3, <1>4, <1>5, <1>6, <1>7, <1>8 DEF EmailNext

\* That a claim was made, and on which attempt, stays true of it.
Made(claim) ==
    /\ claim.round <= rounds[claim.key]
    /\ intents[claim.key] # None /\ intents[claim.key].round = claim.round =>
         claim.number <= intents[claim.key].attempts

LEMMA ClaimsStayMade ==
    ASSUME EmailTypeOK, CallersLock, ClaimsAreOwn, RowsAreLatest, [EmailNext]_vars,
           NEW claim \in Claim, Made(claim)
    PROVE  Made(claim)'
<1> DEFINE k == claim.key
<1>1. k \in Key /\ claim.round \in Nat /\ claim.number \in Nat /\ rounds[k] \in Nat
  BY EmailAssumption DEF Claim, EmailTypeOK, EmailAssumption
<1>2. intents[k] \in Row \cup {None} /\ None \notin Row
      /\ (intents[k] # None => intents[k].attempts \in Nat /\ intents[k].round = rounds[k])
  BY <1>1, EmailAssumption DEF EmailTypeOK, EmailAssumption, Row, RowsAreLatest
<1>3. /\ claim.round <= rounds[k]
      /\ intents[k] # None /\ intents[k].round = claim.round => claim.number <= intents[k].attempts
  BY DEF Made
<1>4. Moved(k)
  BY <1>1, RowMoves
<1> SUFFICES /\ claim.round <= rounds'[k]
             /\ intents'[k] # None /\ intents'[k].round = claim.round =>
                  claim.number <= intents'[k].attempts
  BY DEF Made
<1> HIDE DEF k
<1>5. ASSUME NEW d \in Drain, Recorded(k, d)
      PROVE  rounds'[k] = rounds[k] /\ intents'[k].attempts = intents[k].attempts
             /\ intents'[k].round = intents[k].round /\ intents[k] # None
  BY <1>1, <1>5, RecordedRow DEF Recorded, Live
<1>6. CASE Taken(k)
  <2>1. intents[k] # None /\ intents[k].attempts \in Nat
    BY <1>2, <1>6 DEF Taken, Live
  <2> QED BY <1>1, <1>3, <1>6, <2>1 DEF Taken, Kept
<1> QED BY <1>1, <1>2, <1>3, <1>4, <1>5, <1>6
        DEF Moved, Still, Inserted, Waited, Retried, Pruned, Kept

Holds(d, claim) == \E n \in DOMAIN drain[d].claims : drain[d].claims[n] = claim

\* A claim that is held was held, or was made by this step.
LEMMA HeldClaims ==
    ASSUME EmailTypeOK, CallersLock, ClaimsAreOwn, [EmailNext]_vars,
           NEW d \in Drain, NEW claim, Holds(d, claim)'
    PROVE  \/ Holds(d, claim)
           \/ \E k \in Key : Taken(k) /\ claim = ClaimOf(k)
<1>1. drain'[d] = drain[d] => Holds(d, claim)
  BY DEF Holds
<1>2. ASSUME PassMoved(d) PROVE Holds(d, claim) \/ \E k \in Key : Taken(k) /\ claim = ClaimOf(k)
  BY <1>2 DEF PassMoved, Answers, GoesOn, Restarts, Begins, Holds
<1> QED BY <1>1, <1>2, DrainMoves

LEMMA ClaimsStep ==
    ASSUME EmailTypeOK, EmailTypeOK', CallersLock, ClaimsAreOwn, RowsAreLatest, [EmailNext]_vars
    PROVE  ClaimsAreOwn'
<1> DEFINE InOrder(d) ==
        /\ drain[d].pc = "idle" <=> drain[d].claims = <<>>
        /\ drain[d].pc = "record" => drain[d].outcome \in Outcomes
           Apart(d, e) ==
        \A m \in DOMAIN drain[d].claims, n \in DOMAIN drain[e].claims :
            drain[d].claims[m] = drain[e].claims[n] => d = e /\ m = n
<1>1. \A d, e \in Drain : InOrder(d) /\ Apart(d, e)
  BY DEF ClaimsAreOwn
<1>2. \A d \in Drain : \A claim : Holds(d, claim) => Made(claim)
  BY DEF ClaimsAreOwn, Made, Holds
<1>3. \A d \in Drain : \A n \in DOMAIN drain[d].claims : drain[d].claims[n] \in Claim
  BY LenProperties, ElementOfSeq DEF EmailTypeOK, Pass
<1>4. \A d \in Drain : \A n \in DOMAIN drain'[d].claims : drain'[d].claims[n] \in Claim
  BY LenProperties, ElementOfSeq DEF EmailTypeOK, Pass
<1>5. ASSUME NEW claim \in Claim, NEW d \in Drain, Holds(d, claim)' PROVE Made(claim)'
  <2>1. CASE Holds(d, claim)
    BY <1>2, <2>1, ClaimsStayMade
  <2>2. ASSUME NEW k \in Key, Taken(k), claim = ClaimOf(k) PROVE Made(claim)'
    <3>1. claim.key = k /\ claim.round = intents[k].round /\ claim.number = intents[k].attempts + 1
      BY <2>2 DEF ClaimOf
    <3>2. intents[k].round = rounds[k] /\ rounds[k] \in Nat /\ intents[k].attempts \in Nat
      BY <2>2, EmailAssumption
         DEF Taken, Live, RowsAreLatest, EmailTypeOK, EmailAssumption, Row
    <3> QED BY <2>2, <3>1, <3>2 DEF Made, Taken, Kept
  <2> QED BY <1>5, <2>1, <2>2, HeldClaims
<1>6. ASSUME NEW d \in Drain, NEW n \in DOMAIN drain'[d].claims
      PROVE  LET claim == drain'[d].claims[n]
                 row == intents'[claim.key]
             IN /\ claim.round <= rounds'[claim.key]
                /\ row # None /\ row.round = claim.round => claim.number <= row.attempts
  <2>1. PICK claim \in Claim : claim = drain'[d].claims[n]
    BY <1>4
  <2>2. Holds(d, claim)'
    BY <2>1 DEF Holds
  <2> QED BY <1>5, <2>1, <2>2 DEF Made
<1>7. \A d \in Drain : PassMoved(d) \/ drain'[d] = drain[d] => InOrder(d)'
  BY <1>1 DEF PassMoved, Answers, GoesOn, Restarts, Begins
<1>8. \A d \in Drain : InOrder(d)'
  BY <1>7, DrainMoves
<1>9. ASSUME NEW d \in Drain, NEW e \in Drain, drain'[d] = drain[d], drain'[e] = drain[e]
      PROVE  Apart(d, e)'
  BY <1>1, <1>9
<1>10. ASSUME NEW d \in Drain, NEW k \in Key, Taken(k) PROVE ~Holds(d, ClaimOf(k))
  <2>1. intents[k] # None /\ intents[k].attempts \in Nat
    BY <1>10 DEF Taken, Live, EmailTypeOK, Row
  <2>2. ~Made(ClaimOf(k))
    BY <2>1 DEF Made, ClaimOf
  <2> QED BY <1>2, <2>2
<1>11. ASSUME NEW d \in Drain, PassMoved(d), NEW e \in Drain, e # d, drain'[e] = drain[e]
       PROVE  Apart(d, e)' /\ Apart(e, d)'
  <2>1. ASSUME NEW m \in DOMAIN drain'[d].claims, NEW n \in DOMAIN drain'[e].claims
        PROVE  drain'[d].claims[m] # drain'[e].claims[n]
    <3>1. CASE Answers(d) \/ GoesOn(d) \/ Restarts(d)
      BY <1>1, <1>11, <2>1, <3>1 DEF Answers, GoesOn, Restarts
    <3>2. CASE Begins(d)
      <4>1. PICK k \in Key : Taken(k) /\ drain'[d].claims[m] = ClaimOf(k)
        BY <2>1, <3>2 DEF Begins
      <4> QED BY <1>10, <1>11, <2>1, <4>1 DEF Holds
    <3> QED BY <1>11, <3>1, <3>2 DEF PassMoved
  <2> QED BY <2>1
<1>12. ASSUME NEW d \in Drain, PassMoved(d) PROVE Apart(d, d)'
  <2>1. ASSUME NEW m \in DOMAIN drain'[d].claims, NEW n \in DOMAIN drain'[d].claims,
               drain'[d].claims[m] = drain'[d].claims[n]
        PROVE  m = n
    BY <1>1, <1>12, <2>1 DEF PassMoved, Answers, GoesOn, Restarts, Begins
  <2> QED BY <2>1
<1>13. \A d, e \in Drain : Apart(d, e)'
  BY <1>9, <1>11, <1>12, DrainMoves
<1> QED BY <1>6, <1>8, <1>13 DEF ClaimsAreOwn

-----------------------------------------------------------------------------
(* Messages that go out.                                                   *)

\* What may still be mailed could be mailed before, or was claimed just now.
LEMMA MailingGrows ==
    ASSUME EmailTypeOK, CallersLock, ClaimsAreOwn, [EmailNext]_vars, NEW i \in Items,
           NEW x \in Mailing(i)'
    PROVE  \/ x \in Mailing(i)
           \/ /\ Taken(i[1]) /\ intents[i[1]].round = i[2]
              /\ x = intents[i[1]].attempts + 1
<1>1. PICK d \in Drain : \E n \in DOMAIN drain'[d].claims :
        CanMail(d, n, i)' /\ drain'[d].claims[n].number = x
  BY DEF Mailing
<1>2. PICK n \in DOMAIN drain'[d].claims : CanMail(d, n, i)' /\ drain'[d].claims[n].number = x
  BY <1>1
<1>3. x \in Nat
  BY DEF Mailing
<1>4. CASE drain'[d] = drain[d] \/ Answers(d)
  <2>1. n \in DOMAIN drain[d].claims /\ CanMail(d, n, i) /\ drain[d].claims[n].number = x
    BY <1>2, <1>4 DEF CanMail, Answers
  <2> QED BY <1>3, <2>1 DEF Mailing
<1>5. CASE GoesOn(d)
  <2>1. /\ n + 1 \in DOMAIN drain[d].claims /\ CanMail(d, n + 1, i)
        /\ drain[d].claims[n + 1].number = x
    BY <1>2, <1>5 DEF CanMail, GoesOn
  <2> QED BY <1>3, <2>1 DEF Mailing
<1>6. CASE Restarts(d)
  BY <1>2, <1>6 DEF Restarts
<1>7. CASE Begins(d)
  <2>1. PICK k \in Key : Taken(k) /\ drain'[d].claims[n] = ClaimOf(k)
    BY <1>2, <1>7 DEF Begins
  <2> QED BY <1>2, <2>1 DEF CanMail, ClaimOf
<1> QED BY <1>4, <1>5, <1>6, <1>7, DrainMoves DEF PassMoved

\* A claim whose message was told to be sent, or whose outcome was recorded,
\* cannot mail again.
LEMMA MailingDrops ==
    ASSUME EmailTypeOK, EmailTypeOK', ClaimsAreOwn, NEW d \in Drain, NEW claim \in Claim,
           drain[d].claims # <<>>, claim = Head(drain[d].claims),
           \A e \in Drain : e # d => drain'[e] = drain[e],
           \/ Answers(d) /\ drain'[d].outcome = "sent"
           \/ GoesOn(d) /\ drain[d].outcome # "sent",
           NEW i \in Items, i[1] = claim.key, i[2] = claim.round
    PROVE  claim.number \in Mailing(i) /\ claim.number \notin Mailing(i)'
<1>1. claim = drain[d].claims[1] /\ 1 \in DOMAIN drain[d].claims /\ claim.number \in Nat
  BY HeadClaim DEF EmailTypeOK, Claim
<1>2. CanMail(d, 1, i)
  BY <1>1 DEF CanMail, Answers, GoesOn
<1>3. claim.number \in Mailing(i)
  BY <1>1, <1>2 DEF Mailing
<1>4. \A e \in Drain : \A n \in DOMAIN drain[e].claims : drain[e].claims[n] = claim => e = d /\ n = 1
  BY <1>1 DEF ClaimsAreOwn
<1>5. ASSUME NEW e \in Drain, NEW n \in DOMAIN drain'[e].claims, CanMail(e, n, i)',
             drain'[e].claims[n].number = claim.number
      PROVE  FALSE
  <2>1. drain'[e].claims[n] \in Claim
    BY <1>5, LenProperties, ElementOfSeq DEF EmailTypeOK, Pass
  <2>2. drain'[e].claims[n].key = claim.key /\ drain'[e].claims[n].round = claim.round
    BY <1>5 DEF CanMail
  <2>3. drain'[e].claims[n] = claim
    BY <1>5, <2>1, <2>2 DEF Claim
  <2>4. CASE e # d
    BY <1>4, <1>5, <2>3, <2>4
  <2>5. CASE e = d /\ Answers(d) /\ drain'[d].outcome = "sent"
    BY <1>4, <1>5, <2>3, <2>5 DEF Answers, CanMail
  <2>6. CASE e = d /\ GoesOn(d)
    <3>1. n + 1 \in DOMAIN drain[d].claims /\ drain[d].claims[n + 1] = claim /\ n \in Nat \ {0}
      BY <1>5, <2>3, <2>6 DEF GoesOn
    <3> QED BY <1>4, <3>1
  <2> QED BY <2>4, <2>5, <2>6
<1> QED BY <1>3, <1>5 DEF Mailing

\* When an insertion stops having a claim at work on it.
LEMMA ShareMoves ==
    ASSUME EmailTypeOK, CallersLock, ClaimsAreOwn, RowsAreLatest, [EmailNext]_vars,
           NEW i \in Items
    PROVE  /\ Share(i) \in {0, 1} /\ Share(i)' \in {0, 1}
           /\ Taken(i[1]) /\ intents[i[1]].round = i[2] =>
                Share(i)' = 1 /\ (intents[i[1]].claim = "none" => Share(i) = 0)
           /\ \/ Share(i)' >= Share(i)
              \/ Inserted(i[1]) /\ i[2] = rounds[i[1]] + 1
              \/ \E d \in Drain :
                   /\ Recorded(i[1], d) /\ intents[i[1]].round = i[2]
                   /\ drain[d].outcome # "sent" /\ Share(i) = 1 /\ Share(i)' = 0
<1>0. PICK k \in Key : k = i[1]
  BY DEF Items
<1> SUFFICES /\ Share(i) \in {0, 1} /\ Share(i)' \in {0, 1}
             /\ Taken(k) /\ intents[k].round = i[2] =>
                  Share(i)' = 1 /\ (intents[k].claim = "none" => Share(i) = 0)
             /\ \/ Share(i)' >= Share(i)
                \/ Inserted(k) /\ i[2] = rounds[k] + 1
                \/ \E d \in Drain :
                     /\ Recorded(k, d) /\ intents[k].round = i[2]
                     /\ drain[d].outcome # "sent" /\ Share(i) = 1 /\ Share(i)' = 0
  BY <1>0
<1>1. k \in Key /\ None \notin Row /\ intents[k] \in Row \cup {None}
  BY EmailAssumption DEF EmailTypeOK, EmailAssumption
<1>2. Moved(k) /\ (Terminal(intents[k]) => intents[k].claim = "none")
  BY <1>1, RowMoves DEF RowsAreLatest
<1>3. /\ Share(i) = IF Waiting(intents[k]) /\ intents[k].round = i[2] THEN 0 ELSE 1
      /\ Share(i)' = IF Waiting(intents'[k]) /\ intents'[k].round = i[2] THEN 0 ELSE 1
  BY <1>0 DEF Share
<1>4. CASE Still(k)
  BY <1>3, <1>4 DEF Still, Taken
<1>5. CASE Taken(k)
  <2>1. ~Waiting(intents'[k]) /\ (intents[k].claim = "none" => Waiting(intents[k]))
    BY <1>1, <1>5 DEF Taken, Waiting, Live
  <2> QED BY <1>3, <2>1
<1>6. ASSUME NEW d \in Drain, Recorded(k, d)
      PROVE  /\ Share(i) = 1 /\ ~Taken(k)
             /\ Share(i)' = 0 => drain[d].outcome # "sent" /\ intents[k].round = i[2]
  <2>1. ~Waiting(intents[k]) /\ ~Taken(k)
    BY <1>1, <1>6, RecordedRow DEF Waiting, Taken
  <2>2. Waiting(intents'[k]) => drain[d].outcome # "sent"
    BY <1>1, <1>6, RecordedRow DEF Waiting
  <2>3. intents'[k].round = intents[k].round
    BY <1>1, <1>6, RecordedRow
  <2> QED BY <1>3, <2>1, <2>2, <2>3
<1>7. CASE Inserted(k)
  <2>1. ~Waiting(intents[k]) /\ ~Taken(k)
    BY <1>7 DEF Inserted, Waiting, Taken, Live
  <2>2. intents'[k].round = rounds[k] + 1
    BY <1>7 DEF Inserted
  <2> QED BY <1>3, <1>7, <2>1, <2>2
<1>8. CASE Waited(k)
  <2>1. (Waiting(intents'[k]) <=> Waiting(intents[k])) /\ intents'[k].round = intents[k].round
    BY <1>1, <1>8 DEF Waited, Waiting
  <2>2. ~Taken(k)
    BY <1>1, <1>8 DEF Waited, Taken, Row
  <2> QED BY <1>3, <2>1, <2>2
<1>9. CASE Retried(k)
  <2>1. (Waiting(intents'[k]) <=> Waiting(intents[k])) /\ intents'[k].round = intents[k].round
    BY <1>1, <1>9 DEF Retried, Waiting
  <2>2. ~Taken(k)
    BY <1>1, <1>9 DEF Retried, Taken, Live
  <2> QED BY <1>3, <2>1, <2>2
<1>10. CASE Pruned(k)
  <2>1. ~Waiting(intents'[k]) /\ ~Taken(k)
    BY <1>1, <1>10 DEF Pruned, Waiting, Taken
  <2> QED BY <1>3, <2>1
<1> QED BY <1>2, <1>3, <1>4, <1>5, <1>6, <1>7, <1>8, <1>9, <1>10 DEF Moved

\* What goes out beyond the first message is excused, by step.
LEMMA MailStep ==
    ASSUME EmailTypeOK, EmailTypeOK', CallersLock, ClaimsAreOwn, RowsAreLatest, MailIsExcused,
           [EmailNext]_vars
    PROVE  MailIsExcused'
<1> DEFINE Excused(i) ==
        /\ IsFiniteSet(Mailing(i))
        /\ mailed[i] + Cardinality(Mailing(i)) <= excused[i] + Share(i)
        /\ i[2] > rounds[i[1]] => mailed[i] = 0
<1> SUFFICES ASSUME NEW i \in Items PROVE Excused(i)'
  BY DEF MailIsExcused
<1>0. PICK k \in Key : k = i[1]
  BY DEF Items
<1>1. /\ IsFiniteSet(Mailing(i)) /\ Cardinality(Mailing(i)) \in Nat
      /\ mailed[i] + Cardinality(Mailing(i)) <= excused[i] + Share(i)
      /\ i[2] > rounds[k] => mailed[i] = 0
  BY <1>0, FS_CardinalityType DEF MailIsExcused
<1>2. /\ mailed[i] \in Nat /\ mailed'[i] \in Nat /\ excused[i] \in Nat /\ excused'[i] \in Nat
      /\ Share(i) \in {0, 1} /\ Share(i)' \in {0, 1} /\ i[2] \in Nat
      /\ rounds[k] \in Nat /\ rounds'[k] \in Nat
  BY ShareMoves, EmailAssumption DEF EmailTypeOK, EmailAssumption, Items
<1>3. ASSUME Mailing(i)' \subseteq Mailing(i)
      PROVE  /\ IsFiniteSet(Mailing(i)') /\ Cardinality(Mailing(i)') \in Nat
             /\ Cardinality(Mailing(i)') <= Cardinality(Mailing(i))
             /\ \A x \in Mailing(i) : x \notin Mailing(i)' =>
                  Cardinality(Mailing(i)') <= Cardinality(Mailing(i)) - 1
  <2>1. IsFiniteSet(Mailing(i)') /\ Cardinality(Mailing(i)') \in Nat
        /\ Cardinality(Mailing(i)') <= Cardinality(Mailing(i))
    BY <1>1, <1>3, FS_Subset, FS_CardinalityType
  <2>2. ASSUME NEW x \in Mailing(i), x \notin Mailing(i)'
        PROVE  Cardinality(Mailing(i)') <= Cardinality(Mailing(i)) - 1
    <3>1. Cardinality(Mailing(i)') # Cardinality(Mailing(i))
      BY <1>1, <1>3, <2>2, FS_Subset
    <3> QED BY <1>1, <2>1, <3>1
  <2> QED BY <2>1, <2>2
<1>4. ASSUME ~Taken(k) PROVE Mailing(i)' \subseteq Mailing(i)
  BY <1>0, <1>4, MailingGrows
<1>5. ASSUME mailed'[i] = mailed[i], excused'[i] >= excused[i], Mailing(i)' \subseteq Mailing(i),
             Share(i)' >= Share(i), rounds'[k] >= rounds[k]
      PROVE  Excused(i)'
  BY <1>0, <1>1, <1>2, <1>3, <1>5
<1>6. ASSUME UNCHANGED <<intents, rounds, mailed, excused>> PROVE Excused(i)'
  <2>1. ~Taken(k) /\ Share(i)' = Share(i)
    BY <1>6 DEF Taken, Share
  <2> QED BY <1>2, <1>4, <1>5, <1>6, <2>1
<1>7. ASSUME NEW d \in Drain, Send(d) PROVE Excused(i)'
  <2>1. PICK claim \in Claim : claim = Head(drain[d].claims)
    BY <1>7, HeadClaim DEF Send, ClaimsAreOwn, EmailTypeOK
  <2>2. /\ drain[d].claims # <<>> /\ drain[d].pc = "process"
        /\ UNCHANGED <<intents, rounds>>
    BY <1>7 DEF Send, ClaimsAreOwn, DrainVars
  <2> DEFINE j == <<claim.key, claim.round>>
  <2>3. j \in Items
    BY <2>1 DEF Items, Claim
  <2>4. ~Taken(k) /\ Share(i)' = Share(i)
    BY <2>2 DEF Taken, Share
  <2>5. Mailing(i)' \subseteq Mailing(i)
    BY <1>4, <2>4
  <2>6. \/ UNCHANGED <<mailed, excused>>
        \/ /\ drain' = [drain EXCEPT ![d].pc = "record", ![d].outcome = "sent"]
           /\ mailed' = [mailed EXCEPT ![j] = @ + 1] /\ excused' = excused
        \/ mailed' = [mailed EXCEPT ![j] = @ + 1] /\ excused' = [excused EXCEPT ![j] = @ + 1]
    BY <1>7, <2>1 DEF Send
  <2>7. CASE i # j
    <3>1. mailed'[i] = mailed[i] /\ excused'[i] = excused[i]
      BY <2>3, <2>6, <2>7 DEF EmailTypeOK
    <3> QED BY <1>2, <1>5, <2>2, <2>4, <2>5, <3>1
  <2>8. CASE i = j
    <3>1. ~(i[2] > rounds'[k])
      <4>1. Head(drain[d].claims) = drain[d].claims[1] /\ 1 \in DOMAIN drain[d].claims
        BY <2>2, HeadClaim DEF EmailTypeOK
      <4>2. claim.round <= rounds[claim.key]
        BY <2>1, <4>1 DEF ClaimsAreOwn
      <4>3. i[2] = claim.round /\ k = claim.key
        BY <1>0, <2>8
      <4> QED BY <1>2, <2>2, <4>2, <4>3
    <3>2. CASE UNCHANGED <<mailed, excused>>
      BY <1>2, <1>5, <2>2, <2>4, <2>5, <3>2
    <3>3. CASE /\ drain' = [drain EXCEPT ![d].pc = "record", ![d].outcome = "sent"]
               /\ mailed' = [mailed EXCEPT ![j] = @ + 1] /\ excused' = excused
      <4>1. /\ \A e \in Drain : e # d => drain'[e] = drain[e]
            /\ Answers(d) /\ drain'[d].outcome = "sent"
        BY <2>2, <3>3, Answered DEF Answers, EmailTypeOK, Outcomes
      <4>2. claim.number \in Mailing(i) /\ claim.number \notin Mailing(i)'
        BY <2>1, <2>2, <2>8, <4>1, MailingDrops
      <4>3. Cardinality(Mailing(i)') <= Cardinality(Mailing(i)) - 1
        BY <1>3, <2>5, <4>2
      <4>4. mailed'[i] = mailed[i] + 1 /\ excused'[i] = excused[i]
        BY <2>3, <2>8, <3>3 DEF EmailTypeOK
      <4> QED BY <1>0, <1>1, <1>2, <1>3, <2>4, <2>5, <3>1, <4>3, <4>4
    <3>4. CASE mailed' = [mailed EXCEPT ![j] = @ + 1] /\ excused' = [excused EXCEPT ![j] = @ + 1]
      <4>1. mailed'[i] = mailed[i] + 1 /\ excused'[i] = excused[i] + 1
        BY <2>3, <2>8, <3>4 DEF EmailTypeOK
      <4> QED BY <1>0, <1>1, <1>2, <1>3, <2>4, <2>5, <3>1, <4>1
    <3> QED BY <2>6, <3>2, <3>3, <3>4
  <2> QED BY <2>7, <2>8
<1>8. ASSUME NEW d \in Drain, RecordAttemptOutcome(d) PROVE Excused(i)'
  <2>1. PICK claim \in Claim : claim = Head(drain[d].claims)
    BY <1>8, HeadClaim DEF RecordAttemptOutcome, ClaimsAreOwn, EmailTypeOK
  <2>2. /\ drain[d].claims # <<>> /\ drain[d].pc = "record"
        /\ UNCHANGED <<rounds, mailed, excused>>
    BY <1>8 DEF RecordAttemptOutcome, ClaimsAreOwn, DrainVars
  <2>3. GoesOn(d) /\ \A e \in Drain : e # d => drain'[e] = drain[e]
    BY <1>8, <2>2, PassedOn DEF RecordAttemptOutcome, GoesOn, EmailTypeOK
  <2>4. ~Taken(k)
    BY <2>2, <2>3 DEF Taken, GoesOn
  <2>5. Mailing(i)' \subseteq Mailing(i)
    BY <1>4, <2>4
  <2>6. ~Inserted(k)
    BY <1>2, <2>2 DEF Inserted
  <2>7. CASE Share(i)' >= Share(i)
    BY <1>2, <1>5, <2>2, <2>5, <2>7
  <2>8. CASE ~(Share(i)' >= Share(i))
    <3>1. PICK e \in Drain : /\ Recorded(k, e) /\ intents[k].round = i[2]
                             /\ drain[e].outcome # "sent" /\ Share(i) = 1 /\ Share(i)' = 0
      BY <1>0, <2>6, <2>8, ShareMoves
    <3>2. e = d
      BY <2>3, <3>1 DEF Recorded
    <3>3. i[1] = claim.key /\ i[2] = claim.round /\ drain[d].outcome # "sent"
      BY <1>0, <2>1, <3>1, <3>2 DEF Recorded, HoldsToken
    <3>4. claim.number \in Mailing(i) /\ claim.number \notin Mailing(i)'
      BY <2>1, <2>2, <2>3, <3>3, MailingDrops
    <3>5. Cardinality(Mailing(i)') <= Cardinality(Mailing(i)) - 1
      BY <1>3, <2>5, <3>4
    <3>6. mailed'[i] = mailed[i] /\ excused'[i] = excused[i] /\ rounds'[k] = rounds[k]
      BY <2>2
    <3> QED BY <1>0, <1>1, <1>2, <1>3, <2>5, <3>1, <3>5, <3>6
  <2> QED BY <2>7, <2>8
<1>9. ASSUME NEW d \in Drain, ClaimDueBatch(d) PROVE Excused(i)'
  <2>1. PICK b \in Batches :
         /\ b # {}
         /\ excused' = [h \in Items |->
              IF /\ h[1] \in b /\ h[2] = intents[h[1]].round /\ intents[h[1]].claim = "lapsed"
                THEN excused[h] + 1 ELSE excused[h]]
         /\ intents' = [h \in Key |-> IF h \in b THEN Claimed(intents[h]) ELSE intents[h]]
         /\ \E order \in SetToSeqs(b) : HoldsBatch(d, order)
    BY <1>9 DEF ClaimDueBatch, HoldsBatch
  <2>2. UNCHANGED <<rounds, mailed>> /\ drain[d].pc = "idle"
    BY <1>9 DEF ClaimDueBatch, DrainVars
  <2>3. drain'[d].pc = "process" /\ \A e \in Drain : e # d => drain'[e] = drain[e]
    BY <2>1, EmailAssumption, Batched
  <2>4. ~Inserted(k) /\ \A e \in Drain : ~Recorded(k, e)
    BY <1>2, <2>2, <2>3 DEF Inserted, Recorded
  <2>5. Share(i)' >= Share(i)
    BY <1>0, <2>4, ShareMoves
  <2>6. excused'[i] >= excused[i]
    BY <1>2, <2>1
  <2>7. CASE ~(Taken(k) /\ intents[k].round = i[2])
    <3>1. Mailing(i)' \subseteq Mailing(i)
      BY <1>0, <2>7, MailingGrows
    <3> QED BY <1>2, <1>5, <2>2, <2>5, <2>6, <3>1
  <2>8. CASE Taken(k) /\ intents[k].round = i[2]
    <3> DEFINE x == intents[k].attempts + 1
    <3>1. PICK y : y = x
      OBVIOUS
    <3>2. Mailing(i)' \subseteq Mailing(i) \cup {y}
      BY <1>0, <3>1, MailingGrows
    <3>3. IsFiniteSet(Mailing(i) \cup {y}) /\
          Cardinality(Mailing(i) \cup {y}) =
            IF y \in Mailing(i) THEN Cardinality(Mailing(i)) ELSE Cardinality(Mailing(i)) + 1
      BY <1>1, FS_AddElement
    <3>4. /\ IsFiniteSet(Mailing(i)') /\ Cardinality(Mailing(i)') \in Nat
          /\ Cardinality(Mailing(i)') <= Cardinality(Mailing(i) \cup {y})
      BY <3>2, <3>3, FS_Subset, FS_CardinalityType
    <3>5. Cardinality(Mailing(i)') <= Cardinality(Mailing(i)) + 1
      BY <1>1, <3>3, <3>4
    <3>6. Share(i)' = 1 /\ (intents[k].claim = "none" => Share(i) = 0)
      BY <1>0, <2>8, ShareMoves
    <3>7. k \in b /\ intents[k].claim \in {"none", "lapsed"}
      <4>1. intents[k] \in Row /\ intents[k].claim # "held" /\ intents'[k].claim = "held"
        BY <2>8 DEF Taken, Live, EmailTypeOK
      <4> QED BY <2>1, <4>1 DEF Row
    <3>8. intents[k].claim = "lapsed" => excused'[i] = excused[i] + 1
      BY <1>0, <2>1, <2>8, <3>7
    <3>9. mailed'[i] = mailed[i] /\ rounds'[k] = rounds[k]
      BY <2>2
    <3> QED BY <1>0, <1>1, <1>2, <2>6, <3>4, <3>5, <3>6, <3>7, <3>8, <3>9
  <2> QED BY <2>7, <2>8
<1>10. ASSUME drain' = drain, UNCHANGED <<mailed, excused>> PROVE Excused(i)'
  <2>1. ~Taken(k) /\ \A e \in Drain : ~Recorded(k, e)
    BY <1>10 DEF Taken, Recorded
  <2>2. rounds'[k] >= rounds[k]
    <3>1. Moved(k)
      BY RowMoves
    <3> QED BY <1>2, <2>1, <3>1 DEF Moved, Still, Kept, Inserted, Waited, Retried, Pruned
  <2>3. Mailing(i)' \subseteq Mailing(i)
    BY <1>4, <2>1
  <2>4. CASE Share(i)' >= Share(i)
    BY <1>5, <1>10, <1>2, <2>2, <2>3, <2>4
  <2>5. CASE ~(Share(i)' >= Share(i))
    <3>1. Inserted(k) /\ i[2] = rounds[k] + 1
      BY <1>0, <2>1, <2>5, ShareMoves
    <3>2. Mailing(i) = {}
      <4>1. \A e \in Drain : \A n \in DOMAIN drain[e].claims : ~CanMail(e, n, i)
        <5> SUFFICES ASSUME NEW e \in Drain, NEW n \in DOMAIN drain[e].claims,
                            drain[e].claims[n].key = k,
                            drain[e].claims[n].round = i[2]
                     PROVE  FALSE
          BY <1>0 DEF CanMail
        <5>1. i[2] <= rounds[k]
          BY DEF ClaimsAreOwn
        <5> QED BY <1>2, <3>1, <5>1
      <4> QED BY <4>1 DEF Mailing
    <3>3. Mailing(i)' = {} /\ Cardinality(Mailing(i)') = 0 /\ IsFiniteSet(Mailing(i)')
      BY <2>3, <3>2, FS_EmptySet
    <3>4. mailed[i] = 0 /\ mailed'[i] = 0
      BY <1>1, <1>2, <1>10, <3>1
    <3> QED BY <1>2, <3>3, <3>4
  <2> QED BY <2>4, <2>5
<1>11. ASSUME NEW c \in Caller,
              \/ \E h \in Key : EnqueueFastPath(c, h)
              \/ EnqueueLock(c) \/ EnqueueCount(c) \/ EnqueueInsert(c)
       PROVE  Excused(i)'
  BY <1>10, <1>11 DEF EnqueueFastPath, EnqueueLock, EnqueueCount, EnqueueInsert, CallerVars
<1>12. ASSUME NEW h \in Key, Passes(h) \/ RequeueTerminalIntent(h) \/ PruneHistory(h)
       PROVE  Excused(i)'
  BY <1>10, <1>12 DEF Passes, RequeueTerminalIntent, PruneHistory, RowVars
<1>13. ASSUME NEW d \in Drain, RenderFails(d) \/ RecordThrows(d) \/ Crash(d)
       PROVE  Excused(i)'
  BY <1>6, <1>13 DEF RenderFails, RecordThrows, Crash, DrainVars
<1>14. CASE UNCHANGED vars
  BY <1>6, <1>14 DEF vars
<1> QED BY <1>7, <1>8, <1>9, <1>11, <1>12, <1>13, <1>14 DEF EmailNext

\* A message about to be recorded as sent stays mailed.
LEMMA SentStep ==
    ASSUME EmailTypeOK, CallersLock, ClaimsAreOwn, SentWasMailed, [EmailNext]_vars
    PROVE  SentWasMailed'
<1> DEFINE At(d) == <<Head(drain[d].claims).key, Head(drain[d].claims).round>>
<1> SUFFICES ASSUME NEW e \in Drain, drain'[e].pc = "record", drain'[e].outcome = "sent"
             PROVE  mailed'[At(e)'] > 0
  BY DEF SentWasMailed
<1>1. \A i \in Items : mailed'[i] \in Nat /\ mailed[i] \in Nat /\ mailed'[i] >= mailed[i]
  <2>1. ASSUME NEW d \in Drain, Send(d) PROVE \A i \in Items : mailed'[i] \in Nat /\ mailed'[i] >= mailed[i]
    <3>1. UNCHANGED mailed \/ \E j : mailed' = [mailed EXCEPT ![j] = @ + 1]
      BY <2>1 DEF Send
    <3> QED BY <3>1 DEF EmailTypeOK
  <2>2. ASSUME UNCHANGED mailed PROVE \A i \in Items : mailed'[i] \in Nat /\ mailed'[i] >= mailed[i]
    BY <2>2 DEF EmailTypeOK
  <2>3. (\E d \in Drain : Send(d)) \/ UNCHANGED mailed
    BY DEF EmailNext, vars, EnqueueFastPath, EnqueueLock, EnqueueCount, EnqueueInsert, CallerVars,
           ClaimDueBatch, RenderFails, RecordAttemptOutcome, RecordThrows, Crash,
           Passes, RequeueTerminalIntent, PruneHistory, RowVars
  <2> QED BY <2>1, <2>2, <2>3 DEF EmailTypeOK
<1>2. \A d \in Drain : drain[d].claims # <<>> => At(d) \in Items
  BY HeadClaim DEF Items, Claim, EmailTypeOK
<1>3. CASE drain'[e] = drain[e]
  <2>1. drain[e].claims # <<>> /\ At(e)' = At(e)
    BY <1>3 DEF ClaimsAreOwn
  <2>2. mailed[At(e)] > 0
    BY <1>3 DEF SentWasMailed
  <2> QED BY <1>1, <1>2, <2>1, <2>2
<1>4. ASSUME drain'[e] # drain[e] PROVE \E d \in Drain : d = e /\ Answers(d)
  BY <1>4, DrainMoves DEF PassMoved, GoesOn, Restarts, Begins
<1>5. CASE Answers(e)
  <2>1. drain[e].claims # <<>> /\ At(e)' = At(e) /\ drain[e].pc = "process"
    BY <1>5 DEF ClaimsAreOwn, Answers
  <2>2. ASSUME NEW d \in Drain, Send(d), drain'[e] # drain[e] PROVE mailed'[At(e)] > 0
    <3>1. PICK o \in Outcomes : drain' = [drain EXCEPT ![d].pc = "record", ![d].outcome = o]
      BY <2>2 DEF Send, Outcomes
    <3>2. d = e /\ o = "sent"
      BY <2>2, <3>1, Answered DEF EmailTypeOK
    <3>3. mailed' = [mailed EXCEPT ![At(e)] = @ + 1]
      <4>1. \A p \in {"skipped", "fatal", "retryable"} :
              drain' # [drain EXCEPT ![d].pc = "record", ![d].outcome = p]
        BY <3>2, Answered DEF EmailTypeOK, Outcomes
      <4> QED BY <2>2, <3>2, <4>1 DEF Send
    <3> HIDE DEF At
    <3> QED BY <1>2, <2>1, <3>3 DEF EmailTypeOK
  <2>3. ASSUME NEW d \in Drain, RenderFails(d) PROVE drain'[e] = drain[e]
    <3>1. PICK o \in Outcomes : drain' = [drain EXCEPT ![d].pc = "record", ![d].outcome = o]
                                /\ o # "sent"
      BY <2>3 DEF RenderFails, Outcomes
    <3>2. drain \in [Drain -> Pass]
      BY DEF EmailTypeOK
    <3>3. /\ drain'[d].outcome = o /\ \A c \in Drain : c # d => drain'[c] = drain[c]
      BY <3>1, <3>2, Answered
    <3> QED BY <3>1, <3>3
  <2>4. ASSUME NEW d \in Drain,
               ClaimDueBatch(d) \/ RecordAttemptOutcome(d) \/ RecordThrows(d) \/ Crash(d)
        PROVE  drain'[e] = drain[e]
    <3>1. drain[d].pc # "process" \/ Crash(d)
      BY <2>4 DEF ClaimDueBatch, RecordAttemptOutcome, RecordThrows
    <3>2. CASE Crash(d)
      BY <3>2 DEF Crash, IdleDrain, EmailTypeOK
    <3>3. CASE drain[d].pc # "process"
      <4>1. d # e
        BY <2>1, <3>3
      <4>2. ASSUME ClaimDueBatch(d) PROVE drain'[e] = drain[e]
        <5>1. \E b \in Batches : b # {} /\ \E order \in SetToSeqs(b) : HoldsBatch(d, order)
          BY <4>2 DEF ClaimDueBatch, HoldsBatch
        <5> QED BY <4>1, <5>1, EmailAssumption, Batched
      <4>3. ASSUME RecordAttemptOutcome(d) \/ RecordThrows(d) PROVE drain'[e] = drain[e]
        <5>1. NextClaim(d) /\ drain[d].claims # <<>>
          BY <4>3 DEF RecordAttemptOutcome, RecordThrows, ClaimsAreOwn
        <5> QED BY <4>1, <5>1, PassedOn DEF EmailTypeOK
      <4> QED BY <2>4, <4>2, <4>3, <3>2
    <3> QED BY <3>1, <3>2, <3>3
  <2>5. (\E d \in Drain : ClaimDueBatch(d) \/ RenderFails(d) \/ Send(d) \/ RecordAttemptOutcome(d)
                          \/ RecordThrows(d) \/ Crash(d)) \/ UNCHANGED drain
    BY DEF EmailNext, vars, EnqueueFastPath, EnqueueLock, EnqueueCount, EnqueueInsert, CallerVars,
           Passes, RequeueTerminalIntent, PruneHistory, RowVars
  <2> QED BY <1>3, <2>1, <2>2, <2>3, <2>4, <2>5
<1> QED BY <1>3, <1>4, <1>5

-----------------------------------------------------------------------------
(* The theorems.                                                           *)

LEMMA EmailInitially == EmailInit => EmailInv
<1> SUFFICES ASSUME EmailInit PROVE EmailInv
  OBVIOUS
<1>1. /\ \A k \in Key : intents[k] = None /\ history[k] = {} /\ rounds[k] = 0 /\ requeues[k] = 0
      /\ \A c \in Caller : caller[c].pc = "idle"
      /\ \A i \in Items : mailed[i] = 0 /\ excused[i] = 0
  BY DEF EmailInit, IdleCaller
<1>2. \A d \in Drain : \E m \in Modes : drain[d] = IdleDrain(m)
  <2>1. \A d \in Drain : drain[d] \in {IdleDrain(m) : m \in Modes}
    BY DEF EmailInit
  <2> QED BY <2>1
<1>3. \A d \in Drain : drain[d].pc = "idle" /\ drain[d].claims = <<>>
  <2>1. \A m : IdleDrain(m).pc = "idle" /\ IdleDrain(m).claims = <<>>
    BY DEF IdleDrain
  <2> QED BY <1>2, <2>1
<1>4. \A k \in Key : ~Live(intents[k]) /\ ~Terminal(intents[k]) /\ ~Waiting(intents[k])
  BY <1>1 DEF Live, Terminal, Waiting
<1>5. EmailTypeOK
  <2>1. \A m \in Modes : IdleDrain(m) \in Pass
    BY EmptySeq DEF IdleDrain, Pass
  <2>2. drain \in [Drain -> Pass]
    BY <2>1 DEF EmailInit
  <2>3. /\ intents \in [Key -> Row \cup {None}] /\ history \in [Key -> SUBSET Attempt]
        /\ caller \in [Caller -> [pc: {"idle", "begin", "count", "insert", "done"},
                                  key: Key \cup {None}]]
        /\ lock \in [Sources -> Caller \cup {None}]
        /\ mailed \in [Items -> Nat] /\ excused \in [Items -> Nat]
        /\ marked \subseteq Items /\ faults \in Nat /\ requeues \in [Key -> Nat]
    BY DEF EmailInit, IdleCaller
  <2>4. rounds \in [Key -> 0..MaxRounds]
    BY EmailAssumption DEF EmailInit, EmailAssumption
  <2> QED BY <2>2, <2>3, <2>4 DEF EmailTypeOK
<1>6. CallersLock
  BY <1>1 DEF CallersLock
<1>7. SourceBound
  <2>1. \A s \in Sources : {k \in Key : /\ SourceOf[k] = s /\ Live(intents[k]) /\ requeues[k] = 0} = {}
    BY <1>4
  <2> QED BY <2>1, FS_EmptySet, EmailAssumption DEF SourceBound, EmailAssumption
<1>8. RowsAreLatest
  BY <1>1, <1>4 DEF RowsAreLatest
<1>9. ClaimsAreOwn
  BY <1>3 DEF ClaimsAreOwn
<1>10. HistoryAgrees
  <2>1. {a \in {} : a.outcome = "sent"} = {}
    OBVIOUS
  <2> QED BY <1>1, <1>4, <2>1, FS_EmptySet DEF HistoryAgrees
<1>11. AttemptIsOpen
  BY <1>1 DEF AttemptIsOpen
<1>12. FinalAttempts
  <2>1. \A k \in Key : Final(k) = {}
    BY <1>1 DEF Final
  <2>2. IsFiniteSet({}) /\ Cardinality({}) = 0
    BY FS_EmptySet
  <2>3. \A k \in Key : /\ IsFiniteSet(history[k]) /\ Cardinality(Final(k)) = 0
                      /\ requeues[k] + (IF Terminal(intents[k]) THEN 1 ELSE 0) = 0
    BY <1>1, <1>4, <2>1, <2>2
  <2> QED BY <2>3 DEF FinalAttempts
<1>13. MailIsExcused
  <2>1. \A i \in Items : Mailing(i) = {} /\ Share(i) = 1
    BY <1>3, <1>4 DEF Mailing, Share, Items
  <2> QED BY <1>1, <2>1, FS_EmptySet DEF MailIsExcused
<1>14. SentWasMailed
  BY <1>3 DEF SentWasMailed
<1> QED BY <1>5, <1>6, <1>7, <1>8, <1>9, <1>10, <1>11, <1>12, <1>13, <1>14 DEF EmailInv

LEMMA EmailInvariant == EmailSpec => []EmailInv
<1>1. EmailInv /\ [EmailNext]_vars => EmailInv'
  <2> SUFFICES ASSUME EmailInv, [EmailNext]_vars PROVE EmailInv'
    OBVIOUS
  <2>1. EmailTypeOK'
    BY EmailTypeStep DEF EmailInv
  <2> QED BY <2>1, CallersStep, RowsStep, ClaimsStep, HistoryStep, AttemptIsOpenStep,
             FinalAttemptsStep, MailStep, SentStep DEF EmailInv
<1> QED BY <1>1, EmailInitially, PTL DEF EmailSpec

\* Every reachable state of the outbox is well typed.
THEOREM EmailTypeCorrect == EmailSpec => []EmailTypeOK
<1>1. EmailInv => EmailTypeOK
  BY DEF EmailInv
<1> QED BY <1>1, EmailInvariant, PTL

\* However many callers enqueue at once, a source stays within its limit but
\* for the intents an operator brought back.
THEOREM SourceBoundAlways == EmailSpec => []SourceBound
<1>1. EmailInv => SourceBound
  BY DEF EmailInv
<1> QED BY <1>1, EmailInvariant, PTL

\* However claims lapse, answers are lost and workers die, what is recorded of
\* an intent agrees with its state, stops at the limit, and a message goes out
\* again only after a takeover or a lost answer.
THEOREM AttemptsAreKeptAlways == EmailSpec => []AttemptsAreKept
<1>1. EmailInv => AttemptsAreKept
  <2> SUFFICES ASSUME EmailInv PROVE AttemptsAreKept
    OBVIOUS
  <2>1. HistoryAgrees /\ RecordedAttemptsBounded
    BY EmailAssumption, AttemptsStop DEF EmailInv
  <2>2. DuplicatesAreExcused
    <3> SUFFICES ASSUME NEW i \in Items PROVE mailed[i] <= 1 + excused[i]
      BY DEF DuplicatesAreExcused
    <3>1. /\ IsFiniteSet(Mailing(i)) /\ mailed[i] \in Nat /\ excused[i] \in Nat
          /\ mailed[i] + Cardinality(Mailing(i)) <= excused[i] + Share(i)
      BY DEF EmailInv, MailIsExcused, EmailTypeOK
    <3>2. Cardinality(Mailing(i)) \in Nat /\ Share(i) \in {0, 1}
      BY <3>1, FS_CardinalityType DEF Share
    <3> QED BY <3>1, <3>2
  <2> QED BY <2>1, <2>2 DEF AttemptsAreKept
<1> QED BY <1>1, EmailInvariant, PTL

\* Every step of the outbox is a step of ReliableOutbox or a stuttering one.
LEMMA EmailLedgerStep ==
    ASSUME EmailInv, [EmailNext]_vars
    PROVE  [Ledger!Next]_Ledger!ovars
<1> DEFINE emitted == {i \in Items : i[2] <= rounds[i[1]]}
           applied == {i \in Items : mailed[i] > 0}
<1>1. EmailTypeOK /\ CallersLock /\ ClaimsAreOwn /\ SentWasMailed
  BY DEF EmailInv
<1>2. ASSUME UNCHANGED <<rounds, mailed, marked>> PROVE UNCHANGED Ledger!ovars
  BY <1>2 DEF Ledger!ovars
<1>3. ASSUME NEW c \in Caller, EnqueueInsert(c) PROVE [Ledger!Next]_Ledger!ovars
  <2>1. PICK k \in Key : k = caller[c].key
    BY <1>1, <1>3 DEF EnqueueInsert, CallersLock
  <2>2. UNCHANGED <<mailed, marked>>
    BY <1>3 DEF EnqueueInsert, CallerVars
  <2>3. CASE intents[k] # None
    BY <1>2, <1>3, <2>1, <2>2, <2>3 DEF EnqueueInsert
  <2>4. CASE intents[k] = None
    <3>1. rounds' = [rounds EXCEPT ![k] = @ + 1] /\ rounds[k] < MaxRounds
      BY <1>3, <2>1, <2>4 DEF EnqueueInsert
    <3>2. \A j \in Key : rounds[j] \in 0 .. MaxRounds
      BY <1>1 DEF EmailTypeOK
    <3>3. MaxRounds \in Nat /\ rounds[k] + 1 \in 1 .. MaxRounds
      BY <3>1, <3>2, EmailAssumption DEF EmailAssumption
    <3>4. PICK i \in Items : i = <<k, rounds[k] + 1>>
      BY <3>3 DEF Items
    <3>5. \A j \in Items : j[2] <= rounds'[j[1]] <=> j[2] <= rounds[j[1]] \/ j = i
      <4> SUFFICES ASSUME NEW j \in Key, NEW r \in 1 .. MaxRounds
                   PROVE  r <= rounds'[j] <=> r <= rounds[j] \/ <<j, r>> = i
        BY DEF Items
      <4>1. rounds'[j] = IF j = k THEN rounds[k] + 1 ELSE rounds[j]
        BY <1>1, <3>1 DEF EmailTypeOK
      <4> QED BY <3>2, <3>3, <3>4, <4>1
    <3>6. emitted' = emitted \cup {i} /\ i \notin emitted
      BY <3>2, <3>3, <3>4, <3>5
    <3>7. Ledger!Emit(i)
      BY <2>2, <3>6 DEF Ledger!Emit
    <3> QED BY <3>7 DEF Ledger!Next
  <2> QED BY <2>3, <2>4
<1>4. ASSUME NEW d \in Drain, drain[d].claims # <<>>
      PROVE  \E i \in Items : /\ i = <<Head(drain[d].claims).key, Head(drain[d].claims).round>>
                              /\ i \in emitted
  <2>1. /\ Head(drain[d].claims) \in Claim /\ Head(drain[d].claims) = drain[d].claims[1]
        /\ 1 \in DOMAIN drain[d].claims
    BY <1>1, <1>4, HeadClaim DEF EmailTypeOK
  <2>2. Head(drain[d].claims).round <= rounds[Head(drain[d].claims).key]
    BY <1>1, <2>1 DEF ClaimsAreOwn
  <2>3. Head(drain[d].claims).key \in Key /\ Head(drain[d].claims).round \in 1 .. MaxRounds
    BY <2>1 DEF Claim
  <2>4. PICK i \in Items : i = <<Head(drain[d].claims).key, Head(drain[d].claims).round>>
    BY <2>3 DEF Items
  <2>5. i[1] = Head(drain[d].claims).key /\ i[2] = Head(drain[d].claims).round
    BY <2>4
  <2> QED BY <2>2, <2>4, <2>5
<1>5. ASSUME NEW d \in Drain, Send(d) PROVE [Ledger!Next]_Ledger!ovars
  <2>1. drain[d].claims # <<>> /\ UNCHANGED <<rounds, marked>>
    BY <1>1, <1>5 DEF Send, DrainVars, ClaimsAreOwn
  <2>2. PICK i \in Items : /\ i = <<Head(drain[d].claims).key, Head(drain[d].claims).round>>
                           /\ i \in emitted
    BY <1>4, <2>1
  <2>3. UNCHANGED mailed \/ mailed' = [mailed EXCEPT ![i] = @ + 1]
    BY <1>5, <2>2 DEF Send
  <2>4. CASE UNCHANGED mailed
    BY <1>2, <2>1, <2>4
  <2>5. CASE mailed' = [mailed EXCEPT ![i] = @ + 1]
    <3>1. \A j \in Items : mailed[j] \in Nat /\ mailed'[j] = IF j = i THEN mailed[i] + 1 ELSE mailed[j]
      BY <1>1, <2>5 DEF EmailTypeOK
    <3>2. applied' = applied \cup {i}
      BY <3>1
    <3>3. Ledger!Apply(i)
      BY <2>1, <2>2, <3>2 DEF Ledger!Apply
    <3> QED BY <3>3 DEF Ledger!Next
  <2> QED BY <2>3, <2>4, <2>5
<1>6. ASSUME NEW d \in Drain, RecordAttemptOutcome(d) PROVE [Ledger!Next]_Ledger!ovars
  <2>1. drain[d].claims # <<>> /\ drain[d].pc = "record" /\ UNCHANGED <<rounds, mailed>>
    BY <1>1, <1>6 DEF RecordAttemptOutcome, DrainVars, ClaimsAreOwn
  <2>2. PICK i \in Items : i = <<Head(drain[d].claims).key, Head(drain[d].claims).round>>
    BY <1>4, <2>1
  <2>3. UNCHANGED marked \/ (drain[d].outcome = "sent" /\ marked' = marked \cup {i})
    BY <1>6, <2>2 DEF RecordAttemptOutcome
  <2>4. CASE UNCHANGED marked
    BY <1>2, <2>1, <2>4
  <2>5. CASE drain[d].outcome = "sent" /\ marked' = marked \cup {i}
    <3>1. i \in applied
      BY <1>1, <2>1, <2>2, <2>5 DEF SentWasMailed
    <3>2. Ledger!Acknowledge(i)
      BY <2>1, <2>5, <3>1 DEF Ledger!Acknowledge
    <3> QED BY <3>2 DEF Ledger!Next
  <2> QED BY <2>3, <2>4, <2>5
<1>7. \/ UNCHANGED <<rounds, mailed, marked>>
      \/ \E c \in Caller : EnqueueInsert(c)
      \/ \E d \in Drain : Send(d) \/ RecordAttemptOutcome(d)
  BY DEF EmailNext, vars, EnqueueFastPath, EnqueueLock, EnqueueCount, CallerVars,
         ClaimDueBatch, RenderFails, RecordThrows, Crash, DrainVars,
         Passes, RequeueTerminalIntent, PruneHistory, RowVars
<1> QED BY <1>2, <1>3, <1>5, <1>6, <1>7

\* The email outbox implements ReliableOutbox: an intent is committed before it
\* is mailed, and is marked sent only after the provider took it.
THEOREM OutboxIsReliableAlways == EmailSpec => OutboxIsReliable
<1>1. EmailInit => Ledger!Init
  <2> SUFFICES ASSUME EmailInit PROVE Ledger!Init
    OBVIOUS
  <2>1. \A i \in Items : i[2] \in 1 .. MaxRounds /\ rounds[i[1]] = 0 /\ mailed[i] = 0
    BY DEF EmailInit, Items
  <2>2. \A i \in Items : ~(i[2] <= rounds[i[1]]) /\ ~(mailed[i] > 0)
    BY <2>1, EmailAssumption DEF EmailAssumption
  <2> QED BY <2>2 DEF EmailInit, Ledger!Init
<1>2. EmailInv /\ [EmailNext]_vars => [Ledger!Next]_Ledger!ovars
  BY EmailLedgerStep
<1> QED BY <1>1, <1>2, EmailInvariant, PTL DEF EmailSpec, OutboxIsReliable, Ledger!Spec
=============================================================================

------------------------ MODULE PackPublication_proofs ------------------------
(***************************************************************************)
(* Theorems about PackPublication, for every set of titles, every bound    *)
(* and every choice of what may be refused, lapse or be deferred to.       *)
(***************************************************************************)
EXTENDS PackPublication, SequenceTheorems, FiniteSetTheorems, TLAPS

-----------------------------------------------------------------------------
(* What the public head's history says.                                    *)

Sealed(s) == intents[s] # NoIntent

\* The head's successive values: nothing goes backwards, a hold opens an epoch
\* and is lifted once, and in an epoch that is not held a new generation comes
\* with a new sequence.
HeadsMove ==
  /\ \A i, j \in DOMAIN heads : i <= j =>
       /\ heads[i].generation <= heads[j].generation /\ heads[i].epoch <= heads[j].epoch
       /\ heads[i].sequence <= heads[j].sequence
       /\ heads[i].epoch = heads[j].epoch /\ heads[j].held => heads[i].held
  /\ \A j \in DOMAIN heads : heads[j].held => heads[j].epoch > 0
  /\ \A i, j \in DOMAIN heads :
       heads[i].epoch = heads[j].epoch /\ ~heads[i].held /\ heads[i].generation < heads[j].generation
         => heads[i].sequence < heads[j].sequence

\* A head is of an intent whose activation was accepted, and in the intent's own
\* epoch it shows what the intent asked for.
HeadsOfIntents ==
  /\ \A j \in DOMAIN heads : heads[j].sequence \in Applied
  /\ \A j \in DOMAIN heads : heads[j].epoch = intents[heads[j].sequence].expected.epoch =>
       heads[j].active = intents[heads[j].sequence].snap /\ ~heads[j].held
  /\ \A i, j \in DOMAIN heads :
       heads[i].epoch = heads[j].epoch /\ ~heads[i].held /\ heads[i].sequence < heads[j].sequence
         => intents[heads[j].sequence].expected.epoch = heads[j].epoch

\* The mirror is the initial state, or one of the heads.
Mirrored ==
  \/ mirror.epoch = 0 /\ mirror.generation = 0 /\ mirror.accepted = 0 /\ ~mirror.held
  \/ \E m \in DOMAIN heads :
       /\ mirror.epoch = heads[m].epoch /\ mirror.generation = heads[m].generation
       /\ mirror.accepted = heads[m].sequence /\ mirror.held = heads[m].held

-----------------------------------------------------------------------------
(* What the rows say.                                                      *)

\* A request that has its answer was answered so, or too late.
AnswerKept(s) ==
  \A i \in DOMAIN ops[s] :
    ops[s][i].receipt # "none" =>
      ledger[s][i] # "none" /\ ops[s][i].receipt \in {ledger[s][i], "operation_expired"}

RowsInStep(s) ==
  /\ Sealed(s) <=> builds[s].state = "published"
  /\ s > mirror.latest => builds[s] = NoBuild
  /\ s <= mirror.latest => builds[s] # NoBuild /\ builds[s].epoch <= mirror.epoch
  /\ ~Sealed(s) => ops[s] = <<>>
  /\ Sealed(s) => builds[s].epoch = intents[s].expected.epoch
  /\ AnswerKept(s)

\* An intent was sealed in an epoch that was not held, and finds its epoch so.
SealedUnheld(s) ==
  Sealed(s) =>
    LET e == intents[s].expected.epoch
    IN /\ e = 0 \/ \E i \in DOMAIN heads : heads[i].epoch = e /\ ~heads[i].held
       /\ e = mirror.epoch => ~mirror.held

\* The intents of the mirrored epoch whose activation may have been accepted.
Unsettled == {s \in Sequence : /\ intents[s].state \in Open \cup {"blocked"}
                               /\ intents[s].expected.epoch = mirror.epoch
                               /\ unreconciledPackOperations(s)}

\* Nothing is sealed after an intent that is not settled.
NewestUnsettled == \A t \in Unsettled : \A s \in Sequence : s > t => ~Sealed(s)

BuildsSettled == lease.live /\ lease.kind = "build" => Unsettled = {}

\* What became of an intent.
Pending(s) == \E i \in DOMAIN ops[s] : ops[s][i].kind = "activate" /\ ledger[s][i] = "none"
Overtaken(s) == \E j \in DOMAIN heads : heads[j].epoch > intents[s].expected.epoch

Fate(s) ==
  /\ intents[s].state = "published" => s \in Applied /\ s <= mirror.accepted
  /\ intents[s].state = "superseded" /\ s \in Applied => intents[s].expected.epoch < mirror.epoch
  /\ intents[s].state = "superseded" /\ Pending(s) => Overtaken(s)

PackInv ==
  /\ PackTypeOK /\ HeadsMove /\ HeadsOfIntents /\ Mirrored
  /\ \A s \in Sequence : RowsInStep(s) /\ SealedUnheld(s) /\ Fate(s)
  /\ NewestUnsettled /\ BuildsSettled

-----------------------------------------------------------------------------
(* Rows.                                                                   *)

Unfinished == Open \cup {"blocked"}

LEMMA NoRow == /\ NoBuild.state = "none" /\ NoIntent.state = "none" /\ "none" \notin States
               /\ \A b \in Build : b.state \in States /\ b # NoBuild
               /\ \A x \in Intent : x.state \in States /\ x # NoIntent
<1>1. NoBuild.state = "none" /\ NoIntent.state = "none" /\ "none" \notin States
  BY DEF NoBuild, NoIntent, States, Open
<1>2. /\ \A b \in Build : b.state \in States
      /\ \A x \in Intent : x.state \in States
  BY DEF Build, Intent
<1> QED BY <1>1, <1>2

LEMMA Row ==
    ASSUME PackTypeOK, NEW s \in Sequence
    PROVE  /\ builds[s] = NoBuild \/ builds[s] \in Build
           /\ intents[s] = NoIntent \/ intents[s] \in Intent
           /\ builds[s].state \in States => builds[s] \in Build
           /\ intents[s].state \in States => intents[s] \in Intent
           /\ Sealed(s) <=> intents[s] \in Intent
           /\ ops[s] \in Seq(Operation) /\ ledger[s] \in Seq(Outcomes)
           /\ DOMAIN ops[s] = DOMAIN ledger[s]
<1>1. /\ builds[s] = NoBuild \/ builds[s] \in Build
      /\ intents[s] = NoIntent \/ intents[s] \in Intent
      /\ ops[s] \in Seq(Operation) /\ ledger[s] \in Seq(Outcomes)
      /\ Len(ops[s]) = Len(ledger[s])
  BY DEF PackTypeOK
<1>2. DOMAIN ops[s] = 1 .. Len(ops[s]) /\ DOMAIN ledger[s] = 1 .. Len(ledger[s])
  BY <1>1
<1> QED BY <1>1, <1>2, NoRow DEF Sealed

LEMMA StatesAre == /\ Open \subseteq Unfinished /\ Unfinished \subseteq States
                   /\ "publishing" \in Open /\ "ready" \in Open /\ "waiting" \in Open
                   /\ {"published", "superseded"} \subseteq States \ Unfinished
                   /\ "blocked" \in Unfinished
                   /\ States = Unfinished \cup {"published", "superseded"}
<1> QED BY DEF Open, Unfinished, States

Turned(x, st) == [x EXCEPT !.state = st]

LEMMA TurnedIntent ==
    ASSUME NEW x \in Intent, NEW st \in States
    PROVE  /\ Turned(x, st) \in Intent /\ Turned(x, st).state = st
           /\ Turned(x, st).snap = x.snap /\ Turned(x, st).expected = x.expected
<1>1. Turned(x, st) \in Intent
  BY Zenon DEF Turned, Intent
<1> QED BY <1>1 DEF Turned, Intent

Reasons == {"none", "data", "other", "expired"}
TurnedFor(x, st, r) == [x EXCEPT !.state = st, !.reason = r]

LEMMA TurnedBuild ==
    ASSUME NEW b \in Build, NEW st \in States
    PROVE  /\ Turned(b, st) \in Build /\ Turned(b, st).state = st
           /\ Turned(b, st).epoch = b.epoch /\ Turned(b, st).desire = b.desire
<1>1. Turned(b, st) \in Build
  BY Zenon DEF Turned, Build
<1> QED BY <1>1 DEF Turned, Build

LEMMA ReasonsAre == "none" \in Reasons /\ "data" \in Reasons /\ "other" \in Reasons /\ "expired" \in Reasons
<1> QED BY DEF Reasons

LEMMA TurnedForBuild ==
    ASSUME NEW b \in Build, NEW st \in States, NEW r \in Reasons
    PROVE  /\ TurnedFor(b, st, r) \in Build /\ TurnedFor(b, st, r).state = st
           /\ TurnedFor(b, st, r).epoch = b.epoch /\ TurnedFor(b, st, r).desire = b.desire
<1>1. TurnedFor(b, st, r) \in Build
  BY Zenon DEF TurnedFor, Build, Reasons
<1> QED BY <1>1 DEF TurnedFor, Build

\* A claim of a row counts as an attempt.
Claimed(x) == [x EXCEPT !.state = "publishing", !.attempts = @ + 1]

LEMMA ClaimedRow ==
    /\ \A x \in Intent : x.attempts < MaxAttempts =>
         /\ Claimed(x) \in Intent /\ Claimed(x).state = "publishing"
         /\ Claimed(x).snap = x.snap /\ Claimed(x).expected = x.expected
    /\ \A b \in Build : b.attempts < MaxAttempts =>
         /\ Claimed(b) \in Build /\ Claimed(b).state = "publishing"
         /\ Claimed(b).epoch = b.epoch /\ Claimed(b).desire = b.desire
<1>1. ASSUME NEW x \in Intent, x.attempts < MaxAttempts
      PROVE  /\ Claimed(x) \in Intent /\ Claimed(x).state = "publishing"
             /\ Claimed(x).snap = x.snap /\ Claimed(x).expected = x.expected
  <2>1. x.attempts + 1 \in 0 .. MaxAttempts /\ "publishing" \in States
    BY <1>1, PackAssumption, StatesAre DEF Intent
  <2>2. Claimed(x) \in Intent
    BY <2>1, Zenon DEF Claimed, Intent
  <2> QED BY <2>2 DEF Claimed, Intent
<1>2. ASSUME NEW b \in Build, b.attempts < MaxAttempts
      PROVE  /\ Claimed(b) \in Build /\ Claimed(b).state = "publishing"
             /\ Claimed(b).epoch = b.epoch /\ Claimed(b).desire = b.desire
  <2>1. b.attempts + 1 \in 0 .. MaxAttempts /\ "publishing" \in States
    BY <1>2, PackAssumption, StatesAre DEF Build
  <2>2. Claimed(b) \in Build
    BY <2>1, Zenon DEF Claimed, Build
  <2> QED BY <2>2 DEF Claimed, Build
<1> QED BY <1>1, <1>2

LEMMA AppliedIsSent ==
    ASSUME PackInv, NEW s \in Applied
    PROVE  s \in Sequence /\ Sealed(s) /\ unreconciledPackOperations(s)
<1>1. PICK i \in DOMAIN ledger[s] : ops[s][i].kind = "activate" /\ ledger[s][i] \in Success
  BY DEF Applied
<1>2. s \in Sequence /\ i \in DOMAIN ops[s] /\ RowsInStep(s)
  BY <1>1, Row DEF Applied, PackInv
<1>3. ops[s][i].receipt \notin {"conflict", "refused"}
  BY <1>1, <1>2 DEF RowsInStep, AnswerKept, Success
<1>4. DOMAIN ops[s] # {}
  BY <1>2
<1>5. Sealed(s)
  BY <1>2, <1>4 DEF RowsInStep
<1> QED BY <1>1, <1>2, <1>3, <1>5 DEF unreconciledPackOperations

\* A sealed intent is of a desired state there is, in an epoch already mirrored.
LEMMA SealedRow ==
    ASSUME PackInv, NEW s \in Sequence, Sealed(s)
    PROVE  /\ s <= mirror.latest /\ mirror.latest \in 0 .. MaxSequence
           /\ intents[s].expected.epoch \in Nat /\ mirror.epoch \in Nat
           /\ intents[s].expected.epoch <= mirror.epoch
           /\ intents[s] \in Intent /\ intents[s].state \in States
<1>1. RowsInStep(s) /\ PackTypeOK /\ intents[s] \in Intent
  BY Row DEF PackInv
<1>2. builds[s] # NoBuild
  BY <1>1, NoRow DEF RowsInStep
<1>3. mirror.latest \in 0 .. MaxSequence /\ mirror.epoch \in Nat
  BY <1>1 DEF PackTypeOK
<1>4. s <= mirror.latest
  BY <1>1, <1>2, <1>3, PackAssumption DEF RowsInStep, Sequence
<1>5. intents[s].expected.epoch <= mirror.epoch
  BY <1>1, <1>4 DEF RowsInStep
<1>6. intents[s].expected.epoch \in Nat /\ intents[s].state \in States
  BY <1>1 DEF Intent
<1> QED BY <1>1, <1>3, <1>4, <1>5, <1>6

-----------------------------------------------------------------------------
(* Steps of the rows: nothing is sent, answered or observed.               *)

TaskKept(t) ==
  Sealed(t) => /\ intents'[t] \in Intent
               /\ intents'[t].snap = intents[t].snap /\ intents'[t].expected = intents[t].expected

\* An intent stays, goes on, or is given up with nothing of it under way.
IntentMoves(t) ==
  \/ intents'[t] = intents[t]
  \/ /\ intents[t].state \in Unfinished /\ TaskKept(t)
     /\ \/ intents'[t].state \in Unfinished
        \/ intents'[t].state = "superseded" /\ ~unreconciledPackOperations(t)

BuildMoves(t) ==
  \/ builds'[t] = builds[t]
  \/ /\ builds[t] \in Build /\ builds[t].state # "published"
     /\ builds'[t] \in Build /\ builds'[t].state # "published" /\ builds'[t].epoch = builds[t].epoch

\* A desired state is added.
Planned ==
  /\ mirror'.latest = mirror.latest + 1
  /\ builds'[mirror'.latest] \in Build
  /\ builds'[mirror'.latest].epoch = mirror.epoch /\ builds'[mirror'.latest].state # "published"

SameMirror ==
  /\ mirror'.epoch = mirror.epoch /\ mirror'.generation = mirror.generation
  /\ mirror'.accepted = mirror.accepted /\ mirror'.held = mirror.held

LEMMA HeadsStay ==
    ASSUME PackInv, heads' = heads, Applied \subseteq Applied', \A t \in Sequence : TaskKept(t)
    PROVE  HeadsMove' /\ HeadsOfIntents'
<1>1. HeadsMove'
  BY DEF PackInv, HeadsMove
<1>2. \A j \in DOMAIN heads :
        LET q == heads[j].sequence
        IN q \in Applied /\ intents'[q].snap = intents[q].snap /\ intents'[q].expected = intents[q].expected
  BY AppliedIsSent DEF PackInv, HeadsOfIntents, TaskKept
<1>3. HeadsOfIntents'
  BY <1>2 DEF PackInv, HeadsOfIntents
<1> QED BY <1>1, <1>3

LEMMA MovesKeepTasks ==
    ASSUME PackTypeOK, NEW t \in Sequence, IntentMoves(t)
    PROVE  TaskKept(t) /\ (Sealed(t)' <=> Sealed(t))
<1>1. intents[t].state \in Unfinished => Sealed(t)
  BY NoRow, StatesAre, Row
<1> QED BY <1>1, Row, NoRow DEF IntentMoves, TaskKept, Sealed

LEMMA RowsMove ==
    ASSUME PackInv, PackTypeOK', UNCHANGED <<ops, ledger, heads>>, SameMirror,
           \A t \in Sequence : IntentMoves(t),
           \/ mirror'.latest = mirror.latest /\ \A t \in Sequence : BuildMoves(t)
           \/ Planned /\ \A t \in Sequence : t # mirror'.latest => BuildMoves(t),
           lease'.live /\ lease'.kind = "build" => lease' = lease \/ Unsettled = {}
    PROVE  PackInv'
<1>1. /\ PackTypeOK /\ \A t \in Sequence : TaskKept(t) /\ (Sealed(t)' <=> Sealed(t))
      /\ mirror.latest \in Nat /\ mirror.latest \in 0 .. MaxSequence
  BY MovesKeepTasks, PackAssumption DEF PackInv, PackTypeOK
<1>2. Applied' = Applied /\ \A t : unreconciledPackOperations(t)' <=> unreconciledPackOperations(t)
  BY DEF Applied, unreconciledPackOperations
<1>3. HeadsMove' /\ HeadsOfIntents'
  BY <1>1, <1>2, HeadsStay
<1>4. Mirrored'
  BY DEF PackInv, Mirrored, SameMirror
<1>5. ASSUME NEW s \in Sequence PROVE RowsInStep(s)'
  <2>1. RowsInStep(s) /\ s \in Nat /\ (builds[s].state = "published" => builds[s] \in Build)
    BY <1>1, Row, PackAssumption, StatesAre DEF PackInv, Sequence
  <2>2. AnswerKept(s)' /\ (~Sealed(s)' => ops'[s] = <<>>)
    BY <1>1, <2>1 DEF RowsInStep, AnswerKept
  <2>3. Sealed(s) => intents'[s].expected = intents[s].expected
    BY <1>1 DEF TaskKept
  <2>4. CASE BuildMoves(s) /\ (mirror'.latest = mirror.latest \/ (Planned /\ s # mirror'.latest))
    <3>1. /\ builds'[s].state = "published" <=> builds[s].state = "published"
          /\ builds'[s] = NoBuild <=> builds[s] = NoBuild
          /\ builds[s] # NoBuild => builds'[s].epoch = builds[s].epoch
      BY <2>4, NoRow DEF BuildMoves
    <3>2. s > mirror'.latest <=> s > mirror.latest
      BY <1>1, <2>1, <2>4 DEF Planned
    <3>3. s <= mirror'.latest <=> s <= mirror.latest
      BY <1>1, <2>1, <2>4 DEF Planned
    <3>4. Sealed(s) => builds[s] # NoBuild
      BY <2>1, NoRow DEF RowsInStep
    <3> QED BY <1>1, <2>1, <2>2, <2>3, <3>1, <3>2, <3>3, <3>4 DEF RowsInStep, SameMirror
  <2>5. CASE Planned /\ s = mirror'.latest
    <3>1. s > mirror.latest
      BY <1>1, <2>5 DEF Planned
    <3>2. ~Sealed(s)
      BY <2>1, <3>1, NoRow DEF RowsInStep
    <3>3. builds'[s] # NoBuild /\ builds'[s].epoch = mirror'.epoch /\ mirror.epoch \in Nat
      BY <1>1, <2>5, NoRow DEF Planned, SameMirror, PackTypeOK
    <3>4. ~(s > mirror'.latest)
      BY <2>1, <2>5
    <3> QED BY <1>1, <2>2, <2>5, <3>2, <3>3, <3>4 DEF RowsInStep, Planned, SameMirror
  <2>6. \/ mirror'.latest = mirror.latest /\ BuildMoves(s)
        \/ Planned /\ (s # mirror'.latest => BuildMoves(s))
    OBVIOUS
  <2> QED BY <2>4, <2>5, <2>6
<1>6. ASSUME NEW s \in Sequence PROVE SealedUnheld(s)'
  <2>1. SealedUnheld(s) /\ (Sealed(s) => intents'[s].expected = intents[s].expected)
    BY <1>1 DEF PackInv, TaskKept
  <2> QED BY <1>1, <2>1 DEF SealedUnheld, SameMirror
<1>7. ASSUME NEW s \in Sequence PROVE Fate(s)'
  <2>1. Fate(s) /\ Pending(s)' = Pending(s)
    BY DEF PackInv, Pending
  <2>2. CASE intents'[s] = intents[s]
    BY <1>2, <2>1, <2>2 DEF Fate, Overtaken, SameMirror
  <2>3. CASE intents'[s] # intents[s]
    <3>1. /\ intents'[s].state # "published"
          /\ intents'[s].state = "superseded" => ~unreconciledPackOperations(s)
      BY <2>3, StatesAre DEF IntentMoves
    <3>2. Pending(s) => unreconciledPackOperations(s)
      <4>1. RowsInStep(s) /\ DOMAIN ops[s] = DOMAIN ledger[s]
        BY <1>1, Row DEF PackInv
      <4> QED BY <4>1 DEF Pending, unreconciledPackOperations, RowsInStep, AnswerKept
    <3>3. s \in Applied => unreconciledPackOperations(s)
      BY AppliedIsSent
    <3> QED BY <1>2, <2>1, <3>1, <3>2, <3>3 DEF Fate
  <2> QED BY <2>2, <2>3
<1>8. Unsettled' \subseteq Unsettled
  <2> SUFFICES ASSUME NEW s \in Unsettled' PROVE s \in Unsettled
    OBVIOUS
  <2>1. /\ s \in Sequence /\ intents'[s].state \in Unfinished
        /\ intents'[s].expected.epoch = mirror.epoch /\ unreconciledPackOperations(s)
    BY <1>2 DEF Unsettled, Unfinished, SameMirror
  <2>2. intents[s].state \in Unfinished /\ Sealed(s)
    BY <1>1, <2>1, Row, StatesAre, NoRow DEF IntentMoves
  <2> QED BY <1>1, <2>1, <2>2 DEF TaskKept, Unsettled, Unfinished
<1>9. NewestUnsettled'
  BY <1>1, <1>8 DEF PackInv, NewestUnsettled
<1>10. BuildsSettled'
  BY <1>8 DEF PackInv, BuildsSettled
<1> QED BY <1>3, <1>4, <1>5, <1>6, <1>7, <1>9, <1>10 DEF PackInv
-----------------------------------------------------------------------------
(* The steps that only change rows.                                        *)

LeaseRow == [work : 0 .. MaxSequence, kind : {"none", "build", "activation"}, live : BOOLEAN]

\* The next desired state's turn.
NextLatest ==
  /\ mirror' = [mirror EXCEPT !.latest = @ + 1] /\ mirror.latest < MaxSequence /\ Planned
  /\ \A t \in Sequence : t # mirror.latest + 1 => BuildMoves(t)

\* No intent is sealed, accepted or finished.
Quiet == UNCHANGED Ledger!ovars

LEMMA RowStep ==
    ASSUME PackInv, UNCHANGED <<ops, ledger, roots, heads, operator>>,
           intents' = [t \in Sequence |-> intents'[t]], builds' = [t \in Sequence |-> builds'[t]],
           \A t \in Sequence : IntentMoves(t),
           \/ mirror' = mirror /\ \A t \in Sequence : BuildMoves(t)
           \/ NextLatest,
           lease' \in LeaseRow,
           lease'.live /\ lease'.kind = "build" => lease' = lease \/ Unsettled = {}
    PROVE  PackInv' /\ Quiet
<1>1. PackTypeOK /\ mirror.latest \in Nat /\ MaxSequence \in Nat
  BY PackAssumption DEF PackInv, PackTypeOK
<1>2. ASSUME NEW t \in Sequence PROVE intents'[t] \in {NoIntent} \cup Intent
  <2>1. intents[t].state \in Unfinished => Sealed(t)
    BY <1>1, Row, StatesAre, NoRow
  <2> QED BY <1>1, <2>1, Row DEF IntentMoves, TaskKept
<1>3. ASSUME mirror' = mirror, \A t \in Sequence : BuildMoves(t) PROVE PackInv'
  <2>1. ASSUME NEW t \in Sequence PROVE builds'[t] \in {NoBuild} \cup Build
    BY <1>1, <1>3, Row DEF BuildMoves
  <2>2. PackTypeOK'
    <3>1. intents' \in [Sequence -> {NoIntent} \cup Intent] /\ builds' \in [Sequence -> {NoBuild} \cup Build]
      BY <1>2, <2>1, Zenon
    <3> QED BY <1>1, <1>3, <3>1 DEF PackTypeOK, LeaseRow
  <2>3. SameMirror
    BY <1>3 DEF SameMirror
  <2> QED BY <1>3, <2>2, <2>3, RowsMove
<1>4. ASSUME NextLatest PROVE PackInv'
  <2>1. mirror'.latest = mirror.latest + 1 /\ mirror.latest + 1 \in 0 .. MaxSequence /\ SameMirror
    BY <1>1, <1>4 DEF NextLatest, SameMirror, PackTypeOK
  <2>2. mirror' \in [latest : 0 .. MaxSequence, accepted : 0 .. MaxSequence, epoch : Nat, generation : Nat,
                     held : BOOLEAN, active : Snapshot \cup {None}]
    BY <1>1, <1>4, <2>1, Zenon DEF NextLatest, PackTypeOK
  <2>3. ASSUME NEW t \in Sequence PROVE builds'[t] \in {NoBuild} \cup Build
    BY <1>1, <1>4, <2>1, Row DEF NextLatest, Planned, BuildMoves
  <2>4. PackTypeOK'
    <3>1. intents' \in [Sequence -> {NoIntent} \cup Intent] /\ builds' \in [Sequence -> {NoBuild} \cup Build]
      BY <1>2, <2>3, Zenon
    <3> QED BY <1>1, <2>2, <3>1 DEF PackTypeOK, LeaseRow
  <2>5. Planned /\ \A t \in Sequence : t # mirror'.latest => BuildMoves(t)
    BY <1>4, <2>1 DEF NextLatest
  <2> QED BY <2>1, <2>4, <2>5, RowsMove
<1>5. Quiet
  <2>1. Applied' = Applied
    BY DEF Applied
  <2>2. ASSUME NEW t \in Sequence
        PROVE  /\ intents'[t] # NoIntent <=> intents[t] # NoIntent
               /\ intents'[t].state = "published" <=> intents[t].state = "published"
    <3>1. Sealed(t)' <=> Sealed(t)
      BY <1>1, MovesKeepTasks
    <3>2. intents'[t].state = "published" <=> intents[t].state = "published"
      BY StatesAre DEF IntentMoves
    <3> QED BY <3>1, <3>2 DEF Sealed
  <2> QED BY <2>1, <2>2 DEF Quiet, Ledger!ovars
<1> QED BY <1>3, <1>4, <1>5

LEMMA IntentTurns ==
    ASSUME PackTypeOK, NEW t \in Sequence, intents[t].state \in Unfinished, NEW st \in Unfinished \cup {"superseded"},
           intents'[t] = Turned(intents[t], st), st = "superseded" => ~unreconciledPackOperations(t)
    PROVE  IntentMoves(t)
<1>1. intents[t] \in Intent /\ st \in States
  BY Row, StatesAre
<1> QED BY <1>1, TurnedIntent DEF IntentMoves, TaskKept

LEMMA BuildTurns ==
    ASSUME PackTypeOK, NEW t \in Sequence, builds[t].state \in Unfinished, NEW st \in States \ {"published"},
           \/ builds'[t] = Turned(builds[t], st)
           \/ \E r \in Reasons : builds'[t] = TurnedFor(builds[t], st, r)
    PROVE  BuildMoves(t)
<1>1. builds[t] \in Build /\ builds[t].state # "published"
  BY Row, StatesAre
<1>2. builds'[t] \in Build /\ builds'[t].state # "published" /\ builds'[t].epoch = builds[t].epoch
  <2>1. CASE builds'[t] = Turned(builds[t], st)
    <3> DEFINE b == builds[t]
    <3>1. Turned(b, st) \in Build /\ Turned(b, st).state = st /\ Turned(b, st).epoch = b.epoch
      BY <1>1, TurnedBuild
    <3> QED BY <2>1, <3>1
  <2>2. ASSUME NEW r \in Reasons, builds'[t] = TurnedFor(builds[t], st, r)
        PROVE  builds'[t] \in Build /\ builds'[t].state # "published" /\ builds'[t].epoch = builds[t].epoch
    <3> DEFINE b == builds[t]
    <3>1. TurnedFor(b, st, r) \in Build /\ TurnedFor(b, st, r).state = st /\ TurnedFor(b, st, r).epoch = b.epoch
      BY <1>1, TurnedForBuild
    <3> QED BY <2>2, <3>1
  <2> QED BY <2>1, <2>2
<1> QED BY <1>1, <1>2 DEF BuildMoves

\* A row that is claimed may be given up or taken.
LEMMA ClaimMoves ==
    ASSUME PackTypeOK, NEW s \in Sequence, NEW t \in Sequence
    PROVE  /\ intents'[t] = StaleIntents(s)[t] => IntentMoves(t)
           /\ builds'[t] = StaleBuilds(s)[t] => BuildMoves(t)
           /\ StaleIntents(s)[s] = intents[s] /\ StaleBuilds(s)[s] = builds[s]
<1>1. "publishing" \in Unfinished /\ "superseded" \in States \ {"published"} /\ s \in Nat
  BY StatesAre, PackAssumption DEF Sequence
<1>2. ASSUME intents'[t] = StaleIntents(s)[t] PROVE IntentMoves(t)
  <2>1. CASE intents[t].state = "publishing" /\ t < s /\ ~unreconciledPackOperations(t)
    <3>1. intents'[t] = Turned(intents[t], "superseded")
      BY <1>2, <2>1, Zenon DEF StaleIntents, Turned
    <3> QED BY <1>1, <2>1, <3>1, IntentTurns
  <2>2. CASE ~(intents[t].state = "publishing" /\ t < s /\ ~unreconciledPackOperations(t))
    BY <1>2, <2>2, Zenon DEF StaleIntents, IntentMoves
  <2> QED BY <2>1, <2>2
<1>3. ASSUME builds'[t] = StaleBuilds(s)[t] PROVE BuildMoves(t)
  <2>1. CASE builds[t].state = "publishing" /\ t < s
    <3>1. builds'[t] = Turned(builds[t], "superseded")
      BY <1>3, <2>1, Zenon DEF StaleBuilds, Turned
    <3> QED BY <1>1, <2>1, <3>1, BuildTurns
  <2>2. CASE ~(builds[t].state = "publishing" /\ t < s)
    BY <1>3, <2>2, Zenon DEF StaleBuilds, BuildMoves
  <2> QED BY <2>1, <2>2
<1>4. ~(s < s)
  BY <1>1
<1>5. StaleIntents(s)[s] = intents[s] /\ StaleBuilds(s)[s] = builds[s]
  BY <1>4, Zenon DEF StaleIntents, StaleBuilds
<1> QED BY <1>2, <1>3, <1>5

\* A build is claimed only when nothing is left to settle.
LEMMA BuildClaims ==
    ASSUME NEW s \in eligible("build")
    PROVE  Unsettled = {} /\ builds[s].state \in Open
<1>1. reconciliation = {} /\ builds[s].state \in Open
  BY DEF eligible
<1>2. Unsettled \subseteq reconciliation
  BY DEF Unsettled, reconciliation
<1> QED BY <1>1, <1>2

LEMMA ClaimKeepsInv ==
    ASSUME PackInv, NEW s \in Sequence, NEW kind \in {"build", "activation"}, Claim(kind, s)
    PROVE  PackInv' /\ Quiet
<1>1. PackTypeOK /\ UNCHANGED <<mirror, ops, ledger, roots, heads, operator>> /\ s \in eligible(kind)
  BY DEF Claim, PackInv, store
<1>2. lease' \in LeaseRow
  BY PackAssumption DEF Claim, LeaseRow, Sequence
<1>3. CASE kind = "build"
  <2>1. /\ builds' = [StaleBuilds(s) EXCEPT ![s] = Claimed(StaleBuilds(s)[s])] /\ builds[s].attempts < MaxAttempts
        /\ intents' = StaleIntents(s)
    BY <1>3 DEF Claim, StaleBuilds, Claimed
  <2>2. builds' = [t \in Sequence |-> builds'[t]] /\ intents' = [t \in Sequence |-> intents'[t]]
    BY <2>1, Zenon DEF StaleBuilds, StaleIntents
  <2>3. builds'[s] = Claimed(builds[s])
    <3> HIDE DEF Claimed
    <3> QED BY <1>1, <2>1, ClaimMoves, Zenon DEF StaleBuilds
  <2>4. \A t \in Sequence \ {s} : builds'[t] = StaleBuilds(s)[t]
    BY <2>1, Zenon DEF StaleBuilds
  <2>5. Unsettled = {} /\ builds[s].state \in Open
    BY <1>1, <1>3, BuildClaims
  <2>6. BuildMoves(s)
    <3>1. builds[s] \in Build
      BY <1>1, <2>5, Row, StatesAre
    <3>2. builds'[s] \in Build /\ builds'[s].state = "publishing" /\ builds'[s].epoch = builds[s].epoch
      BY <2>1, <2>3, <3>1, ClaimedRow
    <3> QED BY <2>5, <3>1, <3>2, StatesAre DEF BuildMoves
  <2>7. \A t \in Sequence : IntentMoves(t) /\ BuildMoves(t)
    BY <1>1, <2>1, <2>4, <2>6, ClaimMoves
  <2> QED BY <1>1, <1>2, <2>2, <2>5, <2>7, RowStep
<1>4. CASE kind = "activation"
  <2>1. /\ intents' = [StaleIntents(s) EXCEPT ![s] = Claimed(StaleIntents(s)[s])] /\ intents[s].attempts < MaxAttempts
        /\ builds' = StaleBuilds(s) /\ intents[s].state \in Open /\ lease'.kind = "activation"
    BY <1>1, <1>4 DEF Claim, StaleIntents, Claimed, eligible
  <2>2. builds' = [t \in Sequence |-> builds'[t]] /\ intents' = [t \in Sequence |-> intents'[t]]
    BY <2>1, Zenon DEF StaleBuilds, StaleIntents
  <2>3. intents'[s] = Claimed(intents[s])
    <3> HIDE DEF Claimed
    <3> QED BY <1>1, <2>1, ClaimMoves, Zenon DEF StaleIntents
  <2>4. \A t \in Sequence \ {s} : intents'[t] = StaleIntents(s)[t]
    BY <2>1, Zenon DEF StaleIntents
  <2>5. IntentMoves(s)
    <3>1. intents[s] \in Intent
      BY <1>1, <2>1, Row, StatesAre
    <3>2. intents'[s] \in Intent /\ intents'[s].state = "publishing"
          /\ intents'[s].snap = intents[s].snap /\ intents'[s].expected = intents[s].expected
      BY <2>1, <2>3, <3>1, ClaimedRow
    <3> QED BY <2>1, <3>1, <3>2, StatesAre DEF IntentMoves, TaskKept
  <2>6. \A t \in Sequence : IntentMoves(t) /\ BuildMoves(t)
    BY <1>1, <2>1, <2>4, <2>5, ClaimMoves
  <2> QED BY <1>1, <1>2, <2>1, <2>2, <2>6, RowStep
<1> QED BY <1>3, <1>4

\* One row turns, and the lease may be given back.
LEMMA OneIntentTurns ==
    ASSUME PackInv, NEW s \in Sequence, NEW st \in Unfinished \cup {"superseded"},
           intents[s].state \in Unfinished, intents' = [intents EXCEPT ![s].state = st],
           st = "superseded" => ~unreconciledPackOperations(s), lease' = NoLease,
           UNCHANGED <<mirror, builds, ops, ledger, roots, heads, operator>>
    PROVE  PackInv' /\ Quiet
<1>1. PackTypeOK /\ intents \in [Sequence -> {NoIntent} \cup Intent] /\ builds \in [Sequence -> {NoBuild} \cup Build]
  BY DEF PackInv, PackTypeOK
<1>2. intents'[s] = Turned(intents[s], st) /\ intents' = [t \in Sequence |-> intents'[t]]
      /\ \A t \in Sequence \ {s} : intents'[t] = intents[t]
  BY <1>1, Zenon DEF Turned
<1>3. \A t \in Sequence : IntentMoves(t) /\ BuildMoves(t)
  <2>1. IntentMoves(s)
    BY <1>1, <1>2, IntentTurns
  <2> QED BY <1>2, <2>1 DEF IntentMoves, BuildMoves
<1>4. lease' \in LeaseRow /\ ~lease'.live
  BY PackAssumption DEF NoLease, LeaseRow
<1>5. builds' = [t \in Sequence |-> builds'[t]]
  BY <1>1, Zenon
<1> QED BY <1>2, <1>3, <1>4, <1>5, RowStep

LEMMA OneBuildTurns ==
    ASSUME PackInv, NEW s \in Sequence, NEW st \in States \ {"published"}, NEW r \in Reasons,
           builds[s].state \in Unfinished, builds' = [builds EXCEPT ![s].state = st, ![s].reason = r],
           lease' = NoLease, UNCHANGED <<mirror, intents, ops, ledger, roots, heads, operator>>
    PROVE  PackInv' /\ Quiet
<1>1. PackTypeOK /\ intents \in [Sequence -> {NoIntent} \cup Intent] /\ builds \in [Sequence -> {NoBuild} \cup Build]
  BY DEF PackInv, PackTypeOK
<1>2. builds' = [builds EXCEPT ![s] = TurnedFor(builds[s], st, r)]
  BY <1>1 DEF TurnedFor
<1>3. builds'[s] = TurnedFor(builds[s], st, r) /\ builds' = [t \in Sequence |-> builds'[t]]
      /\ \A t \in Sequence \ {s} : builds'[t] = builds[t]
  BY <1>1, <1>2, Zenon
<1>4. \A t \in Sequence : IntentMoves(t) /\ BuildMoves(t)
  <2>1. BuildMoves(s)
    BY <1>1, <1>3, BuildTurns
  <2> QED BY <1>3, <2>1 DEF IntentMoves, BuildMoves
<1>5. lease' \in LeaseRow /\ ~lease'.live
  BY PackAssumption DEF NoLease, LeaseRow
<1>6. intents' = [t \in Sequence |-> intents'[t]]
  BY <1>1, Zenon
<1> QED BY <1>3, <1>4, <1>5, <1>6, RowStep

LEMMA ClaimExhaustedKeepsInv ==
    ASSUME PackInv, NEW s \in Sequence, NEW kind \in {"build", "activation"}, ClaimExhausted(kind, s)
    PROVE  PackInv' /\ Quiet
<1>1. lease' = NoLease /\ UNCHANGED <<mirror, ops, ledger, roots, heads, operator>>
  BY DEF ClaimExhausted, store
<1>2. CASE kind = "build"
  <2>1. /\ builds[s].state \in Unfinished /\ builds' = [builds EXCEPT ![s].state = "blocked", ![s].reason = "expired"]
        /\ UNCHANGED intents /\ "blocked" \in States \ {"published"}
    BY <1>2, StatesAre DEF ClaimExhausted, eligible
  <2> QED BY <1>1, <2>1, ReasonsAre, OneBuildTurns
<1>3. CASE kind = "activation"
  <2>1. /\ intents[s].state \in Unfinished /\ intents' = [intents EXCEPT ![s].state = "blocked"]
        /\ UNCHANGED builds /\ "blocked" \in Unfinished \cup {"superseded"}
    BY <1>3, StatesAre DEF ClaimExhausted, eligible
  <2> QED BY <1>1, <2>1, OneIntentTurns
<1> QED BY <1>2, <1>3

LEMMA DeferKeepsInv ==
    ASSUME PackInv, NEW s \in Sequence, NEW kind \in {"build", "activation"}, NEW st \in DeferStates, defer(kind, s, st)
    PROVE  PackInv' /\ Quiet
<1> DEFINE reconciling == kind = "activation" /\ (mirror.accepted = s \/ unreconciledPackOperations(s))
           next == IF mirror.latest > s /\ ~reconciling THEN "superseded" ELSE st
<1>1. lease' = NoLease /\ UNCHANGED <<mirror, ops, ledger, roots, heads, operator>>
  BY DEF defer, store
<1>2. next \in Unfinished \cup {"superseded"}
  BY PackAssumption DEF Unfinished, Open
<1>3. CASE kind = "build"
  <2>1. /\ builds[s].state \in Unfinished /\ builds' = [builds EXCEPT ![s].state = next, ![s].reason = "other"]
        /\ UNCHANGED intents
    BY <1>3, StatesAre DEF defer, lockLease
  <2>2. next \in States \ {"published"}
    BY <1>2, StatesAre
  <2> HIDE DEF next
  <2> QED BY <1>1, <2>1, <2>2, ReasonsAre, OneBuildTurns
<1>4. CASE kind = "activation"
  <2>1. /\ intents[s].state \in Unfinished /\ intents' = [intents EXCEPT ![s].state = next]
        /\ UNCHANGED builds /\ ~(reconciling /\ st = "superseded")
    BY <1>4, StatesAre DEF defer, lockLease
  <2>2. next = "superseded" => ~unreconciledPackOperations(s)
    BY <1>4, <2>1
  <2> HIDE DEF next, reconciling
  <2> QED BY <1>1, <1>2, <2>1, <2>2, OneIntentTurns
<1> QED BY <1>3, <1>4

LEMMA LeaseExpiresKeepsInv ==
    ASSUME PackInv, LeaseExpires
    PROVE  PackInv' /\ Quiet
<1>1. PackTypeOK /\ UNCHANGED <<mirror, builds, intents, ops, ledger, roots, heads, operator>>
  BY DEF LeaseExpires, PackInv, store
<1>2. lease' \in LeaseRow /\ ~lease'.live
  BY <1>1 DEF LeaseExpires, PackTypeOK, LeaseRow
<1>3. intents' = [t \in Sequence |-> intents'[t]] /\ builds' = [t \in Sequence |-> builds'[t]]
  BY <1>1, Zenon DEF PackTypeOK
<1>4. \A t \in Sequence : IntentMoves(t) /\ BuildMoves(t)
  BY <1>1 DEF IntentMoves, BuildMoves
<1> QED BY <1>1, <1>2, <1>3, <1>4, RowStep

LEMMA IntentExpiresKeepsInv ==
    ASSUME PackInv, NEW s \in Sequence, IntentExpires(s)
    PROVE  PackInv' /\ Quiet
<1>1. /\ PackTypeOK /\ UNCHANGED <<mirror, lease, builds, ops, ledger, roots, heads, operator>>
      /\ intents' = [intents EXCEPT ![s].expired = TRUE] /\ intents[s].state \in Unfinished
  BY StatesAre DEF IntentExpires, PackInv, store, Unfinished
<1>2. intents[s] \in Intent
  BY <1>1, Row, StatesAre
<1>3. /\ [intents[s] EXCEPT !.expired = TRUE] \in Intent
      /\ [intents[s] EXCEPT !.expired = TRUE].state = intents[s].state
      /\ [intents[s] EXCEPT !.expired = TRUE].snap = intents[s].snap
      /\ [intents[s] EXCEPT !.expired = TRUE].expected = intents[s].expected
  BY <1>2 DEF Intent
<1>4. /\ intents' = [t \in Sequence |-> intents'[t]] /\ builds' = [t \in Sequence |-> builds'[t]]
      /\ intents'[s] = [intents[s] EXCEPT !.expired = TRUE]
      /\ \A t \in Sequence \ {s} : intents'[t] = intents[t]
  BY <1>1, Zenon DEF PackTypeOK
<1>5. \A t \in Sequence : IntentMoves(t) /\ BuildMoves(t)
  BY <1>1, <1>3, <1>4 DEF IntentMoves, BuildMoves, TaskKept
<1>6. lease' \in LeaseRow
  BY <1>1 DEF PackTypeOK, LeaseRow
<1> QED BY <1>1, <1>4, <1>5, <1>6, RowStep

-----------------------------------------------------------------------------
(* A desired state is added.                                               *)

\* What is captured is a desired state.
LEMMA CapturedDesire ==
    ASSUME PackTypeOK, NEW d \in Captured
    PROVE  d \in Desire
<1>1. mirror.active \in Snapshot \cup {None}
  BY DEF PackTypeOK
<1>2. CASE \E t \in Titles : d = [snap |-> [title |-> t, life |-> 0], base |-> None]
  BY <1>2, PackAssumption DEF Desire, Snapshot
<1>3. CASE mirror.active # None /\ \E l \in Lifecycles : d = [snap |-> [mirror.active EXCEPT !.life = l], base |-> mirror.active]
  <2>1. PICK l \in Lifecycles : d = [snap |-> [mirror.active EXCEPT !.life = l], base |-> mirror.active]
    BY <1>3
  <2>2. mirror.active \in Snapshot
    BY <1>1, <1>3
  <2>3. [mirror.active EXCEPT !.life = l] \in Snapshot
    BY <2>2 DEF Snapshot
  <2> QED BY <2>1, <2>2, <2>3 DEF Desire
<1> QED BY <1>2, <1>3 DEF Captured

LEMMA PersistMoves ==
    ASSUME PackInv, NEW d \in Desire, NEW st \in Readiness, NEW lb, NEW li,
           mirror.latest < MaxSequence, builds' = PersistBuilds(d, st, lb),
           mirror' = [mirror EXCEPT !.latest = @ + 1]
    PROVE  /\ NextLatest /\ builds' = [t \in Sequence |-> builds'[t]]
           /\ \A t \in Sequence : intents'[t] = PersistIntents(li)[t] => IntentMoves(t)
<1>1. PackTypeOK /\ mirror.latest \in Nat /\ mirror.latest \in 0 .. MaxSequence /\ mirror.epoch \in Nat
      /\ mirror.latest + 1 \in Sequence /\ mirror'.latest = mirror.latest + 1
  BY PackAssumption DEF PackInv, PackTypeOK, Sequence
<1>2. /\ st \in States \ {"published"} /\ "superseded" \in States \ {"published"}
      /\ {"waiting", "ready", "retry_scheduled", "blocked"} \subseteq Unfinished
  BY PackAssumption DEF States, Open, Unfinished
<1>3. builds' = [t \in Sequence |-> builds'[t]]
  BY Zenon DEF PersistBuilds
<1>4. Planned
  <2>1. builds'[mirror.latest + 1] =
          [state |-> st, reason |-> IF st = "ready" THEN "none" ELSE "data", desire |-> d,
           epoch |-> mirror.epoch, request |-> st = "ready", attempts |-> 0]
    BY <1>1, Zenon DEF PersistBuilds
  <2>2. 0 \in 0 .. MaxAttempts
    BY PackAssumption
  <2>3. builds'[mirror.latest + 1] \in Build
    BY <1>1, <1>2, <2>1, <2>2 DEF Build
  <2> QED BY <1>1, <1>2, <2>1, <2>3 DEF Planned
<1>5. ASSUME NEW t \in Sequence, t # mirror.latest + 1 PROVE BuildMoves(t)
  <2>1. CASE Idle(t, builds[t].state) /\ t # lb
    <3>1. builds'[t] = Turned(builds[t], "superseded")
      BY <1>5, <2>1, Zenon DEF PersistBuilds, Turned
    <3>2. builds[t].state \in Unfinished
      BY <1>2, <2>1 DEF Idle
    <3> QED BY <1>1, <1>2, <3>1, <3>2, BuildTurns
  <2>2. CASE ~(Idle(t, builds[t].state) /\ t # lb)
    BY <1>5, <2>2, Zenon DEF PersistBuilds, BuildMoves
  <2> QED BY <2>1, <2>2
<1>6. ASSUME NEW t \in Sequence, intents'[t] = PersistIntents(li)[t] PROVE IntentMoves(t)
  <2>1. CASE Idle(t, intents[t].state) /\ t # li /\ ~unreconciledPackOperations(t)
    <3>1. intents'[t] = Turned(intents[t], "superseded")
      BY <1>6, <2>1, Zenon DEF PersistIntents, Turned
    <3>2. intents[t].state \in Unfinished
      BY <1>2, <2>1 DEF Idle
    <3> QED BY <1>1, <2>1, <3>1, <3>2, IntentTurns
  <2>2. CASE ~(Idle(t, intents[t].state) /\ t # li /\ ~unreconciledPackOperations(t))
    BY <1>6, <2>2, Zenon DEF PersistIntents, IntentMoves
  <2> QED BY <2>1, <2>2
<1> QED BY <1>3, <1>4, <1>5, <1>6 DEF NextLatest

LEMMA PlanKeepsInv ==
    ASSUME PackInv, NEW d \in Captured, NEW st \in Readiness, Plan(d, st)
    PROVE  PackInv' /\ Quiet
<1>1. /\ PackTypeOK /\ UNCHANGED <<lease, ops, ledger, roots, heads, operator>>
      /\ mirror.latest < MaxSequence /\ builds' = PersistBuilds(d, st, Leased("build"))
      /\ intents' = PersistIntents(Leased("activation")) /\ mirror' = [mirror EXCEPT !.latest = @ + 1]
  BY DEF Plan, PackInv, store
<1>2. d \in Desire
  BY <1>1, CapturedDesire
<1>3. /\ NextLatest /\ builds' = [t \in Sequence |-> builds'[t]]
      /\ \A t \in Sequence : IntentMoves(t)
  <2>1. \A t \in Sequence : intents'[t] = PersistIntents(Leased("activation"))[t] => IntentMoves(t)
    BY <1>1, <1>2, PersistMoves
  <2> QED BY <1>1, <1>2, <2>1, PersistMoves
<1>4. intents' = [t \in Sequence |-> intents'[t]]
  BY <1>1, Zenon DEF PersistIntents
<1>5. lease' \in LeaseRow
  BY <1>1 DEF PackTypeOK, LeaseRow
<1> QED BY <1>1, <1>3, <1>4, <1>5, RowStep

LEMMA RetireKeepsInv ==
    ASSUME PackInv, NEW s \in Sequence, NEW st \in Readiness, Retire(s, st)
    PROVE  PackInv' /\ Quiet
<1>1. /\ PackTypeOK /\ lease' = NoLease /\ UNCHANGED <<ops, ledger, roots, heads, operator>>
      /\ intents[s].state = "publishing" /\ ~unreconciledPackOperations(s) /\ RowsInStep(s)
  BY DEF Retire, lockLease, PackInv, store
<1>2. lease' \in LeaseRow /\ ~lease'.live
  BY <1>1, PackAssumption DEF NoLease, LeaseRow
<1>3. CASE mirror.latest > s
  <2>1. intents' = [intents EXCEPT ![s].state = "superseded"] /\ UNCHANGED <<mirror, builds>>
    BY <1>3 DEF Retire
  <2>2. intents[s].state \in Unfinished /\ "superseded" \in Unfinished \cup {"superseded"}
    BY <1>1, StatesAre
  <2> QED BY <1>1, <2>1, <2>2, OneIntentTurns
<1>4. CASE ~(mirror.latest > s)
  <2>1. /\ mirror.latest < MaxSequence /\ builds' = PersistBuilds(builds[s].desire, st, 0)
        /\ intents' = [PersistIntents(0) EXCEPT ![s].state = "superseded"]
        /\ mirror' = [mirror EXCEPT !.latest = @ + 1]
    BY <1>4 DEF Retire
  <2>2. builds[s].desire \in Desire
    <3>1. builds[s] \in Build
      BY <1>1, Row, StatesAre, NoRow DEF RowsInStep
    <3> QED BY <3>1 DEF Build
  <2>3. /\ NextLatest /\ builds' = [t \in Sequence |-> builds'[t]]
        /\ \A t \in Sequence : intents'[t] = PersistIntents(0)[t] => IntentMoves(t)
    BY <2>1, <2>2, PersistMoves
  <2>4. /\ intents' = [t \in Sequence |-> intents'[t]]
        /\ \A t \in Sequence \ {s} : intents'[t] = PersistIntents(0)[t]
        /\ intents'[s] = Turned(PersistIntents(0)[s], "superseded")
    BY <2>1, Zenon DEF PersistIntents, Turned
  <2>5. IntentMoves(s)
    <3>1. ~Idle(s, intents[s].state)
      BY <1>1 DEF Idle
    <3>2. PersistIntents(0)[s] = intents[s]
      BY <3>1, Zenon DEF PersistIntents
    <3>3. intents[s].state \in Unfinished /\ "superseded" \in Unfinished \cup {"superseded"}
      BY <1>1, StatesAre
    <3>4. intents'[s] = Turned(intents[s], "superseded")
      BY <2>4, <3>2
    <3> QED BY <1>1, <3>3, <3>4, IntentTurns
  <2>6. \A t \in Sequence : IntentMoves(t)
    BY <2>3, <2>4, <2>5
  <2> QED BY <1>1, <1>2, <2>3, <2>4, <2>6, RowStep
<1> QED BY <1>3, <1>4
-----------------------------------------------------------------------------
(* An intent is sealed.                                                    *)

LEMMA SealsReady ==
    ASSUME PackInv, NEW s \in Sequence, Seal(s, "ready")
    PROVE  PackInv' /\ Ledger!Emit(s)
<1> DEFINE new == [state |-> "ready", snap |-> builds[s].desire.snap, attempts |-> 0, expired |-> FALSE,
                   expected |-> [generation |-> mirror.generation, epoch |-> mirror.epoch, active |-> mirror.active]]
           row == TurnedFor(builds[s], "published", "none")
<1>1. /\ PackTypeOK /\ UNCHANGED <<mirror, ops, ledger, roots, heads, operator>> /\ lease' = NoLease
      /\ lease.live /\ lease.kind = "build" /\ builds[s].state = "publishing"
      /\ ~mirror.held /\ mirror.latest = s /\ builds[s].epoch = mirror.epoch
      /\ intents' = [intents EXCEPT ![s] = new]
      /\ builds' = [builds EXCEPT ![s] = row]
  <2>1. lockLease("build", s)
    BY DEF Seal
  <2>2. lease.live /\ lease.kind = "build" /\ builds[s].state = "publishing"
    BY <2>1 DEF lockLease
  <2>3. /\ UNCHANGED <<mirror, ops, ledger, roots, heads, operator>> /\ lease' = NoLease
        /\ ~mirror.held /\ mirror.latest = s /\ builds[s].epoch = mirror.epoch
    BY DEF Seal, store
  <2>4. intents' = [intents EXCEPT ![s] = new]
    BY Zenon DEF Seal
  <2>5. builds' = [builds EXCEPT ![s].state = "published", ![s].reason = "none"]
    BY Zenon DEF Seal
  <2>6. builds' = [builds EXCEPT ![s] = row]
    BY <2>5 DEF TurnedFor
  <2> QED BY <2>2, <2>3, <2>4, <2>6 DEF PackInv
<1>2. builds[s] \in Build /\ ~Sealed(s) /\ RowsInStep(s)
  BY <1>1, Row, StatesAre, NoRow DEF PackInv, RowsInStep
<1>3. /\ new \in Intent /\ new # NoIntent /\ new.expected.epoch = mirror.epoch /\ new.state = "ready"
      /\ row \in Build /\ row.state = "published" /\ row.epoch = builds[s].epoch /\ row # NoBuild
  <2>1. builds[s].desire.snap \in Snapshot /\ 0 \in 0 .. MaxAttempts /\ "ready" \in States
    BY <1>2, StatesAre, PackAssumption DEF Build, Desire
  <2>2. [generation |-> mirror.generation, epoch |-> mirror.epoch, active |-> mirror.active]
          \in [generation : Nat, epoch : Nat, active : Snapshot \cup {None}]
    BY <1>1 DEF PackTypeOK
  <2>3. new \in Intent
    BY <2>1, <2>2, Zenon DEF Intent
  <2>4. "published" \in States /\ "none" \in Reasons
    BY StatesAre, ReasonsAre
  <2>5. row \in Build /\ row.state = "published" /\ row.epoch = builds[s].epoch
    <3> DEFINE b == builds[s]
    <3>1. /\ TurnedFor(b, "published", "none") \in Build /\ TurnedFor(b, "published", "none").state = "published"
          /\ TurnedFor(b, "published", "none").epoch = b.epoch
      BY <1>2, <2>4, TurnedForBuild
    <3> QED BY <3>1
  <2> QED BY <2>3, <2>5, NoRow
<1> HIDE DEF new, row
<1>4. /\ intents'[s] = new /\ builds'[s] = row
      /\ \A t \in Sequence \ {s} : intents'[t] = intents[t] /\ builds'[t] = builds[t]
      /\ intents' \in [Sequence -> {NoIntent} \cup Intent] /\ builds' \in [Sequence -> {NoBuild} \cup Build]
  BY <1>1, <1>3, Zenon DEF PackTypeOK
<1>5. PackTypeOK'
  <2>1. lease' \in LeaseRow
    BY <1>1, PackAssumption DEF NoLease, LeaseRow
  <2> QED BY <1>1, <1>4, <2>1 DEF PackTypeOK, LeaseRow
<1>6. /\ Applied' = Applied /\ \A t : unreconciledPackOperations(t)' <=> unreconciledPackOperations(t)
      /\ \A t \in Sequence : TaskKept(t) /\ (t # s => (Sealed(t)' <=> Sealed(t)))
  <2>1. Applied' = Applied /\ \A t : unreconciledPackOperations(t)' <=> unreconciledPackOperations(t)
    BY <1>1 DEF Applied, unreconciledPackOperations
  <2>2. ASSUME NEW t \in Sequence PROVE TaskKept(t) /\ (t # s => (Sealed(t)' <=> Sealed(t)))
    BY <1>1, <1>2, <1>4, Row DEF TaskKept, Sealed
  <2> QED BY <2>1, <2>2
<1>7. HeadsMove' /\ HeadsOfIntents'
  BY <1>1, <1>6, HeadsStay
<1>8. Mirrored'
  BY <1>1 DEF PackInv, Mirrored
<1>9. ASSUME NEW t \in Sequence PROVE RowsInStep(t)'
  <2>1. RowsInStep(t) /\ AnswerKept(t)'
    BY <1>1 DEF PackInv, RowsInStep, AnswerKept
  <2>2. CASE t # s
    BY <1>1, <1>4, <1>6, <2>1, <2>2 DEF RowsInStep
  <2>3. CASE t = s
    <3>1. s <= mirror.latest /\ ~(s > mirror.latest) /\ mirror.epoch <= mirror.epoch
      BY <1>1 DEF PackTypeOK
    <3>2. Sealed(s)'
      BY <1>3, <1>4 DEF Sealed
    <3> QED BY <1>1, <1>3, <1>4, <2>1, <2>3, <3>1, <3>2 DEF RowsInStep
  <2> QED BY <2>2, <2>3
<1>10. ASSUME NEW t \in Sequence PROVE SealedUnheld(t)'
  <2>1. CASE t # s
    BY <1>1, <1>4, <1>6, <2>1 DEF PackInv, SealedUnheld
  <2>2. CASE t = s
    BY <1>1, <1>3, <1>4, <2>2 DEF PackInv, SealedUnheld, Mirrored
  <2> QED BY <2>1, <2>2
<1>11. ASSUME NEW t \in Sequence PROVE Fate(t)'
  <2>1. CASE t # s
    BY <1>1, <1>4, <1>6, <2>1 DEF PackInv, Fate, Pending, Overtaken
  <2>2. CASE t = s
    BY <1>3, <1>4, <2>2 DEF Fate
  <2> QED BY <2>1, <2>2
<1>12. Unsettled' = {}
  <2>1. Unsettled = {}
    BY <1>1 DEF PackInv, BuildsSettled
  <2>2. ~unreconciledPackOperations(s)
    <3>1. ops[s] = <<>> /\ DOMAIN ops[s] = {}
      BY <1>2 DEF RowsInStep
    <3> QED BY <3>1 DEF unreconciledPackOperations
  <2>3. ASSUME NEW t \in Unsettled' PROVE t \in Unsettled
    BY <1>1, <1>4, <1>6, <2>2 DEF Unsettled
  <2> QED BY <2>1, <2>3
<1>13. NewestUnsettled' /\ BuildsSettled'
  BY <1>12 DEF NewestUnsettled, BuildsSettled
<1>14. Ledger!Emit(s)
  <2>1. intents[s] = NoIntent
    BY <1>2 DEF Sealed
  <2>2. new # NoIntent /\ intents'[s] # NoIntent /\ intents'[s].state # "published" /\ intents[s].state # "published"
    BY <1>3, <1>4, <2>1, NoRow
  <2> QED BY <1>4, <1>6, <2>1, <2>2 DEF Ledger!Emit
<1> QED BY <1>5, <1>7, <1>8, <1>9, <1>10, <1>11, <1>13, <1>14 DEF PackInv

LEMMA SealKeepsInv ==
    ASSUME PackInv, NEW s \in Sequence, NEW st \in Readiness, Seal(s, st)
    PROVE  PackInv' /\ (Quiet \/ Ledger!Emit(s))
<1>1. CASE st = "ready"
  BY <1>1, SealsReady
<1>2. CASE st # "ready"
  <2>1. st \in States \ {"published"} /\ "data" \in Reasons
    BY PackAssumption, ReasonsAre DEF States, Open
  <2>2. /\ builds[s].state \in Unfinished /\ builds' = [builds EXCEPT ![s].state = st, ![s].reason = "data"]
        /\ lease' = NoLease /\ UNCHANGED <<mirror, intents, ops, ledger, roots, heads, operator>>
    BY <1>2, StatesAre DEF Seal, lockLease, store
  <2> QED BY <2>1, <2>2, OneBuildTurns
<1> QED BY <1>1, <1>2

-----------------------------------------------------------------------------
(* Operations are sent and answered; no activation is accepted.            *)

LEMMA AnswersMove ==
    ASSUME PackInv, PackTypeOK', UNCHANGED <<mirror, lease, builds, intents, heads>>, Applied' = Applied,
           \A t \in Sequence : /\ AnswerKept(t)' /\ (~Sealed(t) => ops'[t] = <<>>)
                               /\ intents[t].state = "superseded" /\ Pending(t)' => Pending(t),
           \A t \in Unsettled' : t \in Unsettled \/ (t = mirror.latest /\ lease.kind # "build")
    PROVE  PackInv' /\ Quiet
<1>1. PackTypeOK /\ \A t \in Sequence : Sealed(t)' <=> Sealed(t)
  BY DEF PackInv, Sealed
<1>2. \A t \in Sequence : TaskKept(t)
  BY <1>1, Row DEF TaskKept
<1>3. HeadsMove' /\ HeadsOfIntents'
  BY <1>2, HeadsStay
<1>4. Mirrored'
  BY DEF PackInv, Mirrored
<1>5. ASSUME NEW t \in Sequence PROVE RowsInStep(t)' /\ SealedUnheld(t)' /\ Fate(t)'
  <2>1. RowsInStep(t)'
    BY <1>1 DEF PackInv, RowsInStep
  <2>2. SealedUnheld(t)'
    BY <1>1 DEF PackInv, SealedUnheld
  <2>3. Fate(t)'
    BY DEF PackInv, Fate, Overtaken
  <2> QED BY <2>1, <2>2, <2>3
<1>6. NewestUnsettled'
  <2> SUFFICES ASSUME NEW t \in Unsettled', NEW s \in Sequence, s > t PROVE ~Sealed(s)
    BY <1>1 DEF NewestUnsettled
  <2>1. CASE t \in Unsettled
    BY <2>1 DEF PackInv, NewestUnsettled
  <2>2. CASE t = mirror.latest
    <3>1. s \in Nat /\ mirror.latest \in Nat /\ ~(s <= mirror.latest)
      BY <1>1, <2>2, PackAssumption DEF PackTypeOK, Sequence
    <3> QED BY <3>1, SealedRow
  <2> QED BY <2>1, <2>2
<1>7. BuildsSettled'
  BY DEF PackInv, BuildsSettled
<1>8. Quiet
  BY DEF Quiet, Ledger!ovars
<1> QED BY <1>3, <1>4, <1>5, <1>6, <1>7, <1>8 DEF PackInv

LEMMA NextKinds == \A s : NextKind(s) \subseteq {"start", "batch", "finalize", "activate"}
<1>1. DOMAIN Pipeline = 1 .. 4 /\ \A n \in 1 .. 4 : Pipeline[n] \in {"start", "batch", "finalize", "activate"}
  BY DEF Pipeline
<1> HIDE DEF Pipeline
<1> QED BY <1>1, Zenon DEF NextKind

LEMMA RecordOperationKeepsInv ==
    ASSUME PackInv, NEW s \in Sequence, recordOperation(s)
    PROVE  PackInv' /\ Quiet
<1>1. /\ PackTypeOK /\ UNCHANGED <<mirror, lease, builds, intents, roots, heads, operator>>
      /\ lease.kind = "activation" /\ intents[s].state = "publishing" /\ mirror.latest = s
      /\ ledger' = [ledger EXCEPT ![s] = Append(ledger[s], "none")]
  BY DEF recordOperation, lockLease, PackInv, provider, store
<1>2. PICK k \in {"start", "batch", "finalize", "activate"} :
        ops' = [ops EXCEPT ![s] = Append(ops[s], [kind |-> k, receipt |-> "none"])]
  <2>1. PICK k \in NextKind(s) : ops' = [ops EXCEPT ![s] = Append(ops[s], [kind |-> k, receipt |-> "none"])]
    BY DEF recordOperation
  <2>2. k \in {"start", "batch", "finalize", "activate"}
    BY NextKinds
  <2> QED BY <2>1, <2>2
<1> DEFINE op == [kind |-> k, receipt |-> "none"]
           n == Len(ops[s])
<1>3. op \in Operation /\ op.kind = k /\ op.receipt = "none" /\ "none" \in Outcomes
  BY DEF Operation, Outcomes
<1> HIDE DEF op
<1>4. /\ ops[s] \in Seq(Operation) /\ ledger[s] \in Seq(Outcomes) /\ Len(ledger[s]) = n /\ n \in Nat
      /\ DOMAIN ops[s] = 1 .. n /\ DOMAIN ledger[s] = 1 .. n
  BY <1>1 DEF PackTypeOK
<1>5. /\ Append(ops[s], op) \in Seq(Operation) /\ Len(Append(ops[s], op)) = n + 1
      /\ \A i \in 1 .. n : Append(ops[s], op)[i] = ops[s][i]
      /\ Append(ops[s], op)[n + 1] = op /\ DOMAIN Append(ops[s], op) = 1 .. (n + 1)
  BY <1>3, <1>4, AppendProperties
<1>6. /\ Append(ledger[s], "none") \in Seq(Outcomes) /\ Len(Append(ledger[s], "none")) = n + 1
      /\ \A i \in 1 .. n : Append(ledger[s], "none")[i] = ledger[s][i]
      /\ Append(ledger[s], "none")[n + 1] = "none" /\ DOMAIN Append(ledger[s], "none") = 1 .. (n + 1)
  BY <1>3, <1>4, AppendProperties
<1>7. /\ ops'[s] = Append(ops[s], op) /\ ledger'[s] = Append(ledger[s], "none")
      /\ \A t \in Sequence \ {s} : ops'[t] = ops[t] /\ ledger'[t] = ledger[t]
      /\ ops' \in [Sequence -> Seq(Operation)] /\ ledger' \in [Sequence -> Seq(Outcomes)]
  BY <1>1, <1>2, <1>5, <1>6, Zenon DEF PackTypeOK, op
<1>8. PackTypeOK'
  <2>1. \A t \in Sequence : Len(ops'[t]) = Len(ledger'[t])
    BY <1>1, <1>5, <1>6, <1>7 DEF PackTypeOK
  <2> QED BY <1>1, <1>7, <2>1 DEF PackTypeOK
<1>9. 1 .. (n + 1) = (1 .. n) \cup {n + 1} /\ n + 1 \notin 1 .. n
  BY <1>4
<1>10. Applied' = Applied
  <2>1. ASSUME NEW t \in Sequence
        PROVE  (\E i \in DOMAIN ledger'[t] : ops'[t][i].kind = "activate" /\ ledger'[t][i] \in Success)
                 <=> \E i \in DOMAIN ledger[t] : ops[t][i].kind = "activate" /\ ledger[t][i] \in Success
    <3>1. CASE t # s
      BY <1>7, <3>1
    <3>2. CASE t = s
      <4>1. "none" \notin Success
        BY DEF Success
      <4>2. /\ DOMAIN ledger'[s] = (1 .. n) \cup {n + 1} /\ ledger'[s][n + 1] = "none" /\ DOMAIN ledger[s] = 1 .. n
            /\ \A i \in 1 .. n : ops'[s][i] = ops[s][i] /\ ledger'[s][i] = ledger[s][i]
        BY <1>4, <1>5, <1>6, <1>7, <1>9
      <4> QED BY <3>2, <4>1, <4>2, Zenon
    <3> QED BY <3>1, <3>2
  <2> QED BY <2>1 DEF Applied
<1>11. ASSUME NEW t \in Sequence
       PROVE  /\ AnswerKept(t)' /\ (~Sealed(t) => ops'[t] = <<>>)
              /\ intents[t].state = "superseded" /\ Pending(t)' => Pending(t)
  <2>1. RowsInStep(t) /\ (intents[t].state = "publishing" => Sealed(t))
    BY NoRow DEF PackInv, Sealed
  <2>2. CASE t # s
    BY <1>7, <2>1, <2>2 DEF RowsInStep, AnswerKept, Pending
  <2>3. CASE t = s
    <3>1. AnswerKept(s)'
      BY <1>3, <1>4, <1>5, <1>6, <1>7, <1>9, <2>1, <2>3 DEF RowsInStep, AnswerKept
    <3> QED BY <1>1, <2>1, <2>3, <3>1
  <2> QED BY <2>2, <2>3
<1>12. \A t \in Unsettled' : t \in Unsettled \/ (t = mirror.latest /\ lease.kind # "build")
  <2>1. ASSUME NEW t \in Sequence, t # s PROVE unreconciledPackOperations(t)' <=> unreconciledPackOperations(t)
    BY <1>7, <2>1 DEF unreconciledPackOperations
  <2> QED BY <1>1, <2>1 DEF Unsettled
<1> QED BY <1>1, <1>8, <1>10, <1>11, <1>12, AnswersMove

LEMMA RecordReceiptKeepsInv ==
    ASSUME PackInv, NEW s \in Sequence, NEW i \in DOMAIN ops[s], recordReceipt(s, i)
    PROVE  PackInv' /\ Quiet
<1>1. /\ PackTypeOK /\ UNCHANGED <<mirror, lease, builds, intents, ledger, roots, heads, operator>>
      /\ ops[s][i].receipt = "none" /\ ledger[s][i] # "none"
  BY DEF recordReceipt, PackInv, provider, store
<1>2. PICK r \in {ledger[s][i], "operation_expired"} : ops' = [ops EXCEPT ![s][i].receipt = r]
  BY DEF recordReceipt
<1>3. ops[s] \in Seq(Operation) /\ ops[s][i] \in Operation /\ ledger[s][i] \in Outcomes
  BY <1>1, Row
<1> DEFINE op == [ops[s][i] EXCEPT !.receipt = r]
           list == [ops[s] EXCEPT ![i] = op]
<1>4. op \in Operation /\ op.kind = ops[s][i].kind /\ op.receipt = r
  BY <1>3 DEF Operation
<1>5. ops' = [ops EXCEPT ![s] = list]
  BY <1>2
<1> HIDE DEF op
<1>6. /\ list \in Seq(Operation) /\ Len(list) = Len(ops[s]) /\ DOMAIN list = DOMAIN ops[s]
      /\ list[i] = op /\ \A j \in DOMAIN ops[s] \ {i} : list[j] = ops[s][j]
  BY <1>3, <1>4, ExceptSeq
<1> HIDE DEF list
<1>7. /\ ops'[s] = list /\ \A t \in Sequence \ {s} : ops'[t] = ops[t]
      /\ ops' \in [Sequence -> Seq(Operation)]
  BY <1>1, <1>5, <1>6, Zenon DEF PackTypeOK
<1>8. PackTypeOK'
  <2>1. \A t \in Sequence : Len(ops'[t]) = Len(ledger'[t])
    BY <1>1, <1>6, <1>7 DEF PackTypeOK
  <2> QED BY <1>1, <1>7, <2>1 DEF PackTypeOK
<1>9. \A t \in Sequence : /\ DOMAIN ops'[t] = DOMAIN ops[t] /\ DOMAIN ops[t] = DOMAIN ledger[t]
                          /\ \A j \in DOMAIN ops[t] : ops'[t][j].kind = ops[t][j].kind
  BY <1>1, <1>4, <1>6, <1>7, Row
<1>10. Applied' = Applied
  BY <1>1, <1>9 DEF Applied
<1>11. ASSUME NEW t \in Sequence
       PROVE  /\ AnswerKept(t)' /\ (~Sealed(t) => ops'[t] = <<>>)
              /\ Pending(t)' => Pending(t)
  <2>1. RowsInStep(t)
    BY DEF PackInv
  <2>2. AnswerKept(t)'
    <3>1. CASE t # s
      BY <1>1, <1>7, <2>1, <3>1 DEF RowsInStep, AnswerKept
    <3>2. CASE t = s
      BY <1>1, <1>4, <1>6, <1>7, <2>1, <3>2 DEF RowsInStep, AnswerKept
    <3> QED BY <3>1, <3>2
  <2>3. ~Sealed(t) => ops'[t] = <<>>
    <3>1. CASE t # s
      BY <1>7, <2>1, <3>1 DEF RowsInStep
    <3>2. CASE t = s
      <4>1. DOMAIN ops[s] # {}
        OBVIOUS
      <4> QED BY <2>1, <3>2, <4>1 DEF RowsInStep
    <3> QED BY <3>1, <3>2
  <2>4. Pending(t)' => Pending(t)
    BY <1>1, <1>9 DEF Pending
  <2> QED BY <2>2, <2>3, <2>4
<1>12. \A t \in Unsettled' : t \in Unsettled
  <2>1. unreconciledPackOperations(s)
    BY <1>1 DEF unreconciledPackOperations
  <2>2. ASSUME NEW t \in Sequence, t # s PROVE unreconciledPackOperations(t)' <=> unreconciledPackOperations(t)
    BY <1>7, <2>2 DEF unreconciledPackOperations
  <2> QED BY <1>1, <2>1, <2>2 DEF Unsettled
<1> QED BY <1>1, <1>8, <1>10, <1>11, <1>12, AnswersMove
-----------------------------------------------------------------------------
(* The public head is mirrored.                                            *)

\* The head a step reads is a row.
LEMMA HeadRead ==
    ASSUME PackTypeOK, NEW h \in DOMAIN heads
    PROVE  /\ heads[h] \in HeadRow /\ h \in Nat
           /\ heads[h].epoch \in Nat /\ heads[h].generation \in Nat /\ heads[h].sequence \in Sequence
           /\ heads[h].sequence \in Nat \ {0} /\ heads[h].held \in BOOLEAN
           /\ mirror.epoch \in Nat /\ mirror.generation \in Nat /\ mirror.accepted \in Nat /\ mirror.latest \in Nat
<1>1. heads \in Seq(HeadRow) /\ DOMAIN heads = 1 .. Len(heads)
  BY DEF PackTypeOK
<1>2. heads[h] \in HeadRow /\ h \in Nat
  BY <1>1, ElementOfSeq
<1>3. heads[h].epoch \in Nat /\ heads[h].generation \in Nat /\ heads[h].sequence \in Sequence /\ heads[h].held \in BOOLEAN
  BY <1>2 DEF HeadRow
<1>4. heads[h].sequence \in Nat \ {0}
  BY <1>3, PackAssumption DEF Sequence
<1>5. mirror.epoch \in Nat /\ mirror.generation \in Nat /\ mirror.accepted \in Nat /\ mirror.latest \in Nat
  BY PackAssumption DEF PackTypeOK
<1> QED BY <1>2, <1>3, <1>4, <1>5

\* A head that is ahead of the mirror in its epoch is the unsettled intent's.
LEMMA AheadIsUnsettled ==
    ASSUME PackInv, NEW h \in DOMAIN heads, heads[h].epoch = mirror.epoch, ~mirror.held,
           heads[h].sequence > mirror.accepted
    PROVE  heads[h].sequence \in Unsettled
<1> DEFINE q == heads[h].sequence
<1>1. PackTypeOK /\ q \in Applied /\ q \in Sequence /\ Sealed(q) /\ unreconciledPackOperations(q)
  BY AppliedIsSent DEF PackInv, HeadsOfIntents
<1>2. intents[q].expected.epoch = mirror.epoch
  <2>1. CASE mirror.epoch = 0
    BY <1>1, <2>1, SealedRow
  <2>2. ASSUME NEW m \in DOMAIN heads, mirror.epoch = heads[m].epoch, mirror.accepted = heads[m].sequence,
               mirror.held = heads[m].held
        PROVE  intents[q].expected.epoch = mirror.epoch
    <3>1. heads[m].epoch = heads[h].epoch /\ ~heads[m].held /\ heads[m].sequence < heads[h].sequence
      BY <1>1, <2>2, HeadRead
    <3> QED BY <3>1 DEF PackInv, HeadsOfIntents
  <2> QED BY <2>1, <2>2 DEF PackInv, Mirrored
<1>3. intents[q].state \in Unfinished
  <2>1. intents[q].state \in States /\ Fate(q) /\ ~(q <= mirror.accepted) /\ mirror.epoch \in Nat
    BY <1>1, SealedRow, HeadRead DEF PackInv
  <2>2. intents[q].state # "published"
    BY <2>1 DEF Fate
  <2>3. intents[q].state # "superseded"
    BY <1>1, <1>2, <2>1 DEF Fate
  <2> QED BY <2>1, <2>2, <2>3, StatesAre
<1> QED BY <1>1, <1>2, <1>3 DEF Unsettled, Unfinished

LEMMA OneUnsettled ==
    ASSUME PackInv, NEW q \in Unsettled, NEW t \in Unsettled
    PROVE  t = q
<1>1. q \in Sequence /\ t \in Sequence /\ q \in Nat /\ t \in Nat /\ Sealed(q) /\ Sealed(t)
  BY PackAssumption, NoRow, StatesAre DEF Unsettled, Sealed, Sequence, Unfinished
<1>2. ~(t > q) /\ ~(q > t)
  BY <1>1 DEF PackInv, NewestUnsettled
<1> QED BY <1>1, <1>2

\* What the mirror shows has been sealed.
LEMMA AcceptedIsSealed ==
    ASSUME PackInv
    PROVE  mirror.accepted = 0 \/ (mirror.accepted \in Applied /\ mirror.accepted \in Sequence /\ Sealed(mirror.accepted))
<1>1. mirror.accepted = 0 \/ mirror.accepted \in Applied
  BY DEF PackInv, Mirrored, HeadsOfIntents
<1> QED BY <1>1, AppliedIsSent

LEMMA MirrorMoves ==
    ASSUME PackInv, PackTypeOK', UNCHANGED <<ops, ledger, heads>>, lease' = NoLease, NEW h \in DOMAIN heads,
           mirror' = [mirror EXCEPT !.generation = heads[h].generation, !.epoch = heads[h].epoch, !.held = heads[h].held,
                                    !.accepted = heads[h].sequence, !.active = heads[h].active],
           mirror.epoch <= heads[h].epoch,
           \A t \in Sequence : /\ TaskKept(t) /\ (Sealed(t)' <=> Sealed(t)) /\ BuildMoves(t) /\ Fate(t)'
                               /\ Sealed(t) /\ intents[t].expected.epoch = heads[h].epoch => ~heads[h].held,
           Unsettled' \subseteq Unsettled
    PROVE  PackInv'
<1>1. /\ PackTypeOK
      /\ mirror'.generation = heads[h].generation /\ mirror'.epoch = heads[h].epoch /\ mirror'.held = heads[h].held
      /\ mirror'.accepted = heads[h].sequence /\ mirror'.latest = mirror.latest
      /\ mirror.epoch \in Nat /\ heads[h].epoch \in Nat
  <2>1. PackTypeOK
    BY DEF PackInv
  <2>2. mirror \in [latest : 0 .. MaxSequence, accepted : 0 .. MaxSequence, epoch : Nat, generation : Nat,
                    held : BOOLEAN, active : Snapshot \cup {None}]
    BY <2>1 DEF PackTypeOK
  <2> QED BY <2>1, <2>2, HeadRead
<1>2. Applied' = Applied /\ \A t : unreconciledPackOperations(t)' <=> unreconciledPackOperations(t)
  BY DEF Applied, unreconciledPackOperations
<1>3. HeadsMove' /\ HeadsOfIntents'
  BY <1>2, HeadsStay
<1>4. Mirrored'
  BY <1>1 DEF Mirrored
<1>5. ASSUME NEW t \in Sequence PROVE RowsInStep(t)'
  <2>1. RowsInStep(t) /\ AnswerKept(t)' /\ (~Sealed(t)' => ops'[t] = <<>>)
    BY DEF PackInv, RowsInStep, AnswerKept
  <2>2. Sealed(t) => intents'[t].expected = intents[t].expected
    BY DEF TaskKept
  <2>3. /\ builds'[t].state = "published" <=> builds[t].state = "published"
        /\ builds'[t] = NoBuild <=> builds[t] = NoBuild
        /\ builds[t] # NoBuild => builds'[t].epoch = builds[t].epoch
    BY NoRow DEF BuildMoves
  <2>4. Sealed(t) => builds[t] # NoBuild
    BY <2>1, NoRow DEF RowsInStep
  <2>5. builds[t] # NoBuild => builds[t].epoch \in Nat
    BY <1>1, Row DEF Build
  <2>6. t <= mirror.latest => builds[t].epoch <= mirror'.epoch
    BY <1>1, <2>1, <2>5 DEF RowsInStep
  <2> QED BY <1>1, <2>1, <2>2, <2>3, <2>4, <2>6 DEF RowsInStep
<1>6. ASSUME NEW t \in Sequence PROVE SealedUnheld(t)'
  <2>1. SealedUnheld(t) /\ (Sealed(t) => intents'[t].expected = intents[t].expected)
    BY DEF PackInv, TaskKept
  <2> QED BY <1>1, <2>1 DEF SealedUnheld
<1>7. NewestUnsettled' /\ BuildsSettled'
  BY DEF PackInv, NewestUnsettled, BuildsSettled, NoLease
<1> QED BY <1>3, <1>4, <1>5, <1>6, <1>7 DEF PackInv

LEMMA CompleteKeepsInv ==
    ASSUME PackInv, NEW s \in Sequence, NEW i \in DOMAIN ops[s], NEW h \in DOMAIN heads, complete(s, i, h)
    PROVE  PackInv' /\ Ledger!Acknowledge(s)
<1>1. /\ PackTypeOK /\ UNCHANGED <<builds, ops, ledger, roots, heads, operator>> /\ lease' = NoLease
      /\ intents[s].state = "publishing" /\ ops[s][i].kind = "activate" /\ ops[s][i].receipt \in Success
      /\ heads[h].sequence = s /\ heads[h].epoch = intents[s].expected.epoch /\ heads[h].epoch >= mirror.epoch
      /\ intents' = [intents EXCEPT ![s].state = "published"]
      /\ mirror' = [mirror EXCEPT !.generation = heads[h].generation, !.epoch = heads[h].epoch, !.held = heads[h].held,
                                  !.accepted = heads[h].sequence, !.active = heads[h].active]
  BY DEF complete, lockLease, PackInv, store
<1>2. heads[h] \in HeadRow /\ heads[h].epoch \in Nat /\ mirror.epoch \in Nat /\ mirror.accepted \in Nat /\ s \in Nat
  BY <1>1, HeadRead
<1>3. Sealed(s) /\ intents[s] \in Intent
  BY <1>1, Row, StatesAre
<1>4. heads[h].epoch = mirror.epoch /\ intents[s].expected.epoch = mirror.epoch
  BY <1>1, <1>2, <1>3, SealedRow
<1>5. s \in Applied
  <2>1. RowsInStep(s) /\ i \in DOMAIN ledger[s]
    BY <1>1, Row DEF PackInv
  <2>2. ledger[s][i] \in Success
    BY <1>1, <2>1 DEF RowsInStep, AnswerKept, Success
  <2> QED BY <1>1, <2>1, <2>2 DEF Applied
<1>6. s \in Unsettled
  BY <1>1, <1>4, <1>5, AppliedIsSent DEF Unsettled, Open
<1>7. mirror.accepted <= s
  <2>1. CASE mirror.accepted = 0
    BY <1>2, <2>1
  <2>2. CASE mirror.accepted \in Sequence /\ Sealed(mirror.accepted)
    BY <1>2, <1>6, <2>2 DEF PackInv, NewestUnsettled
  <2> QED BY <2>1, <2>2, AcceptedIsSealed
<1>8. /\ intents'[s] = Turned(intents[s], "published") /\ \A t \in Sequence \ {s} : intents'[t] = intents[t]
      /\ intents \in [Sequence -> {NoIntent} \cup Intent]
  BY <1>1, Zenon DEF PackTypeOK, Turned
<1>9. /\ Turned(intents[s], "published") \in Intent /\ Turned(intents[s], "published").state = "published"
      /\ Turned(intents[s], "published").snap = intents[s].snap
      /\ Turned(intents[s], "published").expected = intents[s].expected
  <2>1. "published" \in States
    BY StatesAre
  <2> QED BY <1>3, <2>1, TurnedIntent
<1>10. PackTypeOK'
  <2>1. intents' \in [Sequence -> {NoIntent} \cup Intent]
    BY <1>1, <1>8, <1>9, Zenon DEF Turned
  <2>2. lease' \in LeaseRow
    BY <1>1, PackAssumption DEF NoLease, LeaseRow
  <2>3. mirror' \in [latest : 0 .. MaxSequence, accepted : 0 .. MaxSequence, epoch : Nat, generation : Nat,
                     held : BOOLEAN, active : Snapshot \cup {None}]
    <3>1. heads[h].generation \in Nat /\ heads[h].held \in BOOLEAN /\ heads[h].sequence \in 0 .. MaxSequence
          /\ heads[h].active \in Snapshot \cup {None}
      BY <1>2, PackAssumption DEF HeadRow, Sequence
    <3> QED BY <1>1, <1>2, <3>1, Zenon DEF PackTypeOK
  <2> QED BY <1>1, <2>1, <2>2, <2>3 DEF PackTypeOK, LeaseRow
<1>11. ASSUME NEW t \in Sequence
       PROVE  TaskKept(t) /\ (Sealed(t)' <=> Sealed(t)) /\ BuildMoves(t)
  <2>1. CASE t = s
    BY <1>1, <1>3, <1>8, <1>9, <2>1, NoRow DEF TaskKept, Sealed, BuildMoves
  <2>2. CASE t # s
    BY <1>1, <1>8, <2>2, Row DEF TaskKept, Sealed, BuildMoves
  <2> QED BY <2>1, <2>2
<1>12. /\ mirror'.accepted = s /\ mirror'.epoch = mirror.epoch
       /\ Applied' = Applied /\ \A t \in Sequence : Pending(t)' = Pending(t)
       /\ \A t : unreconciledPackOperations(t)' <=> unreconciledPackOperations(t)
  <2>1. mirror'.accepted = s /\ mirror'.epoch = mirror.epoch
    BY <1>1, <1>4 DEF PackTypeOK
  <2>2. Applied' = Applied /\ \A t \in Sequence : Pending(t)' = Pending(t)
    BY <1>1 DEF Applied, Pending
  <2>3. \A t : unreconciledPackOperations(t)' <=> unreconciledPackOperations(t)
    BY <1>1 DEF unreconciledPackOperations
  <2> QED BY <2>1, <2>2, <2>3
<1>13. ASSUME NEW t \in Sequence PROVE Fate(t)'
  <2>1. CASE t = s
    BY <1>2, <1>5, <1>8, <1>9, <1>12, <2>1 DEF Fate
  <2>2. CASE t # s
    <3>1. t \in Nat /\ Fate(t) /\ intents'[t] = intents[t]
      BY <1>8, <2>2, PackAssumption DEF PackInv, Sequence
    <3>2. Overtaken(t)' <=> Overtaken(t)
      BY <1>1, <3>1 DEF Overtaken
    <3> QED BY <1>2, <1>7, <1>12, <3>1, <3>2 DEF Fate
  <2> QED BY <2>1, <2>2
<1>14. ASSUME NEW t \in Sequence, Sealed(t), intents[t].expected.epoch = heads[h].epoch PROVE ~heads[h].held
  BY <1>1 DEF PackInv, HeadsOfIntents
<1>15. Unsettled' \subseteq Unsettled
  <2> SUFFICES ASSUME NEW t \in Unsettled' PROVE t \in Unsettled
    OBVIOUS
  <2>1. t # s
    BY <1>8, <1>9 DEF Unsettled, Open
  <2> QED BY <1>8, <1>12, <2>1 DEF Unsettled
<1>16. mirror.epoch <= heads[h].epoch
  BY <1>2, <1>4
<1>17. Ledger!Acknowledge(s)
  <2>1. \A t \in Sequence : intents'[t] # NoIntent <=> intents[t] # NoIntent
    BY <1>11 DEF Sealed
  <2>2. intents'[s].state = "published" /\ \A t \in Sequence \ {s} : intents'[t] = intents[t]
    BY <1>8, <1>9
  <2> QED BY <1>5, <1>12, <2>1, <2>2 DEF Ledger!Acknowledge
<1> QED BY <1>1, <1>10, <1>11, <1>13, <1>14, <1>15, <1>16, <1>17, MirrorMoves

\* A read of the mirrored epoch that is worth mirroring is the unsettled
\* intent's head, and not held.
LEMMA SameEpochRead ==
    ASSUME PackInv, NEW h \in DOMAIN heads, Observable(heads[h]), heads[h].epoch = mirror.epoch, ~mirror.held
    PROVE  ~heads[h].held /\ heads[h].sequence \in Unsettled
<1>1. /\ heads[h].generation \in Nat /\ heads[h].sequence \in Nat \ {0} /\ heads[h].held \in BOOLEAN
      /\ mirror.generation \in Nat /\ mirror.accepted \in Nat /\ h \in Nat /\ mirror.held \in BOOLEAN
      /\ heads[h].epoch \in Nat
  BY HeadRead DEF PackInv, PackTypeOK
<1>2. /\ heads[h].generation >= mirror.generation /\ heads[h].sequence >= mirror.accepted
      /\ heads[h].generation = mirror.generation => /\ ~heads[h].held
                                                    /\ ~(mirror.held = heads[h].held /\ mirror.accepted = heads[h].sequence)
  BY DEF Observable
<1>3. CASE mirror.epoch = 0 /\ mirror.accepted = 0
  <2>1. ~heads[h].held
    BY <1>1, <1>3 DEF PackInv, HeadsMove
  <2> QED BY <1>1, <1>3, <2>1, AheadIsUnsettled
<1>4. ASSUME NEW m \in DOMAIN heads, mirror.epoch = heads[m].epoch, mirror.generation = heads[m].generation,
             mirror.accepted = heads[m].sequence, mirror.held = heads[m].held
      PROVE  ~heads[h].held /\ heads[h].sequence \in Unsettled
  <2>1. m \in Nat
    BY HeadRead DEF PackInv
  <2>2. ~heads[h].held
    <3>1. CASE m <= h
      BY <1>4, <3>1 DEF PackInv, HeadsMove
    <3>2. CASE h <= m
      <4>1. heads[h].generation <= heads[m].generation
        BY <3>2 DEF PackInv, HeadsMove
      <4>2. heads[h].generation = mirror.generation
        BY <1>1, <1>2, <1>4, <4>1
      <4> QED BY <1>2, <4>2
    <3> QED BY <1>1, <2>1, <3>1, <3>2
  <2>3. heads[h].sequence > mirror.accepted
    <3>1. CASE heads[h].generation = mirror.generation
      <4>1. mirror.accepted # heads[h].sequence
        BY <1>1, <1>2, <2>2, <3>1
      <4> QED BY <1>1, <1>2, <4>1
    <3>2. CASE heads[h].generation # mirror.generation
      <4>1. heads[m].generation < heads[h].generation
        BY <1>1, <1>2, <1>4, <3>2
      <4>2. heads[m].sequence < heads[h].sequence
        BY <1>4, <4>1 DEF PackInv, HeadsMove
      <4> QED BY <1>1, <1>4, <4>2
    <3> QED BY <3>1, <3>2
  <2> QED BY <2>2, <2>3, AheadIsUnsettled
<1> QED BY <1>3, <1>4 DEF PackInv, Mirrored

LEMMA ObserveHeadKeepsInv ==
    ASSUME PackInv, NEW h \in DOMAIN heads, observeHead(h)
    PROVE  PackInv' /\ Quiet
<1> DEFINE head == heads[h]
           exact(t) == intents[t].snap = head.active /\ t = head.sequence /\ intents[t].expected.epoch = head.epoch
           made(t) == \/ builds[t].epoch # head.epoch
                      \/ builds[t].desire.base \notin {None, head.active}
<1>1. /\ PackTypeOK /\ UNCHANGED <<ops, ledger, roots, heads, operator>> /\ lease' = NoLease
      /\ Observable(heads[h]) /\ heads[h].epoch >= mirror.epoch /\ heads[h].sequence >= mirror.accepted
      /\ intents' = [t \in Sequence |-> IF intents[t].state \in Open /\ ~exact(t)
                                        THEN Turned(intents[t], "superseded") ELSE intents[t]]
      /\ builds' = [t \in Sequence |-> IF builds[t].state \in Open /\ made(t)
                                       THEN TurnedFor(builds[t], "superseded", "other") ELSE builds[t]]
      /\ mirror' = [mirror EXCEPT !.generation = heads[h].generation, !.epoch = heads[h].epoch, !.held = heads[h].held,
                                  !.accepted = heads[h].sequence, !.active = heads[h].active]
  BY DEF observeHead, Observable, PackInv, store, Turned, TurnedFor
<1> HIDE DEF made
<1>2. heads[h] \in HeadRow /\ heads[h].epoch \in Nat /\ mirror.epoch \in Nat /\ mirror.accepted \in Nat
      /\ heads[h].sequence \in Nat
  BY <1>1, HeadRead
<1>3. ASSUME NEW t \in Sequence PROVE BuildMoves(t)
  <2>1. CASE builds[t].state \in Open /\ made(t)
    <3>1. builds'[t] = TurnedFor(builds[t], "superseded", "other")
      BY <1>1, <2>1, Zenon
    <3>2. builds[t].state \in Unfinished /\ "superseded" \in States \ {"published"}
      BY <2>1, StatesAre
    <3>3. PackTypeOK /\ \E r \in Reasons : builds'[t] = TurnedFor(builds[t], "superseded", r)
      BY <1>1, <3>1, ReasonsAre
    <3> QED BY <3>2, <3>3, BuildTurns
  <2>2. CASE ~(builds[t].state \in Open /\ made(t))
    <3>1. builds'[t] = builds[t]
      BY <1>1, <2>2, Zenon
    <3> QED BY <3>1 DEF BuildMoves
  <2> QED BY <2>1, <2>2
<1>4. ASSUME NEW t \in Sequence
      PROVE  /\ TaskKept(t) /\ (Sealed(t)' <=> Sealed(t)) /\ intents'[t] \in {NoIntent} \cup Intent
             /\ \/ intents'[t] = intents[t]
                \/ intents[t].state \in Open /\ ~exact(t) /\ intents'[t].state = "superseded"
  <2>1. CASE intents[t].state \in Open /\ ~exact(t)
    <3>1. intents'[t] = Turned(intents[t], "superseded")
      BY <1>1, <2>1, Zenon
    <3>2. intents[t] \in Intent /\ "superseded" \in States
      BY <1>1, <2>1, Row, StatesAre
    <3>3. /\ Turned(intents[t], "superseded") \in Intent /\ Turned(intents[t], "superseded").state = "superseded"
          /\ Turned(intents[t], "superseded").snap = intents[t].snap
          /\ Turned(intents[t], "superseded").expected = intents[t].expected
      BY <3>2, TurnedIntent
    <3> HIDE DEF exact
    <3> QED BY <2>1, <3>1, <3>2, <3>3, NoRow DEF TaskKept, Sealed
  <2>2. CASE ~(intents[t].state \in Open /\ ~exact(t))
    <3>1. intents'[t] = intents[t]
      BY <1>1, <2>2, Zenon
    <3> QED BY <1>1, <3>1, Row DEF TaskKept, Sealed
  <2> QED BY <2>1, <2>2
<1>5. PackTypeOK'
  <2>1. intents' \in [Sequence -> {NoIntent} \cup Intent]
    <3>1. intents' = [t \in Sequence |-> intents'[t]]
      BY <1>1, Zenon
    <3> QED BY <1>4, <3>1, Zenon
  <2>2. lease' \in LeaseRow
    BY <1>1, PackAssumption DEF NoLease, LeaseRow
  <2>3. mirror' \in [latest : 0 .. MaxSequence, accepted : 0 .. MaxSequence, epoch : Nat, generation : Nat,
                     held : BOOLEAN, active : Snapshot \cup {None}]
    <3>1. heads[h].generation \in Nat /\ heads[h].held \in BOOLEAN /\ heads[h].sequence \in 0 .. MaxSequence
          /\ heads[h].active \in Snapshot \cup {None}
      BY <1>2, PackAssumption DEF HeadRow, Sequence
    <3> QED BY <1>1, <1>2, <3>1, Zenon DEF PackTypeOK
  <2>4. builds' \in [Sequence -> {NoBuild} \cup Build]
    <3>1. builds' = [t \in Sequence |-> builds'[t]]
      BY <1>1, Zenon
    <3>2. \A t \in Sequence : builds'[t] \in {NoBuild} \cup Build
      BY <1>1, <1>3, Row DEF BuildMoves
    <3> QED BY <3>1, <3>2, Zenon
  <2> QED BY <1>1, <2>1, <2>2, <2>3, <2>4 DEF PackTypeOK, LeaseRow
<1>6. /\ mirror'.accepted = heads[h].sequence /\ mirror'.epoch = heads[h].epoch
      /\ Applied' = Applied /\ \A t \in Sequence : Pending(t)' = Pending(t)
      /\ \A t : unreconciledPackOperations(t)' <=> unreconciledPackOperations(t)
  <2>1. mirror'.accepted = heads[h].sequence /\ mirror'.epoch = heads[h].epoch
    BY <1>1 DEF PackTypeOK
  <2>2. Applied' = Applied /\ \A t \in Sequence : Pending(t)' = Pending(t)
    BY <1>1 DEF Applied, Pending
  <2>3. \A t : unreconciledPackOperations(t)' <=> unreconciledPackOperations(t)
    BY <1>1 DEF unreconciledPackOperations
  <2> QED BY <2>1, <2>2, <2>3
\* Whom the observation supersedes was overtaken, or has nothing under way.
<1>7. ASSUME NEW t \in Sequence, intents[t].state \in Open, ~exact(t)
      PROVE  \/ intents[t].expected.epoch < heads[h].epoch
             \/ intents[t].expected.epoch = heads[h].epoch /\ ~unreconciledPackOperations(t)
  <2>1. Sealed(t) /\ intents[t].expected.epoch \in Nat /\ intents[t].expected.epoch <= mirror.epoch
    <3>1. Sealed(t)
      BY <1>1, <1>7, Row, StatesAre
    <3> QED BY <3>1, SealedRow
  <2>2. CASE intents[t].expected.epoch # heads[h].epoch
    BY <1>1, <1>2, <2>1, <2>2
  <2>3. CASE intents[t].expected.epoch = heads[h].epoch
    <3>1. heads[h].epoch = mirror.epoch /\ ~mirror.held
      BY <1>1, <1>2, <2>1, <2>3 DEF PackInv, SealedUnheld
    <3>2. heads[h].sequence \in Unsettled
      BY <1>1, <3>1, SameEpochRead
    <3>3. t \notin Unsettled
      <4>1. ASSUME t = heads[h].sequence PROVE FALSE
        BY <1>7, <2>3, <4>1 DEF PackInv, HeadsOfIntents
      <4> QED BY <3>2, <4>1, OneUnsettled
    <3> QED BY <1>7, <2>3, <3>1, <3>3 DEF Unsettled
  <2> QED BY <2>2, <2>3
<1>8. ASSUME NEW t \in Sequence PROVE Fate(t)'
  <2>1. Fate(t) /\ t \in Nat /\ (Sealed(t) => intents'[t].expected = intents[t].expected)
    BY <1>4, PackAssumption DEF PackInv, TaskKept, Sequence
  <2>2. CASE intents'[t] = intents[t]
    <3>1. Overtaken(t)' <=> Overtaken(t)
      BY <1>1, <2>2 DEF Overtaken
    <3>2. t \in Applied => intents[t].expected.epoch \in Nat
      BY AppliedIsSent, SealedRow
    <3> QED BY <1>1, <1>2, <1>6, <2>1, <2>2, <3>1, <3>2 DEF Fate
  <2>3. CASE intents[t].state \in Open /\ ~exact(t) /\ intents'[t].state = "superseded"
    <3>1. Sealed(t)
      BY <1>1, <2>3, Row, StatesAre
    <3>2. t \in Applied => unreconciledPackOperations(t)
      BY AppliedIsSent
    <3>3. Pending(t) => unreconciledPackOperations(t)
      <4>1. RowsInStep(t) /\ DOMAIN ops[t] = DOMAIN ledger[t]
        BY <1>1, Row DEF PackInv
      <4> QED BY <4>1 DEF Pending, unreconciledPackOperations, RowsInStep, AnswerKept
    <3>4. unreconciledPackOperations(t) => intents[t].expected.epoch < heads[h].epoch
      <4> HIDE DEF exact
      <4> QED BY <1>7, <2>3
    <3>5. intents[t].expected.epoch < heads[h].epoch => Overtaken(t)'
      <4>1. intents[t].expected.epoch \in Nat
        BY <3>1, SealedRow
      <4> QED BY <1>1, <1>2, <2>1, <3>1, <4>1 DEF Overtaken
    <3> QED BY <1>6, <2>1, <2>3, <3>1, <3>2, <3>3, <3>4, <3>5 DEF Fate
  <2> QED BY <1>4, <2>2, <2>3
<1>9. ASSUME NEW t \in Sequence, Sealed(t), intents[t].expected.epoch = heads[h].epoch PROVE ~heads[h].held
  <2>1. heads[h].epoch = mirror.epoch
    BY <1>1, <1>2, <1>9, SealedRow
  <2>2. ~mirror.held
    BY <1>9, <2>1 DEF PackInv, SealedUnheld
  <2> QED BY <1>1, <2>1, <2>2, SameEpochRead
<1>10. Unsettled' \subseteq Unsettled
  <2> SUFFICES ASSUME NEW t \in Unsettled' PROVE t \in Unsettled
    OBVIOUS
  <2>1. t \in Sequence /\ intents'[t].state \in Unfinished /\ intents'[t].expected.epoch = heads[h].epoch
        /\ unreconciledPackOperations(t)
    BY <1>6 DEF Unsettled, Unfinished
  <2>2. intents'[t] = intents[t]
    BY <1>4, <2>1, StatesAre
  <2>3. Sealed(t)
    BY <1>1, <2>1, <2>2, Row, StatesAre
  <2>4. intents[t].expected.epoch = mirror.epoch
    BY <1>1, <1>2, <2>1, <2>2, <2>3, SealedRow
  <2> QED BY <2>1, <2>2, <2>4 DEF Unsettled, Unfinished
<1>11. mirror.epoch <= heads[h].epoch
  BY <1>1, <1>2
<1>12. Quiet
  <2>1. ASSUME NEW t \in Sequence
        PROVE  /\ intents'[t] # NoIntent <=> intents[t] # NoIntent
               /\ intents'[t].state = "published" <=> intents[t].state = "published"
    <3>1. Sealed(t)' <=> Sealed(t)
      BY <1>4
    <3>2. intents'[t].state = "published" <=> intents[t].state = "published"
      BY <1>4, StatesAre
    <3> QED BY <3>1, <3>2 DEF Sealed
  <2> QED BY <1>6, <2>1 DEF Quiet, Ledger!ovars
<1> QED BY <1>1, <1>3, <1>4, <1>5, <1>8, <1>9, <1>10, <1>11, <1>12, MirrorMoves

-----------------------------------------------------------------------------
(* The public head moves.                                                  *)

LEMMA Public ==
    ASSUME PackTypeOK
    PROVE  /\ PublicHead = None <=> heads = <<>>
           /\ Len(heads) \in Nat /\ DOMAIN heads = 1 .. Len(heads)
           /\ PublicHead # None => /\ PublicHead = heads[Len(heads)] /\ Len(heads) \in DOMAIN heads
                                   /\ PublicHead \in HeadRow
<1>1. heads \in Seq(HeadRow) /\ Len(heads) \in Nat /\ DOMAIN heads = 1 .. Len(heads)
  BY DEF PackTypeOK
<1>2. CASE heads = <<>>
  BY <1>1, <1>2 DEF PublicHead
<1>3. CASE heads # <<>>
  <2>1. Len(heads) \in DOMAIN heads
    BY <1>1, <1>3, EmptySeq
  <2>2. PublicHead = heads[Len(heads)]
    BY <1>3, Zenon DEF PublicHead, Last
  <2>3. PublicHead \in HeadRow
    BY <1>1, <2>1, <2>2, ElementOfSeq
  <2> QED BY <1>1, <1>3, <2>1, <2>2, <2>3, NoneAssumption
<1> QED BY <1>2, <1>3

HeadsKept == \A j \in DOMAIN heads : j \in DOMAIN heads' /\ heads'[j] = heads[j]

LEMMA HeadAppended ==
    ASSUME PackTypeOK, NEW new \in HeadRow, heads' = Append(heads, new)
    PROVE  /\ heads' \in Seq(HeadRow) /\ DOMAIN heads' = DOMAIN heads \cup {Len(heads) + 1}
           /\ heads'[Len(heads) + 1] = new /\ Len(heads) + 1 \notin DOMAIN heads /\ HeadsKept
<1>1. heads \in Seq(HeadRow) /\ Len(heads) \in Nat /\ DOMAIN heads = 1 .. Len(heads)
  BY DEF PackTypeOK
<1>2. /\ heads' \in Seq(HeadRow) /\ Len(heads') = Len(heads) + 1
      /\ \A j \in 1 .. Len(heads) : heads'[j] = heads[j]
      /\ heads'[Len(heads) + 1] = new
  BY <1>1, AppendProperties
<1>3. DOMAIN heads' = 1 .. (Len(heads) + 1)
  BY <1>2
<1> QED BY <1>1, <1>2, <1>3 DEF HeadsKept

\* What a new head value owes to the one before.
Follows(last, new) ==
  /\ last.generation <= new.generation /\ last.epoch <= new.epoch /\ last.sequence <= new.sequence
  /\ last.epoch = new.epoch /\ new.held => last.held
  /\ last.epoch = new.epoch /\ ~last.held /\ last.generation < new.generation => last.sequence < new.sequence
  /\ last.sequence # new.sequence => intents[new.sequence].expected.epoch = new.epoch

LEMMA HeadsGrow ==
    ASSUME PackInv, NEW new \in HeadRow, heads' = Append(heads, new), intents' = intents, Applied \subseteq Applied',
           new.sequence \in Applied', new.held => new.epoch > 0,
           new.epoch = intents[new.sequence].expected.epoch => new.active = intents[new.sequence].snap /\ ~new.held,
           PublicHead # None => Follows(PublicHead, new)
    PROVE  HeadsMove' /\ HeadsOfIntents' /\ HeadsKept
<1> DEFINE n == Len(heads)
<1>1. PackTypeOK /\ n \in Nat /\ DOMAIN heads = 1 .. n
  BY Public DEF PackInv
<1>2. /\ DOMAIN heads' = DOMAIN heads \cup {n + 1} /\ heads'[n + 1] = new /\ n + 1 \notin DOMAIN heads /\ HeadsKept
  BY <1>1, HeadAppended
<1>3. new.generation \in Nat /\ new.epoch \in Nat /\ new.sequence \in Nat /\ new.held \in BOOLEAN
  BY PackAssumption DEF HeadRow, Sequence
<1>4. \A j \in DOMAIN heads : /\ heads[j].generation \in Nat /\ heads[j].epoch \in Nat /\ heads[j].sequence \in Nat
                              /\ heads[j].held \in BOOLEAN
  BY <1>1, HeadRead
\* Every earlier value is followed so, because the last one is.
<1>5. ASSUME NEW j \in DOMAIN heads
      PROVE  /\ heads[j].generation <= new.generation /\ heads[j].epoch <= new.epoch /\ heads[j].sequence <= new.sequence
             /\ heads[j].epoch = new.epoch /\ new.held => heads[j].held
             /\ heads[j].epoch = new.epoch /\ ~heads[j].held /\ heads[j].generation < new.generation
                  => heads[j].sequence < new.sequence
             /\ heads[j].epoch = new.epoch /\ ~heads[j].held /\ heads[j].sequence < new.sequence
                  => intents[new.sequence].expected.epoch = new.epoch
  <2> DEFINE last == heads[n]
  <2>1. heads # <<>>
    BY <1>1
  <2>2. n \in DOMAIN heads /\ Follows(last, new) /\ j <= n
    BY <1>1, <2>1, Public
  <2>3. /\ heads[j].generation <= last.generation /\ heads[j].epoch <= last.epoch /\ heads[j].sequence <= last.sequence
        /\ heads[j].epoch = last.epoch /\ last.held => heads[j].held
        /\ heads[j].epoch = last.epoch /\ ~heads[j].held /\ heads[j].generation < last.generation
             => heads[j].sequence < last.sequence
        /\ heads[j].epoch = last.epoch /\ ~heads[j].held /\ heads[j].sequence < last.sequence
             => intents[last.sequence].expected.epoch = last.epoch
    BY <2>2 DEF PackInv, HeadsMove, HeadsOfIntents
  <2>4. /\ last.generation \in Nat /\ last.epoch \in Nat /\ last.sequence \in Nat /\ last.held \in BOOLEAN
        /\ heads[j].generation \in Nat /\ heads[j].epoch \in Nat /\ heads[j].sequence \in Nat /\ heads[j].held \in BOOLEAN
    BY <1>4, <2>2
  <2> HIDE DEF last
  <2>5. heads[j].generation <= new.generation /\ heads[j].epoch <= new.epoch /\ heads[j].sequence <= new.sequence
    BY <1>3, <2>2, <2>3, <2>4 DEF Follows
  <2>6. heads[j].epoch = new.epoch => last.epoch = new.epoch /\ heads[j].epoch = last.epoch
    BY <1>3, <2>2, <2>3, <2>4 DEF Follows
  <2>7. heads[j].epoch = new.epoch /\ new.held => heads[j].held
    BY <2>2, <2>3, <2>6 DEF Follows
  <2>8. heads[j].epoch = new.epoch /\ ~heads[j].held /\ heads[j].generation < new.generation
          => heads[j].sequence < new.sequence
    BY <1>3, <2>2, <2>3, <2>4, <2>6 DEF Follows
  <2>9. heads[j].epoch = new.epoch /\ ~heads[j].held /\ heads[j].sequence < new.sequence
          => intents[new.sequence].expected.epoch = new.epoch
    BY <1>3, <2>2, <2>3, <2>4, <2>6 DEF Follows
  <2> QED BY <2>5, <2>7, <2>8, <2>9
<1>6. HeadsMove'
  <2>1. ASSUME NEW i \in DOMAIN heads', NEW j \in DOMAIN heads', i <= j
        PROVE  /\ heads'[i].generation <= heads'[j].generation /\ heads'[i].epoch <= heads'[j].epoch
               /\ heads'[i].sequence <= heads'[j].sequence
               /\ heads'[i].epoch = heads'[j].epoch /\ heads'[j].held => heads'[i].held
    <3>1. CASE j \in DOMAIN heads
      <4>1. i \in DOMAIN heads
        BY <1>1, <1>2, <2>1, <3>1
      <4> QED BY <1>2, <2>1, <3>1, <4>1 DEF PackInv, HeadsMove, HeadsKept
    <3>2. CASE j = n + 1 /\ i \in DOMAIN heads
      BY <1>2, <1>5, <3>2 DEF HeadsKept
    <3>3. CASE j = n + 1 /\ i = n + 1
      BY <1>2, <1>3, <3>3
    <3> QED BY <1>2, <3>1, <3>2, <3>3
  <2>2. ASSUME NEW j \in DOMAIN heads', heads'[j].held PROVE heads'[j].epoch > 0
    BY <1>2, <2>2 DEF PackInv, HeadsMove, HeadsKept
  <2>3. ASSUME NEW i \in DOMAIN heads', NEW j \in DOMAIN heads', heads'[i].epoch = heads'[j].epoch, ~heads'[i].held,
               heads'[i].generation < heads'[j].generation
        PROVE  heads'[i].sequence < heads'[j].sequence
    <3>1. CASE j \in DOMAIN heads /\ i \in DOMAIN heads
      BY <1>2, <2>3, <3>1 DEF PackInv, HeadsMove, HeadsKept
    <3>2. CASE j = n + 1 /\ i \in DOMAIN heads
      BY <1>2, <1>5, <2>3, <3>2 DEF HeadsKept
    <3>3. CASE i = n + 1
      <4>1. CASE j \in DOMAIN heads
        <5>1. heads[j].generation <= new.generation /\ new.generation < heads[j].generation
          BY <1>2, <1>5, <2>3, <3>3, <4>1 DEF HeadsKept
        <5> QED BY <1>3, <1>4, <4>1, <5>1
      <4>2. CASE j = n + 1
        BY <1>2, <1>3, <2>3, <3>3, <4>2
      <4> QED BY <1>2, <4>1, <4>2
    <3> QED BY <1>2, <3>1, <3>2, <3>3
  <2> QED BY <2>1, <2>2, <2>3 DEF HeadsMove
<1>7. HeadsOfIntents'
  <2>1. ASSUME NEW j \in DOMAIN heads' PROVE heads'[j].sequence \in Applied'
    BY <1>2 DEF PackInv, HeadsOfIntents, HeadsKept
  <2>2. ASSUME NEW j \in DOMAIN heads', heads'[j].epoch = intents[heads'[j].sequence].expected.epoch
        PROVE  heads'[j].active = intents[heads'[j].sequence].snap /\ ~heads'[j].held
    BY <1>2, <2>2 DEF PackInv, HeadsOfIntents, HeadsKept
  <2>3. ASSUME NEW i \in DOMAIN heads', NEW j \in DOMAIN heads', heads'[i].epoch = heads'[j].epoch, ~heads'[i].held,
               heads'[i].sequence < heads'[j].sequence
        PROVE  intents[heads'[j].sequence].expected.epoch = heads'[j].epoch
    <3>1. CASE j \in DOMAIN heads /\ i \in DOMAIN heads
      BY <1>2, <2>3, <3>1 DEF PackInv, HeadsOfIntents, HeadsKept
    <3>2. CASE j = n + 1 /\ i \in DOMAIN heads
      BY <1>2, <1>5, <2>3, <3>2 DEF HeadsKept
    <3>3. CASE i = n + 1
      <4>1. CASE j \in DOMAIN heads
        <5>1. heads[j].sequence <= new.sequence /\ new.sequence < heads[j].sequence
          BY <1>2, <1>5, <2>3, <3>3, <4>1 DEF HeadsKept
        <5> QED BY <1>3, <1>4, <4>1, <5>1
      <4>2. CASE j = n + 1
        BY <1>2, <1>3, <2>3, <3>3, <4>2
      <4> QED BY <1>2, <4>1, <4>2
    <3> QED BY <1>2, <3>1, <3>2, <3>3
  <2> QED BY <2>1, <2>2, <2>3 DEF HeadsOfIntents
<1> QED BY <1>2, <1>6, <1>7

\* The head's epoch is the newest there is.
LEMMA NewestEpoch ==
    ASSUME PackInv, PublicHead # None
    PROVE  /\ \A j \in DOMAIN heads : heads[j].epoch <= PublicHead.epoch
           /\ mirror.epoch \in Nat /\ PublicHead.epoch \in Nat /\ mirror.epoch <= PublicHead.epoch
<1>1. PackTypeOK /\ PublicHead = heads[Len(heads)] /\ Len(heads) \in DOMAIN heads
      /\ Len(heads) \in Nat /\ DOMAIN heads = 1 .. Len(heads)
  BY Public DEF PackInv
<1>2. \A j \in DOMAIN heads : heads[j].epoch <= PublicHead.epoch
  BY <1>1 DEF PackInv, HeadsMove
<1>3. mirror.epoch \in Nat /\ PublicHead.epoch \in Nat
  BY <1>1, HeadRead
<1>4. mirror.epoch <= PublicHead.epoch
  BY <1>2, <1>3 DEF PackInv, Mirrored
<1> QED BY <1>2, <1>3, <1>4

LEMMA StoreMoves ==
    ASSUME PackInv, PackTypeOK', UNCHANGED <<mirror, lease, builds, intents, ops>>,
           HeadsMove', HeadsOfIntents', HeadsKept, \A t \in Sequence : AnswerKept(t)' /\ Fate(t)'
    PROVE  PackInv'
<1>1. \A t : Sealed(t)' <=> Sealed(t)
  BY DEF Sealed
<1>2. Mirrored'
  BY DEF PackInv, Mirrored, HeadsKept
<1>3. ASSUME NEW t \in Sequence PROVE RowsInStep(t)'
  BY <1>1 DEF PackInv, RowsInStep
<1>4. ASSUME NEW t \in Sequence PROVE SealedUnheld(t)'
  <2>1. SealedUnheld(t)
    BY DEF PackInv
  <2> QED BY <1>1, <2>1 DEF SealedUnheld, HeadsKept
<1>5. Unsettled' = Unsettled
  BY DEF Unsettled, unreconciledPackOperations
<1>6. NewestUnsettled' /\ BuildsSettled'
  BY <1>1, <1>5 DEF PackInv, NewestUnsettled, BuildsSettled
<1> QED BY <1>2, <1>3, <1>4, <1>6 DEF PackInv

-----------------------------------------------------------------------------
(* The public store's answers.                                             *)

\* The intent an operation belongs to is sealed.
LEMMA SentIsSealed ==
    ASSUME PackInv, NEW s \in Sequence, NEW i \in DOMAIN ops[s]
    PROVE  /\ Sealed(s) /\ intents[s] \in Intent /\ intents[s].snap \in Snapshot
           /\ roots[intents[s].snap] \in Root /\ i \in DOMAIN ledger[s]
<1>1. PackTypeOK /\ RowsInStep(s) /\ DOMAIN ops[s] # {}
  BY DEF PackInv
<1>2. Sealed(s) /\ intents[s] \in Intent /\ i \in DOMAIN ledger[s]
  BY <1>1, Row DEF RowsInStep
<1>3. intents[s].snap \in Snapshot
  BY <1>2 DEF Intent
<1> QED BY <1>1, <1>2, <1>3 DEF PackTypeOK

LEMMA LedgerEntry ==
    ASSUME PackTypeOK, NEW s \in Sequence, NEW i \in DOMAIN ledger[s], NEW o \in Outcomes, Answer(s, i, o)
    PROVE  /\ ledger' \in [Sequence -> Seq(Outcomes)] /\ ledger'[s][i] = o
           /\ \A t \in Sequence : Len(ledger'[t]) = Len(ledger[t]) /\ DOMAIN ledger'[t] = DOMAIN ledger[t]
           /\ \A t \in Sequence : \A j \in DOMAIN ledger[t] : (t # s \/ j # i) => ledger'[t][j] = ledger[t][j]
<1> DEFINE list == [ledger[s] EXCEPT ![i] = o]
<1>1. ledger' = [ledger EXCEPT ![s] = list]
  BY DEF Answer
<1>2. ledger[s] \in Seq(Outcomes) /\ ledger \in [Sequence -> Seq(Outcomes)]
  BY DEF PackTypeOK
<1>3. /\ list \in Seq(Outcomes) /\ Len(list) = Len(ledger[s]) /\ DOMAIN list = DOMAIN ledger[s]
      /\ list[i] = o /\ \A j \in DOMAIN ledger[s] \ {i} : list[j] = ledger[s][j]
  BY <1>2, ExceptSeq
<1> HIDE DEF list
<1>4. /\ ledger'[s] = list /\ \A t \in Sequence \ {s} : ledger'[t] = ledger[t]
      /\ ledger' \in [Sequence -> Seq(Outcomes)]
  BY <1>1, <1>2, <1>3, Zenon
<1> QED BY <1>3, <1>4

\* An answer leaves the other requests, and the receipts, as they were.
LEMMA AnswersKept ==
    ASSUME PackInv, NEW s \in Sequence, NEW i \in DOMAIN ops[s], ledger[s][i] = "none",
           NEW o \in Outcomes \ {"none"}, Answer(s, i, o), ops' = ops
    PROVE  /\ \A t \in Sequence : AnswerKept(t)' /\ (Pending(t)' => Pending(t))
           /\ \A t \in Sequence : t # s => (t \in Applied' <=> t \in Applied)
           /\ Applied \subseteq Applied'
           /\ (ops[s][i].kind = "activate" => o \notin Success) => Applied' = Applied
<1>1. /\ PackTypeOK /\ i \in DOMAIN ledger[s] /\ ledger'[s][i] = o
      /\ \A t \in Sequence : DOMAIN ledger'[t] = DOMAIN ledger[t] /\ DOMAIN ops[t] = DOMAIN ledger[t]
      /\ \A t \in Sequence : \A j \in DOMAIN ledger[t] : (t # s \/ j # i) => ledger'[t][j] = ledger[t][j]
  BY SentIsSealed, LedgerEntry, Row DEF PackInv
<1>2. ASSUME NEW t \in Sequence PROVE AnswerKept(t)' /\ (Pending(t)' => Pending(t))
  <2>1. RowsInStep(t)
    BY DEF PackInv
  <2>2. AnswerKept(t)'
    BY <1>1, <2>1 DEF RowsInStep, AnswerKept
  <2>3. Pending(t)' => Pending(t)
    BY <1>1 DEF Pending
  <2> QED BY <2>2, <2>3
<1>3. "none" \notin Success
  BY DEF Success
<1>4. \A t \in Sequence : t # s => (t \in Applied' <=> t \in Applied)
  BY <1>1 DEF Applied
<1>5. Applied \subseteq Applied'
  BY <1>1, <1>3 DEF Applied
<1>6. ASSUME ops[s][i].kind = "activate" => o \notin Success PROVE Applied' = Applied
  BY <1>1, <1>3, <1>6 DEF Applied
<1> QED BY <1>2, <1>4, <1>5, <1>6

LEMMA StoreAnswers ==
    ASSUME PackInv, NEW s \in Sequence, NEW i \in DOMAIN ops[s], ledger[s][i] = "none",
           NEW o \in Outcomes \ {"none"}, Answer(s, i, o), ops[s][i].kind = "activate" => o \notin Success,
           UNCHANGED <<mirror, lease, builds, intents, ops, heads, operator>>, roots' \in [Snapshot -> Root]
    PROVE  PackInv' /\ Quiet
<1>1. PackTypeOK /\ i \in DOMAIN ledger[s]
  BY SentIsSealed DEF PackInv
<1>2. /\ ledger' \in [Sequence -> Seq(Outcomes)]
      /\ \A t \in Sequence : Len(ledger'[t]) = Len(ledger[t])
  BY <1>1, LedgerEntry
<1>3. PackTypeOK'
  BY <1>1, <1>2 DEF PackTypeOK
<1>4. Applied' = Applied /\ \A t \in Sequence : AnswerKept(t)' /\ (Pending(t)' => Pending(t))
  BY AnswersKept
<1>5. \A t \in Sequence : ~Sealed(t) => ops'[t] = <<>>
  BY DEF PackInv, RowsInStep
<1>6. Unsettled' = Unsettled
  BY DEF Unsettled, unreconciledPackOperations
<1> QED BY <1>3, <1>4, <1>5, <1>6, AnswersMove

LEMMA StagingKeepsInv ==
    ASSUME PackInv, NEW s \in Sequence, NEW i \in DOMAIN ops[s],
           start(s, i) \/ applyBatch(s, i) \/ finalize(s, i)
    PROVE  PackInv' /\ Quiet
<1> DEFINE x == intents[s].snap
<1>1. /\ ledger[s][i] = "none" /\ ops[s][i].kind # "activate"
      /\ UNCHANGED <<mirror, lease, builds, intents, ops, heads, operator>>
  <2>1. /\ \E kind \in {"start", "batch", "finalize"} : Receive(s, i, kind)
        /\ UNCHANGED heads
    <3>1. CASE start(s, i)
      BY <3>1, Zenon DEF start
    <3>2. CASE applyBatch(s, i)
      BY <3>2, Zenon DEF applyBatch
    <3>3. CASE finalize(s, i)
      BY <3>3, Zenon DEF finalize
    <3> QED BY <3>1, <3>2, <3>3
  <2> QED BY <2>1 DEF Receive, provider
<1>2. x \in Snapshot /\ roots[x] \in Root /\ roots \in [Snapshot -> Root] /\ s \in 0 .. MaxSequence
  <2>1. x \in Snapshot /\ roots[x] \in Root
    BY SentIsSealed
  <2>2. roots \in [Snapshot -> Root] /\ s \in 0 .. MaxSequence
    BY PackAssumption DEF PackInv, PackTypeOK, Sequence
  <2> QED BY <2>1, <2>2
<1>3. /\ {"applied", "already_applied", "conflict", "refused"} \subseteq Outcomes \ {"none"}
      /\ 0 \in 0 .. 1 /\ 1 \in 0 .. 1
  BY DEF Outcomes, Success
<1> HIDE DEF x
<1>4. \/ roots' = roots
      \/ roots' = [roots EXCEPT ![x] = [roots[x] EXCEPT !.sequence = s]]
      \/ roots' = [roots EXCEPT ![x] = [state |-> "staging", sequence |-> s, batches |-> 0]]
      \/ roots' = [roots EXCEPT ![x] = [roots[x] EXCEPT !.batches = 1]]
      \/ \E st \in {"complete", "blocked"} : roots' = [roots EXCEPT ![x] = [roots[x] EXCEPT !.state = st]]
  <2>1. CASE start(s, i)
    BY <2>1, Zenon DEF start, x
  <2>2. CASE applyBatch(s, i)
    BY <2>2, Zenon DEF applyBatch, x
  <2>3. CASE finalize(s, i)
    BY <2>3, Zenon DEF finalize, x
  <2> QED BY <2>1, <2>2, <2>3
<1>5. roots' \in [Snapshot -> Root]
  <2>1. [state |-> "staging", sequence |-> s, batches |-> 0] \in Root
    BY <1>2 DEF Root
  <2>2. [roots[x] EXCEPT !.sequence = s] \in Root /\ [roots[x] EXCEPT !.batches = 1] \in Root
    BY <1>2, <1>3, Zenon DEF Root
  <2>3. ASSUME NEW st \in {"complete", "blocked"} PROVE [roots[x] EXCEPT !.state = st] \in Root
    <3>1. st \in {"none", "staging", "complete", "blocked"}
      OBVIOUS
    <3> QED BY <1>2, <3>1, Zenon DEF Root
  <2> QED BY <1>2, <1>4, <2>1, <2>2, <2>3, Zenon
<1>6. \E o \in {"applied", "already_applied", "conflict", "refused"} : Answer(s, i, o)
  <2>1. CASE start(s, i)
    BY <2>1 DEF start, Answer
  <2>2. CASE applyBatch(s, i)
    BY <2>2, Zenon DEF applyBatch
  <2>3. CASE finalize(s, i)
    BY <2>3, Zenon DEF finalize
  <2> QED BY <2>1, <2>2, <2>3
<1> QED BY <1>1, <1>3, <1>5, <1>6, StoreAnswers

\* An accepted activation is not of an intent that was given up.
LEMMA AcceptedIsWanted ==
    ASSUME PackInv, NEW s \in Sequence, NEW i \in DOMAIN ops[s], ops[s][i].kind = "activate", ledger[s][i] = "none",
           ExpectedHead(s)
    PROVE  /\ intents[s].state # "superseded"
           /\ PublicHead # None => intents[s].expected.epoch = PublicHead.epoch
                                   /\ intents[s].expected.active = PublicHead.active
           /\ PublicHead = None => intents[s].expected.epoch = 0 /\ intents[s].expected.active = None
<1>1. /\ PublicHead # None => intents[s].expected.epoch = PublicHead.epoch
                              /\ intents[s].expected.active = PublicHead.active
      /\ PublicHead = None => intents[s].expected.epoch = 0 /\ intents[s].expected.active = None
  BY DEF ExpectedHead
<1>2. ASSUME intents[s].state = "superseded" PROVE FALSE
  <2>1. Overtaken(s)
    BY <1>2 DEF PackInv, Fate, Pending
  <2>2. PICK j \in DOMAIN heads : heads[j].epoch > intents[s].expected.epoch
    BY <2>1 DEF Overtaken
  <2>3. PackTypeOK /\ PublicHead # None
    BY <2>2, Public DEF PackInv
  <2>4. heads[j].epoch <= PublicHead.epoch /\ PublicHead.epoch \in Nat /\ heads[j].epoch \in Nat
    BY <2>3, NewestEpoch, HeadRead
  <2> QED BY <1>1, <2>2, <2>3, <2>4
<1> QED BY <1>1, <1>2

\* The head value an accepted activation appends.
NewHead(s, new) ==
  /\ new \in HeadRow /\ new.sequence = s /\ new.epoch = intents[s].expected.epoch /\ new.active = intents[s].snap
  /\ ~new.held /\ (PublicHead # None => Follows(PublicHead, new)) /\ heads' = Append(heads, new)

LEMMA Accepts ==
    ASSUME PackInv, NEW s \in Sequence, NEW i \in DOMAIN ops[s], ops[s][i].kind = "activate", ledger[s][i] = "none",
           ExpectedHead(s), NEW o \in Success, Answer(s, i, o),
           UNCHANGED <<mirror, lease, builds, intents, ops, roots, operator>>,
           heads' = heads \/ \E new : NewHead(s, new)
    PROVE  PackInv' /\ Ledger!Apply(s)
<1>1. PackTypeOK /\ i \in DOMAIN ledger[s] /\ Sealed(s) /\ intents[s].state # "superseded"
  BY SentIsSealed, AcceptedIsWanted DEF PackInv
<1>2. o \in Outcomes \ {"none"}
  BY DEF Outcomes, Success
<1>3. /\ ledger' \in [Sequence -> Seq(Outcomes)] /\ ledger'[s][i] = o
      /\ \A t \in Sequence : Len(ledger'[t]) = Len(ledger[t]) /\ DOMAIN ledger'[t] = DOMAIN ledger[t]
  BY <1>1, <1>2, LedgerEntry
<1>4. /\ \A t \in Sequence : AnswerKept(t)' /\ (Pending(t)' => Pending(t))
      /\ \A t \in Sequence : t # s => (t \in Applied' <=> t \in Applied)
      /\ Applied \subseteq Applied'
  BY <1>2, AnswersKept
<1>5. s \in Applied'
  BY <1>1, <1>3 DEF Applied
<1>6. HeadsMove' /\ HeadsOfIntents' /\ HeadsKept /\ heads' \in Seq(HeadRow)
  <2>1. CASE heads' = heads
    <3>1. \A t \in Sequence : TaskKept(t)
      BY <1>1, Row DEF TaskKept
    <3> QED BY <1>1, <1>4, <2>1, <3>1, HeadsStay DEF HeadsKept, PackTypeOK
  <2>2. ASSUME NEW new, NewHead(s, new) PROVE HeadsMove' /\ HeadsOfIntents' /\ HeadsKept /\ heads' \in Seq(HeadRow)
    <3>1. /\ new \in HeadRow /\ heads' = Append(heads, new) /\ new.sequence \in Applied' /\ ~new.held
          /\ new.active = intents[new.sequence].snap /\ (PublicHead # None => Follows(PublicHead, new))
      BY <1>5, <2>2 DEF NewHead
    <3> QED BY <1>1, <1>4, <3>1, HeadsGrow, HeadAppended
  <2> QED BY <2>1, <2>2
<1>7. PackTypeOK'
  BY <1>1, <1>3, <1>6 DEF PackTypeOK
<1>8. ASSUME NEW t \in Sequence PROVE Fate(t)'
  <2>1. Fate(t) /\ (Overtaken(t) => Overtaken(t)')
    BY <1>6 DEF PackInv, Overtaken, HeadsKept
  <2>2. CASE t = s
    BY <1>1, <1>5, <2>1, <2>2 DEF Fate
  <2>3. CASE t # s
    BY <1>4, <2>1, <2>3 DEF Fate
  <2> QED BY <2>2, <2>3
<1>9. Ledger!Apply(s)
  <2>1. Applied' = Applied \cup {s}
    BY <1>4, <1>5 DEF Applied
  <2> QED BY <1>1, <2>1 DEF Ledger!Apply, Sealed
<1> QED BY <1>4, <1>6, <1>7, <1>8, <1>9, StoreMoves

LEMMA ActivateKeepsInv ==
    ASSUME PackInv, NEW s \in Sequence, NEW i \in DOMAIN ops[s], activate(s, i)
    PROVE  PackInv' /\ (Quiet \/ Ledger!Apply(s))
<1> DEFINE x == intents[s].snap
           last == PublicHead
<1>1. /\ PackTypeOK /\ ledger[s][i] = "none" /\ ops[s][i].kind = "activate"
      /\ UNCHANGED <<mirror, lease, builds, intents, ops, roots, operator>>
  BY DEF activate, Receive, provider, PackInv
<1>2. x \in Snapshot /\ x # None /\ s \in Nat \ {0}
  BY SentIsSealed, NoneAssumption, PackAssumption DEF Sequence
<1>3. ASSUME NEW o \in {"refused", "conflict"}, Answer(s, i, o), heads' = heads PROVE PackInv' /\ Quiet
  <2>1. o \in Outcomes \ {"none"} /\ o \notin Success
    BY DEF Outcomes, Success
  <2>2. roots' \in [Snapshot -> Root]
    BY <1>1 DEF PackTypeOK
  <2> QED BY <1>1, <1>3, <2>1, <2>2, StoreAnswers
<1>4. ASSUME ~OnHold, ExpectedHead(s), intents[s].expected.active = x, Answer(s, i, "already_active"),
             heads' = IF s > last.sequence THEN Append(heads, [last EXCEPT !.sequence = s]) ELSE heads
      PROVE  PackInv' /\ Ledger!Apply(s)
  <2>1. last # None /\ last \in HeadRow /\ ~last.held /\ intents[s].expected.epoch = last.epoch
        /\ last.active = x
    BY <1>1, <1>2, <1>4, AcceptedIsWanted, Public DEF OnHold
  <2>2. "already_active" \in Success
    BY DEF Success
  <2>3. CASE s > last.sequence
    <3> DEFINE new == [last EXCEPT !.sequence = s]
    <3>1. /\ new \in HeadRow /\ new.sequence = s /\ new.epoch = last.epoch /\ new.active = last.active
          /\ new.held = last.held /\ new.generation = last.generation
      BY <2>1 DEF HeadRow
    <3>2. heads' = Append(heads, new)
      BY <1>4, <2>3
    <3>3. last.generation \in Nat /\ last.epoch \in Nat /\ last.sequence \in Nat
      BY <2>1, PackAssumption DEF HeadRow, Sequence
    <3> HIDE DEF new, last, x
    <3>4. Follows(last, new)
      BY <1>2, <2>1, <2>3, <3>1, <3>3 DEF Follows
    <3>5. NewHead(s, new)
      BY <2>1, <3>1, <3>2, <3>4 DEF NewHead, last, x
    <3> QED BY <1>1, <1>4, <2>2, <3>5, Accepts
  <2>4. CASE ~(s > last.sequence)
    BY <1>1, <1>4, <2>2, <2>4, Accepts
  <2> QED BY <2>3, <2>4
<1>5. ASSUME ~OnHold, ExpectedHead(s), ~(last # None /\ s <= last.sequence), Answer(s, i, "applied"),
             heads' = Append(heads,
               [generation |-> (IF last = None THEN 0 ELSE last.generation) + 1,
                epoch |-> IF last = None THEN 0 ELSE last.epoch, held |-> FALSE, sequence |-> s,
                active |-> x, previous |-> IF last = None THEN None ELSE last.active])
      PROVE  PackInv' /\ Ledger!Apply(s)
  <2> DEFINE new == [generation |-> (IF last = None THEN 0 ELSE last.generation) + 1,
                     epoch |-> IF last = None THEN 0 ELSE last.epoch, held |-> FALSE, sequence |-> s,
                     active |-> x, previous |-> IF last = None THEN None ELSE last.active]
  <2>1. "applied" \in Success
    BY DEF Success
  <2>2. last # None => /\ last \in HeadRow /\ last.generation \in Nat /\ last.epoch \in Nat /\ last.sequence \in Nat
                       /\ last.active \in Snapshot /\ ~last.held /\ s > last.sequence
    <3>1. last # None => last \in HeadRow /\ ~last.held
      BY <1>1, <1>5, Public DEF OnHold
    <3> HIDE DEF last
    <3>2. last # None => last.sequence \in Nat
      BY <3>1, PackAssumption DEF HeadRow, Sequence
    <3> QED BY <1>2, <1>5, <3>1, <3>2 DEF HeadRow
  <2>3. new.epoch = intents[s].expected.epoch
    BY <1>1, <1>5, AcceptedIsWanted
  <2> HIDE DEF last, x
  <2>4. /\ new \in HeadRow /\ new.sequence = s /\ new.active = x /\ ~new.held
        /\ last # None => new.epoch = last.epoch /\ new.generation = last.generation + 1
    BY <1>2, <2>2 DEF HeadRow
  <2>5. heads' = Append(heads, new)
    BY <1>5
  <2> HIDE DEF new
  <2>6. last # None => Follows(last, new)
    BY <1>2, <2>2, <2>3, <2>4 DEF Follows
  <2>7. NewHead(s, new)
    BY <2>3, <2>4, <2>5, <2>6 DEF NewHead, last, x
  <2> QED BY <1>1, <1>5, <2>1, <2>7, Accepts
<1>6. \/ \E o \in {"refused", "conflict"} : Answer(s, i, o) /\ heads' = heads
      \/ /\ ~OnHold /\ ExpectedHead(s) /\ intents[s].expected.active = x /\ Answer(s, i, "already_active")
         /\ heads' = IF s > last.sequence THEN Append(heads, [last EXCEPT !.sequence = s]) ELSE heads
      \/ /\ ~OnHold /\ ExpectedHead(s) /\ ~(last # None /\ s <= last.sequence) /\ Answer(s, i, "applied")
         /\ heads' = Append(heads,
               [generation |-> (IF last = None THEN 0 ELSE last.generation) + 1,
                epoch |-> IF last = None THEN 0 ELSE last.epoch, held |-> FALSE, sequence |-> s,
                active |-> x, previous |-> IF last = None THEN None ELSE last.active])
  BY Zenon DEF activate
<1> HIDE DEF last, x
<1> QED BY <1>3, <1>4, <1>5, <1>6

-----------------------------------------------------------------------------
(* The operator's commands.                                                *)

LEMMA CommandMoves ==
    ASSUME PackInv, Command, roots' \in [Snapshot -> Root],
           \/ heads' = heads
           \/ \E new \in HeadRow :
                /\ PublicHead # None /\ heads' = Append(heads, new) /\ Follows(PublicHead, new)
                /\ new.sequence = PublicHead.sequence /\ (new.held => new.epoch > 0)
                /\ new.epoch # intents[new.sequence].expected.epoch
    PROVE  PackInv' /\ Quiet
<1>1. PackTypeOK /\ UNCHANGED <<mirror, lease, builds, intents, ops, ledger>> /\ operator' \in 0 .. MaxOperator
  BY PackAssumption DEF Command, provider, PackInv, PackTypeOK
<1>2. Applied' = Applied /\ \A t \in Sequence : Pending(t)' = Pending(t) /\ TaskKept(t)
  BY <1>1, Row DEF Applied, Pending, TaskKept
<1>3. HeadsMove' /\ HeadsOfIntents' /\ HeadsKept /\ heads' \in Seq(HeadRow)
  <2>1. CASE heads' = heads
    BY <1>1, <1>2, <2>1, HeadsStay DEF HeadsKept, PackTypeOK
  <2>2. ASSUME NEW new \in HeadRow, PublicHead # None, heads' = Append(heads, new), Follows(PublicHead, new),
               new.sequence = PublicHead.sequence, new.held => new.epoch > 0,
               new.epoch # intents[new.sequence].expected.epoch
        PROVE  HeadsMove' /\ HeadsOfIntents' /\ HeadsKept /\ heads' \in Seq(HeadRow)
    <3>1. new.sequence \in Applied'
      <4>1. PublicHead.sequence \in Applied
        BY <1>1, <2>2, Public DEF PackInv, HeadsOfIntents
      <4> QED BY <1>2, <2>2, <4>1
    <3> QED BY <1>1, <1>2, <2>2, <3>1, HeadsGrow, HeadAppended
  <2> QED BY <2>1, <2>2
<1>4. PackTypeOK'
  BY <1>1, <1>3 DEF PackTypeOK
<1>5. ASSUME NEW t \in Sequence PROVE AnswerKept(t)' /\ Fate(t)'
  <2>1. RowsInStep(t) /\ Fate(t) /\ (Overtaken(t) => Overtaken(t)')
    BY <1>1, <1>3 DEF PackInv, Overtaken, HeadsKept
  <2>2. AnswerKept(t)'
    BY <1>1, <2>1 DEF RowsInStep, AnswerKept
  <2>3. Fate(t)'
    BY <1>1, <1>2, <2>1 DEF Fate
  <2> QED BY <2>2, <2>3
<1>6. Quiet
  BY <1>1, <1>2 DEF Quiet, Ledger!ovars
<1> QED BY <1>1, <1>3, <1>4, <1>5, <1>6, StoreMoves

\* The head's own intent, and its epoch.
LEMMA PublicIntent ==
    ASSUME PackInv, PublicHead # None
    PROVE  /\ PublicHead \in HeadRow /\ PublicHead.generation \in Nat /\ PublicHead.epoch \in Nat
           /\ PublicHead.sequence \in Nat /\ PublicHead.held \in BOOLEAN
           /\ intents[PublicHead.sequence].expected.epoch \in Nat
           /\ intents[PublicHead.sequence].expected.epoch <= PublicHead.epoch
           /\ PublicHead.held => /\ PublicHead.epoch > 0
                                 /\ intents[PublicHead.sequence].expected.epoch # PublicHead.epoch
<1> DEFINE q == PublicHead.sequence
<1>1. PackTypeOK /\ PublicHead = heads[Len(heads)] /\ Len(heads) \in DOMAIN heads /\ PublicHead \in HeadRow
  BY Public DEF PackInv
<1>2. /\ PublicHead.generation \in Nat /\ PublicHead.epoch \in Nat /\ q \in Nat /\ PublicHead.held \in BOOLEAN
  BY <1>1, PackAssumption DEF HeadRow, Sequence
<1>3. q \in Sequence /\ Sealed(q)
  BY <1>1, AppliedIsSent DEF PackInv, HeadsOfIntents
<1>4. intents[q].expected.epoch \in Nat /\ intents[q].expected.epoch <= mirror.epoch
  BY <1>3, SealedRow
<1>5. mirror.epoch \in Nat /\ mirror.epoch <= PublicHead.epoch
  BY NewestEpoch
<1>6. PublicHead.held => PublicHead.epoch > 0 /\ intents[q].expected.epoch # PublicHead.epoch
  BY <1>1 DEF PackInv, HeadsMove, HeadsOfIntents
<1> QED BY <1>1, <1>2, <1>4, <1>5, <1>6

LEMMA CommandsKeepInv ==
    ASSUME PackInv, hold \/ activateRetained \/ resume \/ \E x \in Snapshot : blockSnapshot(x)
    PROVE  PackInv' /\ Quiet
<1> DEFINE last == PublicHead
<1>1. Command /\ roots \in [Snapshot -> Root]
  BY DEF hold, activateRetained, resume, blockSnapshot, PackInv, PackTypeOK
<1>2. CASE hold
  <2> DEFINE new == [last EXCEPT !.held = TRUE, !.epoch = @ + 1]
  <2>1. last # None /\ ~last.held /\ heads' = Append(heads, new) /\ roots' = roots
    BY <1>2 DEF hold
  <2>2. /\ last \in HeadRow /\ last.generation \in Nat /\ last.epoch \in Nat /\ last.sequence \in Nat
        /\ intents[last.sequence].expected.epoch \in Nat /\ intents[last.sequence].expected.epoch <= last.epoch
    BY <2>1, PublicIntent
  <2> HIDE DEF last
  <2>3. /\ new \in HeadRow /\ new.sequence = last.sequence /\ new.epoch = last.epoch + 1 /\ new.held
        /\ new.generation = last.generation
    <3>1. last.epoch + 1 \in Nat
      BY <2>2
    <3>2. new \in HeadRow
      BY <2>2, <3>1, Zenon DEF HeadRow
    <3> QED BY <2>2, <3>2 DEF HeadRow
  <2> HIDE DEF new
  <2>4. Follows(last, new) /\ new.epoch > 0 /\ new.epoch # intents[new.sequence].expected.epoch
    BY <2>2, <2>3 DEF Follows
  <2> QED BY <1>1, <2>1, <2>3, <2>4, CommandMoves DEF last
<1>3. CASE activateRetained
  <2> DEFINE new == [last EXCEPT !.generation = @ + 1, !.active = last.previous, !.previous = last.active]
  <2>1. last # None /\ last.held /\ heads' = Append(heads, new) /\ roots' = roots /\ last.previous # None
    BY <1>3 DEF activateRetained
  <2>2. /\ last \in HeadRow /\ last.generation \in Nat /\ last.epoch \in Nat /\ last.sequence \in Nat
        /\ last.epoch > 0 /\ intents[last.sequence].expected.epoch # last.epoch
    BY <2>1, PublicIntent
  <2> HIDE DEF last
  <2>3. /\ new \in HeadRow /\ new.sequence = last.sequence /\ new.epoch = last.epoch /\ new.held
        /\ new.generation = last.generation + 1
    <3>1. last.generation + 1 \in Nat /\ last.previous \in Snapshot /\ last.active \in Snapshot \cup {None}
      BY <2>1, <2>2 DEF HeadRow
    <3>2. new \in HeadRow
      BY <2>2, <3>1, Zenon DEF HeadRow
    <3> QED BY <2>1, <2>2, <3>2 DEF HeadRow
  <2> HIDE DEF new
  <2>4. Follows(last, new) /\ new.epoch > 0 /\ new.epoch # intents[new.sequence].expected.epoch
    BY <2>1, <2>2, <2>3 DEF Follows
  <2> QED BY <1>1, <2>1, <2>3, <2>4, CommandMoves DEF last
<1>4. CASE resume
  <2> DEFINE new == [last EXCEPT !.held = FALSE]
  <2>1. last # None /\ last.held /\ heads' = Append(heads, new) /\ roots' = roots
    BY <1>4 DEF resume
  <2>2. /\ last \in HeadRow /\ last.generation \in Nat /\ last.epoch \in Nat /\ last.sequence \in Nat
        /\ last.epoch > 0 /\ intents[last.sequence].expected.epoch # last.epoch
    BY <2>1, PublicIntent
  <2> HIDE DEF last
  <2>3. /\ new \in HeadRow /\ new.sequence = last.sequence /\ new.epoch = last.epoch /\ ~new.held
        /\ new.generation = last.generation
    BY <2>2 DEF HeadRow
  <2> HIDE DEF new
  <2>4. Follows(last, new) /\ new.epoch # intents[new.sequence].expected.epoch
    BY <2>1, <2>2, <2>3 DEF Follows
  <2> QED BY <1>1, <2>1, <2>3, <2>4, CommandMoves DEF last
<1>5. ASSUME NEW x \in Snapshot, blockSnapshot(x) PROVE PackInv' /\ Quiet
  <2>1. heads' = heads /\ roots' = [roots EXCEPT ![x] = [roots[x] EXCEPT !.state = "blocked"]]
    BY <1>5 DEF blockSnapshot
  <2>2. [roots[x] EXCEPT !.state = "blocked"] \in Root
    <3>1. roots[x] \in Root /\ "blocked" \in {"none", "staging", "complete", "blocked"}
      BY <1>1
    <3> QED BY <3>1, Zenon DEF Root
  <2>3. roots' \in [Snapshot -> Root]
    BY <1>1, <2>1, <2>2, Zenon
  <2> QED BY <1>1, <2>1, <2>3, CommandMoves
<1> QED BY <1>2, <1>3, <1>4, <1>5

-----------------------------------------------------------------------------
(* Every step.                                                             *)

LEMMA PackInitInv == PackInit => PackInv /\ Ledger!Init /\ LatestIsAlive
<1> SUFFICES ASSUME PackInit PROVE PackInv /\ Ledger!Init /\ LatestIsAlive
  OBVIOUS
<1>1. /\ mirror = [latest |-> 0, accepted |-> 0, epoch |-> 0, generation |-> 0, held |-> FALSE, active |-> None]
      /\ lease = NoLease /\ heads = <<>> /\ operator = 0
      /\ \A s \in Sequence : builds[s] = NoBuild /\ intents[s] = NoIntent /\ ops[s] = <<>> /\ ledger[s] = <<>>
  BY DEF PackInit
<1>2. DOMAIN heads = {} /\ \A s \in Sequence : DOMAIN ops[s] = {} /\ DOMAIN ledger[s] = {}
  BY <1>1
<1>3. PackTypeOK
  <2>1. MaxSequence \in Nat /\ 0 \in 0 .. MaxSequence /\ 0 \in 0 .. MaxOperator /\ 0 \in 0 .. 1
    BY PackAssumption
  <2>2. mirror \in [latest : 0 .. MaxSequence, accepted : 0 .. MaxSequence, epoch : Nat, generation : Nat,
                    held : BOOLEAN, active : Snapshot \cup {None}]
    BY <1>1, <2>1
  <2>3. lease \in LeaseRow
    BY <1>1, <2>1 DEF NoLease, LeaseRow
  <2>4. builds \in [Sequence -> {NoBuild} \cup Build] /\ intents \in [Sequence -> {NoIntent} \cup Intent]
    BY Zenon DEF PackInit
  <2>5. <<>> \in Seq(Operation) /\ <<>> \in Seq(Outcomes) /\ heads \in Seq(HeadRow)
    BY <1>1
  <2>6. ops \in [Sequence -> Seq(Operation)] /\ ledger \in [Sequence -> Seq(Outcomes)]
    BY <2>5, Zenon DEF PackInit
  <2>7. roots \in [Snapshot -> Root]
    <3>1. [state |-> "none", sequence |-> 0, batches |-> 0] \in Root
      BY <2>1 DEF Root
    <3> QED BY <3>1, Zenon DEF PackInit
  <2> QED BY <1>1, <2>1, <2>2, <2>3, <2>4, <2>5, <2>6, <2>7 DEF PackTypeOK, LeaseRow
<1>4. HeadsMove /\ HeadsOfIntents /\ Mirrored
  BY <1>1, <1>2 DEF HeadsMove, HeadsOfIntents, Mirrored
<1>5. ASSUME NEW s \in Sequence
      PROVE  ~Sealed(s) /\ RowsInStep(s) /\ SealedUnheld(s) /\ Fate(s) /\ s \notin Applied
             /\ intents[s].state \notin Open \cup {"blocked", "published"}
  <2>1. ~Sealed(s) /\ builds[s].state # "published" /\ intents[s].state = "none"
    BY <1>1, NoRow DEF Sealed, NoBuild
  <2>2. ~(s <= mirror.latest)
    BY <1>1, PackAssumption DEF Sequence
  <2>3. AnswerKept(s) /\ s \notin Applied
    BY <1>2 DEF AnswerKept, Applied
  <2> QED BY <1>1, <2>1, <2>2, <2>3 DEF RowsInStep, SealedUnheld, Fate, Open
<1>6. Unsettled = {}
  BY <1>5 DEF Unsettled
<1>7. NewestUnsettled /\ BuildsSettled
  BY <1>6 DEF NewestUnsettled, BuildsSettled
<1>8. LatestIsAlive
  BY <1>1 DEF LatestIsAlive
<1>9. Ledger!Init
  <2>1. Applied = {}
    BY <1>5 DEF Applied
  <2> QED BY <1>5, <2>1 DEF Ledger!Init, Sealed
<1> QED BY <1>3, <1>4, <1>5, <1>7, <1>8, <1>9 DEF PackInv

LEMMA PackStep == PackInv /\ [PackNext]_vars => PackInv' /\ [Ledger!Next]_Ledger!ovars
<1> SUFFICES ASSUME PackInv, [PackNext]_vars PROVE PackInv' /\ (Quiet \/ Ledger!Next)
  BY DEF Quiet
<1>1. CASE ProviderStep
  <2>1. ASSUME NEW d \in Captured, NEW st \in Readiness, Plan(d, st) PROVE PackInv' /\ Quiet
    BY <2>1, PlanKeepsInv
  <2>2. ASSUME NEW s \in Sequence, NEW kind \in {"build", "activation"},
               Claim(kind, s) \/ ClaimExhausted(kind, s) \/ (\E st \in DeferStates : defer(kind, s, st))
        PROVE  PackInv' /\ Quiet
    BY <2>2, ClaimKeepsInv, ClaimExhaustedKeepsInv, DeferKeepsInv
  <2>3. CASE LeaseExpires
    BY <2>3, LeaseExpiresKeepsInv
  <2>4. ASSUME NEW s \in Sequence, NEW st \in Readiness, Seal(s, st) \/ Retire(s, st)
        PROVE  PackInv' /\ (Quiet \/ Ledger!Next)
    BY <2>4, SealKeepsInv, RetireKeepsInv DEF Ledger!Next
  <2>5. ASSUME NEW s \in Sequence, IntentExpires(s) \/ recordOperation(s) PROVE PackInv' /\ Quiet
    BY <2>5, IntentExpiresKeepsInv, RecordOperationKeepsInv
  <2>6. ASSUME NEW s \in Sequence, NEW i \in DOMAIN ops[s],
               recordReceipt(s, i) \/ (\E h \in DOMAIN heads : complete(s, i, h))
        PROVE  PackInv' /\ (Quiet \/ Ledger!Next)
    BY <2>6, RecordReceiptKeepsInv, CompleteKeepsInv DEF Ledger!Next
  <2>7. ASSUME NEW h \in DOMAIN heads, observeHead(h) PROVE PackInv' /\ Quiet
    BY <2>7, ObserveHeadKeepsInv
  <2> QED BY <1>1, <2>1, <2>2, <2>3, <2>4, <2>5, <2>6, <2>7, Zenon DEF ProviderStep
<1>2. CASE StoreStep
  <2>1. ASSUME NEW s \in Sequence, NEW i \in DOMAIN ops[s],
               start(s, i) \/ applyBatch(s, i) \/ finalize(s, i) \/ activate(s, i)
        PROVE  PackInv' /\ (Quiet \/ Ledger!Next)
    BY <2>1, StagingKeepsInv, ActivateKeepsInv DEF Ledger!Next
  <2>2. CASE hold \/ activateRetained \/ resume \/ \E x \in Snapshot : blockSnapshot(x)
    BY <2>2, CommandsKeepInv
  <2> QED BY <1>2, <2>1, <2>2, Zenon DEF StoreStep
<1>3. CASE UNCHANGED vars
  <2>1. PackTypeOK /\ UNCHANGED <<mirror, lease, builds, intents, ops, roots, heads, ledger, operator>>
    BY <1>3 DEF vars, PackInv
  <2>2. intents' = [t \in Sequence |-> intents'[t]] /\ builds' = [t \in Sequence |-> builds'[t]]
    BY <2>1, Zenon DEF PackTypeOK
  <2>3. \A t \in Sequence : IntentMoves(t) /\ BuildMoves(t)
    BY <2>1 DEF IntentMoves, BuildMoves
  <2>4. lease' \in LeaseRow
    BY <2>1 DEF PackTypeOK, LeaseRow
  <2> QED BY <2>1, <2>2, <2>3, <2>4, RowStep
<1> QED BY <1>1, <1>2, <1>3 DEF PackNext

LEMMA PackInvAlways == PackSpec => []PackInv
<1>1. PackInit => PackInv
  BY PackInitInv
<1>2. PackInv /\ [PackNext]_vars => PackInv'
  BY PackStep
<1> QED BY <1>1, <1>2, PTL DEF PackSpec

-----------------------------------------------------------------------------
(* What follows.                                                           *)

LEMMA UnsettledAtMostOne == PackInv => OneEpisodeUnsettled
<1> SUFFICES ASSUME PackInv PROVE Cardinality(reconciliation) <= 1
  BY DEF OneEpisodeUnsettled
<1>1. reconciliation \subseteq Unsettled
  <2> SUFFICES ASSUME NEW s \in reconciliation PROVE s \in Unsettled
    OBVIOUS
  <2>1. s \in Sequence /\ (s = mirror.accepted \/ unreconciledPackOperations(s))
    BY DEF reconciliation
  <2>2. s # 0
    BY <2>1, PackAssumption DEF Sequence
  <2>3. unreconciledPackOperations(s)
    BY <2>1, <2>2, AcceptedIsSealed, AppliedIsSent
  <2> QED BY <2>3 DEF reconciliation, Unsettled
<1>2. CASE reconciliation = {}
  BY <1>2, FS_EmptySet
<1>3. ASSUME NEW q \in reconciliation PROVE Cardinality(reconciliation) <= 1
  <2>1. reconciliation = {q}
    BY <1>1, <1>3, OneUnsettled
  <2> QED BY <2>1, FS_Singleton
<1> QED BY <1>2, <1>3

\* At any moment at most one intent of the current epoch may still change the
\* public head or is what changed it last without being settled, in well-typed
\* states and whatever work is deferred to (claim's `reconciliation` subquery in
\* provider-pack-publication-context.ts).
THEOREM OneEpisodeAlways == PackSpec => [](PackTypeOK /\ OneEpisodeUnsettled)
<1>1. PackInv => PackTypeOK /\ OneEpisodeUnsettled
  BY UnsettledAtMostOne DEF PackInv
<1> QED BY <1>1, PackInvAlways, PTL

\* A success is never thrown away: an intent whose activation was accepted is
\* superseded only once the operator has moved the epoch (observeHead keeps the
\* exact successful episode, and persist and claim the unreconciled ones).
THEOREM NoSuccessDiscardedAlways == PackSpec => []NoSuccessDiscarded
<1>1. PackInv => NoSuccessDiscarded
  BY AppliedIsSent DEF PackInv, Fate, NoSuccessDiscarded
<1> QED BY <1>1, PackInvAlways, PTL

\* Whatever is lost, late or repeated, an intent is published only after the
\* public store accepted its activation, which it does only for an intent that
\* was sealed: the publication implements ReliableOutbox.
THEOREM PublicationIsReliable == PackSpec => PublishedWasActivated
<1>1. PackInit => Ledger!Init
  BY PackInitInv
<1>2. PackInv /\ [PackNext]_vars => [Ledger!Next]_Ledger!ovars
  BY PackStep
<1> QED BY <1>1, <1>2, PackInvAlways, PTL DEF PackSpec, PublishedWasActivated, Ledger!Spec

-----------------------------------------------------------------------------
(* Given up is given up.                                                   *)

LEMMA NotAccepted ==
    ASSUME PackInv, [PackNext]_vars, NEW s \in Sequence, intents[s].state = "superseded", NEW i \in DOMAIN ledger[s],
           ledger[s][i] = "none", ops[s][i].kind = "activate"
    PROVE  ledger'[s][i] \notin Success
<1>1. PackTypeOK /\ i \in DOMAIN ops[s] /\ "none" \notin Success
  BY Row DEF PackInv, Success
<1>2. CASE UNCHANGED ledger
  BY <1>1, <1>2
<1>3. ASSUME NEW t \in Sequence, recordOperation(t) PROVE ledger'[s][i] \notin Success
  <2>1. ledger' = [ledger EXCEPT ![t] = Append(ledger[t], "none")]
    BY <1>3 DEF recordOperation
  <2>2. ledger[s] \in Seq(Outcomes) /\ DOMAIN ledger[s] = 1 .. Len(ledger[s]) /\ "none" \in Outcomes
    BY <1>1, Row DEF Outcomes
  <2>3. Append(ledger[s], "none")[i] = ledger[s][i]
    BY <2>2, AppendProperties
  <2>4. ledger'[s] = ledger[s] \/ ledger'[s] = Append(ledger[s], "none")
    BY <1>1, <2>1, Zenon DEF PackTypeOK
  <2> QED BY <1>1, <2>3, <2>4
\* An answer to another request, or to this one.
<1>4. ASSUME NEW t \in Sequence, NEW j \in DOMAIN ops[t], NEW o \in Outcomes, Answer(t, j, o), t # s \/ j # i
      PROVE  ledger'[s][i] \notin Success
  <2>1. j \in DOMAIN ledger[t]
    BY <1>1, Row
  <2>2. ledger'[s][i] = ledger[s][i]
    BY <1>1, <1>4, <2>1, LedgerEntry
  <2> QED BY <1>1, <2>2
<1>5. ASSUME NEW t \in Sequence, NEW j \in DOMAIN ops[t], start(t, j) \/ applyBatch(t, j) \/ finalize(t, j)
      PROVE  ledger'[s][i] \notin Success
  <2>1. t # s \/ j # i
    BY <1>5 DEF start, applyBatch, finalize, Receive
  <2>2. {"applied", "already_applied", "conflict", "refused"} \subseteq Outcomes
    BY DEF Outcomes, Success
  <2>3. \E o \in {"applied", "already_applied", "conflict", "refused"} : Answer(t, j, o)
    <3>1. CASE start(t, j)
      BY <3>1 DEF start, Answer
    <3>2. CASE applyBatch(t, j)
      BY <3>2, Zenon DEF applyBatch
    <3>3. CASE finalize(t, j)
      BY <3>3, Zenon DEF finalize
    <3> QED BY <1>5, <3>1, <3>2, <3>3
  <2> QED BY <1>4, <2>1, <2>2, <2>3
<1>6. ASSUME NEW t \in Sequence, NEW j \in DOMAIN ops[t], activate(t, j) PROVE ledger'[s][i] \notin Success
  <2>1. \/ Answer(t, j, "refused") \/ Answer(t, j, "conflict")
        \/ ExpectedHead(t) /\ (Answer(t, j, "already_active") \/ Answer(t, j, "applied"))
    BY <1>6, Zenon DEF activate
  <2>2. {"refused", "conflict", "already_active", "applied"} \subseteq Outcomes /\ {"refused", "conflict"} \cap Success = {}
    BY DEF Outcomes, Success
  <2>3. CASE t # s \/ j # i
    BY <1>4, <2>1, <2>2, <2>3
  <2>4. CASE t = s /\ j = i
    <3>1. ~ExpectedHead(s)
      BY <1>1, AcceptedIsWanted
    <3>2. PICK o \in {"refused", "conflict"} : Answer(s, i, o)
      BY <2>1, <2>4, <3>1
    <3>3. ledger'[s][i] = o
      BY <1>1, <2>2, <3>2, LedgerEntry
    <3> QED BY <2>2, <3>2, <3>3
  <2> QED BY <2>3, <2>4
<1>7. CASE ProviderStep
  <2>1. UNCHANGED ledger \/ \E t \in Sequence : recordOperation(t)
    <3>1. ASSUME NEW t \in Sequence, NEW kind \in {"build", "activation"},
                 Claim(kind, t) \/ ClaimExhausted(kind, t) \/ (\E st \in DeferStates : defer(kind, t, st))
          PROVE  UNCHANGED ledger
      BY <3>1, Zenon DEF Claim, ClaimExhausted, defer
    <3>2. ASSUME NEW t \in Sequence, NEW st \in Readiness, Seal(t, st) \/ Retire(t, st) PROVE UNCHANGED ledger
      BY <3>2, Zenon DEF Seal, Retire
    <3>3. ASSUME NEW t \in Sequence, NEW j \in DOMAIN ops[t],
                 recordReceipt(t, j) \/ (\E h \in DOMAIN heads : complete(t, j, h))
          PROVE  UNCHANGED ledger
      BY <3>3, Zenon DEF recordReceipt, complete
    <3>4. ASSUME NEW t \in Sequence, IntentExpires(t) PROVE UNCHANGED ledger
      BY <3>4 DEF IntentExpires
    <3>5. ASSUME NEW h \in DOMAIN heads, observeHead(h) PROVE UNCHANGED ledger
      BY <3>5, Zenon DEF observeHead
    <3>6. ASSUME LeaseExpires \/ \E d \in Captured, st \in Readiness : Plan(d, st) PROVE UNCHANGED ledger
      BY <3>6 DEF LeaseExpires, Plan
    <3> QED BY <1>7, <3>1, <3>2, <3>3, <3>4, <3>5, <3>6, Zenon DEF ProviderStep
  <2> QED BY <1>2, <1>3, <2>1
<1>8. CASE StoreStep
  <2>1. CASE hold \/ activateRetained \/ resume \/ \E x \in Snapshot : blockSnapshot(x)
    <3>1. UNCHANGED ledger
      BY <2>1 DEF hold, activateRetained, resume, blockSnapshot, Command
    <3> QED BY <1>2, <3>1
  <2>2. ASSUME NEW t \in Sequence, NEW j \in DOMAIN ops[t],
               start(t, j) \/ applyBatch(t, j) \/ finalize(t, j) \/ activate(t, j)
        PROVE  ledger'[s][i] \notin Success
    BY <1>5, <1>6, <2>2
  <2> QED BY <1>8, <2>1, <2>2, Zenon DEF StoreStep
<1> QED BY <1>2, <1>7, <1>8 DEF PackNext, vars

\* Work the provider has given up never reaches the public: an activation that a
\* superseded intent left behind is refused, however late its request arrives
\* ("Only explicit receipt/head reconciliation may retire those episodes",
\* provider-pack-publication-context.ts).
THEOREM SupersededStaysPrivateAlways == PackSpec => SupersededStaysPrivate
<1>1. ASSUME PackInv, [PackNext]_vars
      PROVE  [\A s \in Sequence : intents[s].state = "superseded" =>
                \A i \in DOMAIN ledger[s] : ledger[s][i] = "none" /\ ops[s][i].kind = "activate" =>
                   ledger'[s][i] \notin Success]_vars
  BY <1>1, NotAccepted
<1>2. PackInv /\ [PackNext]_vars =>
        [\A s \in Sequence : intents[s].state = "superseded" =>
           \A i \in DOMAIN ledger[s] : ledger[s][i] = "none" /\ ops[s][i].kind = "activate" =>
              ledger'[s][i] \notin Success]_vars
  BY <1>1
<1> QED BY <1>2, PackInvAlways, PTL DEF PackSpec, SupersededStaysPrivate

-----------------------------------------------------------------------------
(* The latest desired state lives.                                         *)

\* The latest rows stay, or change without being superseded.
LEMMA LatestStays ==
    ASSUME LatestIsAlive, mirror'.latest = mirror.latest, mirror'.epoch = mirror.epoch,
           mirror.latest \in Sequence =>
             /\ \/ builds'[mirror.latest] = builds[mirror.latest]
                \/ /\ builds'[mirror.latest].state # "superseded"
                   /\ builds'[mirror.latest].epoch = builds[mirror.latest].epoch
             /\ \/ intents'[mirror.latest].state # "superseded"
                \/ intents'[mirror.latest].state = intents[mirror.latest].state,
           PackTypeOK
    PROVE  LatestIsAlive'
<1>1. mirror.latest > 0 => mirror.latest \in Sequence
  BY PackAssumption DEF PackTypeOK, Sequence
<1> QED BY <1>1 DEF LatestIsAlive

\* A desired state that was just added is not superseded.
LEMMA LatestPlanned ==
    ASSUME PackInv, NEW d, NEW st \in Readiness, NEW lb, mirror.latest < MaxSequence,
           builds' = PersistBuilds(d, st, lb), mirror' = [mirror EXCEPT !.latest = @ + 1],
           intents'[mirror.latest + 1] = intents[mirror.latest + 1]
    PROVE  LatestIsAlive'
<1> DEFINE n == mirror.latest + 1
<1>1. PackTypeOK /\ mirror.latest \in Nat /\ n \in Sequence /\ mirror'.latest = n /\ n > mirror.latest
  BY PackAssumption DEF PackInv, PackTypeOK, Sequence
<1>2. builds'[n].state = st /\ st # "superseded"
  <2>1. builds'[n] = [state |-> st, reason |-> IF st = "ready" THEN "none" ELSE "data", desire |-> d,
                      epoch |-> mirror.epoch, request |-> st = "ready", attempts |-> 0]
    BY <1>1, Zenon DEF PersistBuilds
  <2> QED BY <2>1, PackAssumption
<1>3. intents'[n].state # "superseded"
  <2>1. ~Sealed(n)
    BY <1>1, NoRow DEF PackInv, RowsInStep
  <2> QED BY <2>1, NoRow, StatesAre DEF Sealed
<1> QED BY <1>1, <1>2, <1>3 DEF LatestIsAlive

LEMMA LatestClaim ==
    ASSUME PackInv, LatestIsAlive, NEW s \in Sequence, NEW kind \in {"build", "activation"}, Claim(kind, s)
    PROVE  LatestIsAlive'
<1> DEFINE n == mirror.latest
<1>1. PackTypeOK /\ mirror' = mirror /\ s \in eligible(kind)
  BY DEF Claim, PackInv
<1>2. s <= n /\ n \in Nat /\ s \in Nat
  <2>1. n \in Nat /\ s \in Nat
    BY <1>1, PackAssumption DEF PackTypeOK, Sequence
  <2>2. CASE s = n
    BY <2>1, <2>2
  <2>3. CASE s \in reconciliation
    <3>1. Sealed(s)
      BY <1>1, <2>3, Row, StatesAre DEF reconciliation
    <3> QED BY <2>1, <3>1, SealedRow
  <2> QED BY <1>1, <2>2, <2>3, Zenon DEF eligible
<1>3. ASSUME n \in Sequence
      PROVE  /\ \/ builds'[n] = builds[n]
                \/ builds'[n].state # "superseded" /\ builds'[n].epoch = builds[n].epoch
             /\ \/ intents'[n].state # "superseded"
                \/ intents'[n].state = intents[n].state
  <2>1. ~(n < s)
    BY <1>2
  <2>2. StaleBuilds(s)[n] = builds[n] /\ StaleIntents(s)[n] = intents[n]
    BY <1>3, <2>1, Zenon DEF StaleBuilds, StaleIntents
  <2>3. CASE kind = "build"
    <3>1. /\ builds' = [StaleBuilds(s) EXCEPT ![s] = Claimed(StaleBuilds(s)[s])] /\ builds[s].attempts < MaxAttempts
          /\ intents' = StaleIntents(s)
      BY <2>3 DEF Claim, StaleBuilds, Claimed
    <3>2. builds'[n] = builds[n] \/ (builds'[n] = Claimed(builds[n]) /\ s = n)
      <4> HIDE DEF Claimed
      <4> QED BY <1>3, <2>2, <3>1, Zenon DEF StaleBuilds
    <3>3. s = n => Claimed(builds[n]).state = "publishing" /\ Claimed(builds[n]).epoch = builds[n].epoch
      <4>1. builds[s] \in Build
        BY <1>1, <2>3, BuildClaims, Row, StatesAre
      <4> QED BY <3>1, <4>1, ClaimedRow
    <3> QED BY <2>2, <3>1, <3>2, <3>3
  <2>4. CASE kind = "activation"
    <3>1. /\ intents' = [StaleIntents(s) EXCEPT ![s] = Claimed(StaleIntents(s)[s])] /\ intents[s].attempts < MaxAttempts
          /\ builds' = StaleBuilds(s) /\ intents[s].state \in Open
      BY <1>1, <2>4 DEF Claim, StaleIntents, Claimed, eligible
    <3>2. intents'[n] = intents[n] \/ (intents'[n] = Claimed(intents[n]) /\ s = n)
      <4> HIDE DEF Claimed
      <4> QED BY <1>3, <2>2, <3>1, Zenon DEF StaleIntents
    <3>3. s = n => Claimed(intents[n]).state = "publishing"
      <4>1. intents[s] \in Intent
        BY <1>1, <3>1, Row, StatesAre
      <4> QED BY <3>1, <4>1, ClaimedRow
    <3> QED BY <2>2, <3>1, <3>2, <3>3
  <2> QED BY <2>3, <2>4
<1> QED BY <1>1, <1>3, LatestStays

\* One row turns, which the latest may not to "superseded".
LEMMA LatestTurns ==
    ASSUME PackInv, LatestIsAlive, NEW s \in Sequence, NEW st \in States, mirror'.latest = mirror.latest,
           mirror'.epoch = mirror.epoch, st = "superseded" => s # mirror.latest,
           \/ builds[s] \in Build /\ UNCHANGED intents
              /\ \E r \in Reasons : builds' = [builds EXCEPT ![s].state = st, ![s].reason = r]
           \/ intents[s] \in Intent /\ UNCHANGED builds /\ intents' = [intents EXCEPT ![s].state = st]
    PROVE  LatestIsAlive'
<1> DEFINE n == mirror.latest
<1>1. builds \in [Sequence -> {NoBuild} \cup Build] /\ intents \in [Sequence -> {NoIntent} \cup Intent] /\ PackTypeOK
  BY DEF PackInv, PackTypeOK
<1>2. ASSUME n \in Sequence, builds[s] \in Build, NEW r \in Reasons,
             builds' = [builds EXCEPT ![s].state = st, ![s].reason = r]
      PROVE  \/ builds'[n] = builds[n]
             \/ builds'[n].state # "superseded" /\ builds'[n].epoch = builds[n].epoch
  <2>1. builds' = [builds EXCEPT ![s] = TurnedFor(builds[s], st, r)]
    BY <1>2 DEF TurnedFor
  <2>2. builds'[n] = builds[n] \/ (builds'[n] = TurnedFor(builds[s], st, r) /\ s = n)
    <3> HIDE DEF n
    <3> QED BY <1>1, <1>2, <2>1, Zenon
  <2>3. TurnedFor(builds[s], st, r).state = st /\ TurnedFor(builds[s], st, r).epoch = builds[s].epoch
    <3> DEFINE b == builds[s]
    <3>1. TurnedFor(b, st, r).state = st /\ TurnedFor(b, st, r).epoch = b.epoch
      BY <1>2, TurnedForBuild
    <3> QED BY <3>1
  <2> QED BY <2>2, <2>3
<1>3. ASSUME n \in Sequence, intents[s] \in Intent, intents' = [intents EXCEPT ![s].state = st]
      PROVE  intents'[n].state # "superseded" \/ intents'[n].state = intents[n].state
  <2>1. intents' = [intents EXCEPT ![s] = Turned(intents[s], st)]
    BY <1>3 DEF Turned
  <2>2. intents'[n] = intents[n] \/ (intents'[n] = Turned(intents[s], st) /\ s = n)
    <3> HIDE DEF n
    <3> QED BY <1>1, <1>3, <2>1, Zenon
  <2>3. Turned(intents[s], st).state = st
    BY <1>3, TurnedIntent
  <2> QED BY <2>2, <2>3
<1>4. n \in Sequence =>
        /\ \/ builds'[n] = builds[n]
           \/ builds'[n].state # "superseded" /\ builds'[n].epoch = builds[n].epoch
        /\ \/ intents'[n].state # "superseded"
           \/ intents'[n].state = intents[n].state
  BY <1>2, <1>3
<1> QED BY <1>1, <1>4, LatestStays

LEMMA LatestRowSteps ==
    ASSUME PackInv, LatestIsAlive, "superseded" \notin DeferStates, NEW s \in Sequence
    PROVE  /\ \A kind \in {"build", "activation"} : ClaimExhausted(kind, s) => LatestIsAlive'
           /\ \A kind \in {"build", "activation"}, st \in DeferStates : defer(kind, s, st) => LatestIsAlive'
           /\ \A st \in Readiness : Seal(s, st) => LatestIsAlive'
           /\ \A i \in DOMAIN ops[s], h \in DOMAIN heads : complete(s, i, h) => LatestIsAlive'
<1>1. PackTypeOK /\ s \in Nat /\ mirror.latest \in Nat
  BY PackAssumption DEF PackInv, PackTypeOK, Sequence
<1>2. {"blocked", "published", "ready", "waiting", "retry_scheduled", "superseded"} \subseteq States
  BY DEF States, Open
<1>3. ASSUME NEW kind \in {"build", "activation"}, ClaimExhausted(kind, s) PROVE LatestIsAlive'
  <2>1. mirror' = mirror
    BY <1>3 DEF ClaimExhausted
  <2>2. CASE kind = "build"
    <3>1. builds[s] \in Build
      BY <1>1, <1>3, <2>2, Row, StatesAre DEF ClaimExhausted, eligible
    <3> QED BY <1>2, <1>3, <2>1, <2>2, <3>1, LatestTurns, ReasonsAre DEF ClaimExhausted
  <2>3. CASE kind = "activation"
    <3>1. intents[s] \in Intent
      BY <1>1, <1>3, <2>3, Row, StatesAre DEF ClaimExhausted, eligible
    <3> QED BY <1>2, <1>3, <2>1, <2>3, <3>1, LatestTurns DEF ClaimExhausted
  <2> QED BY <2>2, <2>3
<1>4. ASSUME NEW kind \in {"build", "activation"}, NEW st \in DeferStates, defer(kind, s, st) PROVE LatestIsAlive'
  <2> DEFINE reconciling == kind = "activation" /\ (mirror.accepted = s \/ unreconciledPackOperations(s))
             next == IF mirror.latest > s /\ ~reconciling THEN "superseded" ELSE st
  <2>1. mirror' = mirror
    BY <1>4 DEF defer
  <2>2. next \in States /\ (next = "superseded" => s # mirror.latest)
    BY <1>1, <1>2, PackAssumption
  <2>3. \/ kind = "build" /\ builds' = [builds EXCEPT ![s].state = next, ![s].reason = "other"] /\ UNCHANGED intents
           /\ builds[s].state = "publishing"
        \/ kind = "activation" /\ intents' = [intents EXCEPT ![s].state = next] /\ UNCHANGED builds
           /\ intents[s].state = "publishing"
    BY <1>4 DEF defer, lockLease
  <2> HIDE DEF next
  <2>4. CASE kind = "build"
    <3>1. builds[s] \in Build
      BY <1>1, <2>3, <2>4, Row, StatesAre
    <3> QED BY <2>1, <2>2, <2>3, <2>4, <3>1, LatestTurns, ReasonsAre
  <2>5. CASE kind = "activation"
    <3>1. intents[s] \in Intent
      BY <1>1, <2>3, <2>5, Row, StatesAre
    <3> QED BY <2>1, <2>2, <2>3, <2>5, <3>1, LatestTurns
  <2> QED BY <2>4, <2>5
<1>5. ASSUME NEW st \in Readiness, Seal(s, st) PROVE LatestIsAlive'
  <2>1. mirror' = mirror /\ builds[s].state = "publishing"
    BY <1>5 DEF Seal, lockLease
  <2>2. builds[s] \in Build
    BY <1>1, <2>1, Row, StatesAre
  <2>3. CASE st # "ready"
    <3>1. builds' = [builds EXCEPT ![s].state = st, ![s].reason = "data"] /\ UNCHANGED intents
      BY <1>5, <2>3 DEF Seal
    <3>2. st \in States /\ st # "superseded"
      BY <1>2, PackAssumption
    <3> QED BY <2>1, <2>2, <3>1, <3>2, LatestTurns, ReasonsAre
  <2>4. CASE st = "ready"
    <3> DEFINE new == [state |-> "ready", snap |-> builds[s].desire.snap, attempts |-> 0, expired |-> FALSE,
                       expected |-> [generation |-> mirror.generation, epoch |-> mirror.epoch, active |-> mirror.active]]
               b == builds[s]
    <3>1. mirror.latest = s /\ builds' = [builds EXCEPT ![s] = TurnedFor(b, "published", "none")]
          /\ intents' = [intents EXCEPT ![s] = new]
      BY <1>5, <2>4 DEF Seal, TurnedFor
    <3>2. new.state = "ready"
      OBVIOUS
    <3> HIDE DEF new
    <3>3. builds'[s] = TurnedFor(b, "published", "none") /\ intents'[s] = new
      BY <1>1, <3>1, Zenon DEF PackTypeOK
    <3>4. TurnedFor(b, "published", "none").state = "published" /\ TurnedFor(b, "published", "none").epoch = b.epoch
      <4>1. "published" \in States /\ "none" \in Reasons
        BY StatesAre, ReasonsAre
      <4> HIDE DEF b
      <4>2. ASSUME b \in Build PROVE TurnedFor(b, "published", "none").state = "published"
                                     /\ TurnedFor(b, "published", "none").epoch = b.epoch
        BY <4>1, <4>2, TurnedForBuild
      <4> QED BY <2>2, <4>2 DEF b
    <3> QED BY <1>1, <2>1, <3>1, <3>2, <3>3, <3>4, LatestStays
  <2> QED BY <2>3, <2>4
<1>6. ASSUME NEW i \in DOMAIN ops[s], NEW h \in DOMAIN heads, complete(s, i, h) PROVE LatestIsAlive'
  <2>1. /\ intents' = [intents EXCEPT ![s].state = "published"] /\ UNCHANGED builds /\ intents[s].state = "publishing"
        /\ heads[h].epoch = intents[s].expected.epoch /\ heads[h].epoch >= mirror.epoch
        /\ mirror' = [mirror EXCEPT !.generation = heads[h].generation, !.epoch = heads[h].epoch, !.held = heads[h].held,
                                    !.accepted = heads[h].sequence, !.active = heads[h].active]
    BY <1>6 DEF complete, lockLease
  <2>2. intents[s] \in Intent /\ Sealed(s)
    BY <1>1, <2>1, Row, StatesAre
  <2>3. heads[h].epoch = mirror.epoch
    <3>1. intents[s].expected.epoch <= mirror.epoch /\ intents[s].expected.epoch \in Nat /\ mirror.epoch \in Nat
      BY <2>2, SealedRow
    <3> QED BY <2>1, <3>1
  <2>4. mirror'.latest = mirror.latest /\ mirror'.epoch = mirror.epoch
    BY <1>1, <2>1, <2>3 DEF PackTypeOK
  <2> QED BY <1>2, <2>1, <2>2, <2>4, LatestTurns
<1> QED BY <1>3, <1>4, <1>5, <1>6

LEMMA LatestRetire ==
    ASSUME PackInv, LatestIsAlive, NEW s \in Sequence, NEW st \in Readiness, Retire(s, st)
    PROVE  LatestIsAlive'
<1> DEFINE n == mirror.latest + 1
<1>1. PackTypeOK /\ s \in Nat /\ mirror.latest \in Nat /\ intents[s].state = "publishing"
  BY PackAssumption DEF PackInv, PackTypeOK, Sequence, Retire, lockLease
<1>2. intents[s] \in Intent /\ Sealed(s)
  BY <1>1, Row, StatesAre
<1>3. CASE mirror.latest > s
  <2>1. intents' = [intents EXCEPT ![s].state = "superseded"] /\ UNCHANGED <<mirror, builds>>
    BY <1>3 DEF Retire
  <2>2. "superseded" \in States /\ s # mirror.latest
    BY <1>1, <1>3, StatesAre
  <2> QED BY <1>2, <2>1, <2>2, LatestTurns
<1>4. CASE ~(mirror.latest > s)
  <2>1. /\ mirror.latest < MaxSequence /\ builds' = PersistBuilds(builds[s].desire, st, 0)
        /\ intents' = [PersistIntents(0) EXCEPT ![s].state = "superseded"]
        /\ mirror' = [mirror EXCEPT !.latest = @ + 1]
    BY <1>4 DEF Retire
  <2>2. n \in Sequence /\ n # s /\ ~(n <= mirror.latest)
    <3>1. s <= mirror.latest
      BY <1>2, SealedRow
    <3> QED BY <1>1, <2>1, <3>1, PackAssumption DEF Sequence
  <2>3. intents'[n] = intents[n]
    BY <2>1, <2>2, Zenon DEF PersistIntents, Idle
  <2> QED BY <2>1, <2>3, LatestPlanned
<1> QED BY <1>3, <1>4

LEMMA LatestObserve ==
    ASSUME PackInv, LatestIsAlive, NEW h \in DOMAIN heads, observeHead(h)
    PROVE  LatestIsAlive'
<1> DEFINE n == mirror.latest
           exact(t) == intents[t].snap = heads[h].active /\ t = heads[h].sequence
                       /\ intents[t].expected.epoch = heads[h].epoch
           row == TurnedFor(builds[n], "superseded", "other")
<1>1. /\ PackTypeOK /\ Observable(heads[h]) /\ heads[h].epoch >= mirror.epoch /\ n > 0
      /\ mirror' = [mirror EXCEPT !.generation = heads[h].generation, !.epoch = heads[h].epoch, !.held = heads[h].held,
                                  !.accepted = heads[h].sequence, !.active = heads[h].active]
  BY DEF observeHead, Observable, PackInv
<1>2. n \in Sequence /\ n \in Nat /\ mirror'.latest = n /\ mirror'.epoch = heads[h].epoch
      /\ heads[h].epoch \in Nat /\ mirror.epoch \in Nat
  BY <1>1, HeadRead, PackAssumption DEF PackTypeOK, Sequence
<1>3. /\ \/ builds'[n] = builds[n]
         \/ /\ builds'[n] = row /\ builds[n].state \in Open
            /\ builds[n].epoch # heads[h].epoch \/ builds[n].desire.base \notin {None, heads[h].active}
      /\ \/ intents'[n] = intents[n]
         \/ intents[n].state \in Open /\ ~exact(n)
  BY <1>2, Zenon DEF observeHead, TurnedFor
<1>4. builds[n].state \in Open => row.epoch = builds[n].epoch /\ row.desire = builds[n].desire
  <2> SUFFICES ASSUME builds[n].state \in Open PROVE row.epoch = builds[n].epoch /\ row.desire = builds[n].desire
    OBVIOUS
  <2> DEFINE b == builds[n]
  <2>1. b \in Build /\ "superseded" \in States
    BY <1>1, <1>2, Row, StatesAre
  <2>2. TurnedFor(b, "superseded", "other").epoch = b.epoch /\ TurnedFor(b, "superseded", "other").desire = b.desire
    BY <2>1, ReasonsAre, TurnedForBuild
  <2> QED BY <2>2
<1> HIDE DEF row
<1> SUFFICES ASSUME builds'[n].epoch = heads[h].epoch
             PROVE  /\ builds'[n].state # "superseded" \/ builds'[n].desire.base # None
                    /\ intents'[n].state # "superseded"
  BY <1>2 DEF LatestIsAlive
<1>5. builds[n].epoch = heads[h].epoch /\ heads[h].epoch = mirror.epoch
  <2>1. builds[n].epoch = heads[h].epoch
    BY <1>3, <1>4
  <2>2. builds[n].epoch <= mirror.epoch
    BY <1>2 DEF PackInv, RowsInStep
  <2> QED BY <1>1, <1>2, <2>1, <2>2
<1>6. /\ builds[n].state # "superseded" \/ builds[n].desire.base # None
      /\ intents[n].state # "superseded"
  BY <1>1, <1>5 DEF LatestIsAlive
<1>7. builds'[n].state # "superseded" \/ builds'[n].desire.base # None
  BY <1>3, <1>4, <1>5, <1>6
<1>8. ASSUME intents[n].state \in Open, ~exact(n) PROVE FALSE
  <2>1. Sealed(n)
    BY <1>1, <1>2, <1>8, Row, StatesAre
  <2>2. intents[n].expected.epoch = mirror.epoch /\ ~mirror.held
    BY <1>2, <1>5, <2>1 DEF PackInv, RowsInStep, SealedUnheld
  <2>3. heads[h].sequence \in Unsettled
    BY <1>1, <1>5, <2>2, SameEpochRead
  <2>4. heads[h].sequence \in Sequence /\ heads[h].sequence \in Nat /\ Sealed(heads[h].sequence)
    BY <1>1, HeadRead, AppliedIsSent DEF PackInv, HeadsOfIntents
  <2>5. heads[h].sequence = n
    <3>1. heads[h].sequence <= n
      BY <2>4, SealedRow
    <3>2. ~(n > heads[h].sequence)
      BY <1>2, <2>1, <2>3 DEF PackInv, NewestUnsettled
    <3> QED BY <1>2, <2>4, <3>1, <3>2
  <2>6. intents[n].snap = heads[h].active
    BY <1>5, <2>2, <2>5 DEF PackInv, HeadsOfIntents
  <2> QED BY <1>5, <1>8, <2>2, <2>5, <2>6
<1> HIDE DEF exact
<1> QED BY <1>3, <1>6, <1>7, <1>8

LEMMA LatestStep == PackInv /\ LatestIsAlive /\ "superseded" \notin DeferStates /\ [PackNext]_vars => LatestIsAlive'
<1> SUFFICES ASSUME PackInv, LatestIsAlive, "superseded" \notin DeferStates, [PackNext]_vars PROVE LatestIsAlive'
  OBVIOUS
<1> DEFINE n == mirror.latest
<1>1. PackTypeOK
  BY DEF PackInv
<1>2. CASE UNCHANGED <<mirror, builds, intents>>
  BY <1>2 DEF LatestIsAlive
<1>3. ASSUME NEW d \in Captured, NEW st \in Readiness, Plan(d, st) PROVE LatestIsAlive'
  <2>1. /\ n < MaxSequence /\ builds' = PersistBuilds(d, st, Leased("build"))
        /\ intents' = PersistIntents(Leased("activation")) /\ mirror' = [mirror EXCEPT !.latest = @ + 1]
    BY <1>3 DEF Plan
  <2>2. n + 1 \in Sequence /\ ~(n + 1 <= n)
    BY <1>1, <2>1, PackAssumption DEF PackTypeOK, Sequence
  <2>3. intents'[n + 1] = intents[n + 1]
    BY <2>1, <2>2, Zenon DEF PersistIntents, Idle
  <2> QED BY <2>1, <2>3, LatestPlanned
<1>4. ASSUME NEW s \in Sequence, IntentExpires(s) PROVE LatestIsAlive'
  <2>1. /\ UNCHANGED <<mirror, builds>> /\ intents[s].state \in Open \cup {"blocked"}
        /\ intents' = [intents EXCEPT ![s] = [intents[s] EXCEPT !.expired = TRUE]]
    BY <1>4 DEF IntentExpires
  <2>2. [intents[s] EXCEPT !.expired = TRUE].state = intents[s].state
    <3>1. intents[s] \in Intent
      BY <1>1, <2>1, Row, StatesAre
    <3> QED BY <3>1 DEF Intent
  <2>3. n \in Sequence => intents'[n].state = intents[n].state
    BY <1>1, <2>1, <2>2 DEF PackTypeOK
  <2> QED BY <1>1, <2>1, <2>3, LatestStays
<1>5. CASE ProviderStep
  <2>1. ASSUME NEW s \in Sequence, NEW kind \in {"build", "activation"},
               Claim(kind, s) \/ ClaimExhausted(kind, s) \/ (\E st \in DeferStates : defer(kind, s, st))
        PROVE  LatestIsAlive'
    BY <2>1, LatestClaim, LatestRowSteps
  <2>2. CASE LeaseExpires
    BY <1>2, <2>2 DEF LeaseExpires
  <2>3. ASSUME NEW s \in Sequence, NEW st \in Readiness, Seal(s, st) \/ Retire(s, st) PROVE LatestIsAlive'
    BY <2>3, LatestRowSteps, LatestRetire
  <2>4. ASSUME NEW s \in Sequence, recordOperation(s) PROVE LatestIsAlive'
    BY <1>2, <2>4 DEF recordOperation, provider
  <2>5. ASSUME NEW s \in Sequence, NEW i \in DOMAIN ops[s],
               recordReceipt(s, i) \/ (\E h \in DOMAIN heads : complete(s, i, h))
        PROVE  LatestIsAlive'
    <3>1. CASE recordReceipt(s, i)
      BY <1>2, <3>1 DEF recordReceipt, provider
    <3>2. CASE \E h \in DOMAIN heads : complete(s, i, h)
      BY <3>2, LatestRowSteps
    <3> QED BY <2>5, <3>1, <3>2
  <2> QED BY <1>3, <1>4, <1>5, <2>1, <2>2, <2>3, <2>4, <2>5, LatestObserve, Zenon DEF ProviderStep
<1>6. CASE StoreStep
  <2>1. CASE hold \/ activateRetained \/ resume \/ \E x \in Snapshot : blockSnapshot(x)
    BY <1>2, <2>1 DEF hold, activateRetained, resume, blockSnapshot, Command, provider
  <2>2. ASSUME NEW s \in Sequence, NEW i \in DOMAIN ops[s],
               start(s, i) \/ applyBatch(s, i) \/ finalize(s, i) \/ activate(s, i)
        PROVE  LatestIsAlive'
    <3>1. \E kind \in {"start", "batch", "finalize", "activate"} : Receive(s, i, kind)
      BY <2>2, Zenon DEF start, applyBatch, finalize, activate
    <3> QED BY <1>2, <3>1 DEF Receive, provider
  <2> QED BY <1>6, <2>1, <2>2, Zenon DEF StoreStep
<1>7. CASE UNCHANGED vars
  BY <1>2, <1>7 DEF vars
<1> QED BY <1>5, <1>6, <1>7 DEF PackNext

\* A driver that never defers work to 'superseded' loses no latest desired state
\* while the public epoch stands, and leaves one unsettled episode at most
\* (persist, retireInTransaction, observeHead and defer).
THEOREM PackInvariantAlways == ASSUME "superseded" \notin DeferStates PROVE PackSpec => []PackInvariant
<1>1. PackInit => LatestIsAlive
  BY PackInitInv
<1>2. PackInv /\ LatestIsAlive /\ [PackNext]_vars => LatestIsAlive'
  BY LatestStep
<1>3. PackInv /\ LatestIsAlive => PackInvariant
  BY UnsettledAtMostOne DEF PackInv, PackInvariant
<1> QED BY <1>1, <1>2, <1>3, PackInvAlways, PTL DEF PackSpec
=============================================================================

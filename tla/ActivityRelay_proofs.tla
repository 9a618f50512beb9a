------------------------ MODULE ActivityRelay_proofs ------------------------
(***************************************************************************)
(* Theorems about ActivityRelay, for every set of coordinators, providers  *)
(* and events, every batch, page and concurrency limit, and however many   *)
(* calls fail.                                                             *)
(***************************************************************************)
EXTENDS ActivityRelay, FiniteSetTheorems, SequenceTheorems, TLAPS

-----------------------------------------------------------------------------
(* The operators the steps are built from.                                 *)

\* The smaller of two numbers, and the latest of three.
LEMMA MinOfTwo ==
    ASSUME NEW a \in Nat, NEW b \in Nat
    PROVE  Min({a, b}) \in {a, b} /\ Min({a, b}) <= a /\ Min({a, b}) <= b
<1>1. \E x \in {a, b} : \A y \in {a, b} : x <= y
  OBVIOUS
<1> QED BY <1>1, Zenon DEF Min

LEMMA MaxInSet ==
    ASSUME NEW a \in Int, NEW b \in Int, NEW c \in Int
    PROVE  Max({a, b, c}) \in {a, b, c} /\ Max({a, b}) \in {a, b}
<1>1. \E x \in {a, b, c} : \A y \in {a, b, c} : x >= y
  OBVIOUS
<1>2. \E x \in {a, b} : \A y \in {a, b} : x >= y
  OBVIOUS
<1> QED BY <1>1, <1>2, Zenon DEF Max

\* The members of a finite set of numbers are numbered 1, 2, ... by how many are
\* not above them.
LEMMA EveryRankIsTaken ==
    ASSUME NEW S \in SUBSET Nat, IsFiniteSet(S), NEW n \in 1 .. Cardinality(S)
    PROVE  \E i \in S : Cardinality({j \in S : j <= i}) = n
<1> DEFINE upTo(i) == {j \in S : j <= i}
           rank == [i \in S |-> Cardinality(upTo(i))]
<1>1. \A i \in S : IsFiniteSet(upTo(i)) /\ Cardinality(upTo(i)) \in 1 .. Cardinality(S)
  <2> SUFFICES ASSUME NEW i \in S
               PROVE  IsFiniteSet(upTo(i)) /\ Cardinality(upTo(i)) \in 1 .. Cardinality(S)
    OBVIOUS
  <2>1. upTo(i) \in SUBSET S /\ i \in upTo(i)
    OBVIOUS
  <2>2. IsFiniteSet(upTo(i)) /\ Cardinality(upTo(i)) <= Cardinality(S)
    BY <2>1, FS_Subset
  <2>3. Cardinality(upTo(i)) \in Nat /\ Cardinality(upTo(i)) # 0 /\ Cardinality(S) \in Nat
    BY <2>1, <2>2, FS_EmptySet, FS_CardinalityType
  <2> QED BY <2>2, <2>3
<1>2. rank \in Injection(S, 1 .. Cardinality(S))
  <2>1. ASSUME NEW i \in S, NEW k \in S, i < k PROVE rank[i] < rank[k]
    <3>1. upTo(i) \in SUBSET upTo(k) /\ k \in upTo(k) /\ k \notin upTo(i)
      <4>1. \A j \in S : j <= i => j <= k
        BY <2>1
      <4>2. ~(k <= i) /\ k <= k
        BY <2>1
      <4> QED BY <4>1, <4>2
    <3>2. IsFiniteSet(upTo(k)) /\ IsFiniteSet(upTo(i)) /\ rank[i] \in Nat /\ rank[k] \in Nat
      BY <1>1
    <3>3. Cardinality(upTo(i)) <= Cardinality(upTo(k))
          /\ (Cardinality(upTo(k)) = Cardinality(upTo(i)) => upTo(k) = upTo(i))
      BY <3>1, <3>2, FS_Subset
    <3> QED BY <3>1, <3>2, <3>3
  <2>2. rank \in [S -> 1 .. Cardinality(S)]
    BY <1>1
  <2>3. \A i, k \in S : rank[i] = rank[k] => i = k
    <3> SUFFICES ASSUME NEW i \in S, NEW k \in S, rank[i] = rank[k], i # k PROVE FALSE
      OBVIOUS
    <3>1. i < k \/ k < i
      OBVIOUS
    <3>2. rank[i] \in Nat /\ rank[k] \in Nat
      BY <1>1
    <3> QED BY <2>1, <3>1, <3>2
  <2> QED BY <2>2, <2>3 DEF Injection, IsInjective
<1>3. IsFiniteSet(1 .. Cardinality(S)) /\ Cardinality(1 .. Cardinality(S)) = Cardinality(S)
  BY FS_CardinalityType, FS_Interval
<1>4. rank \in Surjection(S, 1 .. Cardinality(S))
  BY <1>2, <1>3, FS_Injection
<1> QED BY <1>4 DEF Surjection

\* A batch lists events of the outbox it was read from.
LEMMA BatchOfOutbox ==
    ASSUME TypeOK, NEW p \in Provider
    PROVE  /\ PendingBatch(p) \in Seq(Event)
           /\ \A n \in DOMAIN PendingBatch(p) : PendingBatch(p)[n] \in EventsOf(p)
<1> DEFINE place(n) == CHOOSE i \in Pending(p) :
                         Cardinality({j \in Pending(p) : j <= i}) = n
           size == Min({BatchSize, Cardinality(Pending(p))})
<1>1. outbox[p] \in Seq(OutboxRow) /\ DOMAIN outbox[p] = 1 .. Len(outbox[p])
      /\ Len(outbox[p]) \in Nat
  BY LenProperties DEF TypeOK
<1>2. Pending(p) \in SUBSET (1 .. Len(outbox[p]))
  BY <1>1 DEF Pending
<1>3. IsFiniteSet(Pending(p)) /\ Cardinality(Pending(p)) \in Nat
  <2>1. IsFiniteSet(1 .. Len(outbox[p]))
    BY <1>1, FS_Interval
  <2> QED BY <1>2, <2>1, FS_Subset, FS_CardinalityType
<1>4. size \in Nat /\ size <= Cardinality(Pending(p))
  BY <1>3, MinOfTwo, RelayAssumption
<1>5. ASSUME NEW n \in 1 .. size
      PROVE  outbox[p][place(n)].event \in Event /\ outbox[p][place(n)].event \in EventsOf(p)
  <2>1. n \in 1 .. Cardinality(Pending(p)) /\ Pending(p) \in SUBSET Nat
    BY <1>2, <1>3, <1>4
  <2>2. \E i \in Pending(p) : Cardinality({j \in Pending(p) : j <= i}) = n
    BY <1>3, <2>1, EveryRankIsTaken
  <2>3. place(n) \in 1 .. Len(outbox[p])
    BY <1>2, <2>2
  <2>4. outbox[p][place(n)] \in OutboxRow
    BY <1>1, <2>3, ElementOfSeq
  <2>5. outbox[p][place(n)] \in Rows(p)
    BY <2>3 DEF Rows
  <2> HIDE DEF place
  <2> QED BY <2>4, <2>5 DEF EventsOf, OutboxRow
<1>6. PendingBatch(p) = [n \in 1 .. size |-> outbox[p][place(n)].event]
  BY DEF PendingBatch
<1> HIDE DEF place, size
<1>7. PendingBatch(p) \in [1 .. size -> Event]
  BY <1>5, <1>6
<1> QED BY <1>4, <1>5, <1>6, <1>7, SeqDef

\* Marking a row delivered keeps the events of every outbox.
LEMMA MarkDeliveredRows ==
    ASSUME TypeOK, NEW p \in Provider, NEW e, MarkDelivered(p, e)
    PROVE  /\ outbox' \in [Provider -> Seq(OutboxRow)]
           /\ \A q \in Provider : EventsOf(q)' = EventsOf(q)
           /\ \A q \in Provider :
                Delivered(q)' = IF q = p /\ e \in EventsOf(p) THEN Delivered(q) \cup {e}
                                ELSE Delivered(q)
<1> DEFINE old == outbox[p]
           new == [i \in DOMAIN old |-> IF old[i].event = e THEN [old[i] EXCEPT !.delivered = TRUE]
                                        ELSE old[i]]
<1>1. old \in Seq(OutboxRow) /\ Len(old) \in Nat /\ DOMAIN old = 1 .. Len(old)
  BY LenProperties DEF TypeOK
<1>2. \A i \in 1 .. Len(old) : old[i] \in OutboxRow
  BY <1>1, ElementOfSeq
<1>3. new \in [1 .. Len(old) -> OutboxRow]
  BY <1>1, <1>2 DEF OutboxRow
<1>4. new \in Seq(OutboxRow)
  BY <1>1, <1>3, SeqDef
<1>5. DOMAIN new = 1 .. Len(new) /\ Len(new) = Len(old)
  BY <1>1, <1>3, <1>4, LenProperties
<1>6. outbox' = [outbox EXCEPT ![p] = new] /\ outbox \in [Provider -> Seq(OutboxRow)]
  BY DEF MarkDelivered, TypeOK
<1>7. outbox' \in [Provider -> Seq(OutboxRow)] /\ outbox'[p] = new
      /\ \A q \in Provider : q # p => outbox'[q] = outbox[q]
  BY <1>4, <1>6
<1>8. \A i \in 1 .. Len(old) :
        /\ new[i].event = old[i].event
        /\ new[i].delivered <=> old[i].delivered \/ old[i].event = e
  BY <1>1, <1>2 DEF OutboxRow
<1> HIDE DEF new
<1>9. EventsOf(p)' = EventsOf(p)
  BY <1>5, <1>7, <1>8 DEF EventsOf, Rows
<1>10. Delivered(p)' = IF e \in EventsOf(p) THEN Delivered(p) \cup {e} ELSE Delivered(p)
  <2>1. \A x : x \in Delivered(p) <=> \E i \in 1 .. Len(old) : old[i].delivered /\ old[i].event = x
    BY DEF Delivered, Rows
  <2>2. \A x : x \in Delivered(p)' <=> \E i \in 1 .. Len(new) : new[i].delivered /\ new[i].event = x
    BY <1>7 DEF Delivered, Rows
  <2>3. e \in EventsOf(p) <=> \E i \in 1 .. Len(old) : old[i].event = e
    BY DEF EventsOf, Rows
  <2> HIDE DEF old
  <2>4. \A x : x \in Delivered(p)' <=> x \in Delivered(p) \/ (x = e /\ e \in EventsOf(p))
    BY <1>5, <1>8, <2>1, <2>2, <2>3
  <2> QED BY <2>4
<1>11. \A q \in Provider : q # p => EventsOf(q)' = EventsOf(q) /\ Delivered(q)' = Delivered(q)
  BY <1>7 DEF EventsOf, Delivered, Rows
<1> QED BY <1>7, <1>9, <1>10, <1>11

\* A new row adds its event to its outbox, undelivered.
LEMMA AppendEventRows ==
    ASSUME TypeOK, NEW p \in Provider, NEW e \in Event, AppendEvent(p, e)
    PROVE  /\ outbox' \in [Provider -> Seq(OutboxRow)]
           /\ EventsOf(p)' = EventsOf(p) \cup {e}
           /\ \A q \in Provider : q # p => EventsOf(q)' = EventsOf(q)
           /\ \A q \in Provider : Delivered(q)' = Delivered(q)
<1> DEFINE old == outbox[p]
           row == [event |-> e, delivered |-> FALSE]
<1>1. old \in Seq(OutboxRow) /\ Len(old) \in Nat /\ row \in OutboxRow
  BY LenProperties DEF TypeOK, OutboxRow
<1>2. /\ Append(old, row) \in Seq(OutboxRow)
      /\ Len(Append(old, row)) = Len(old) + 1
      /\ \A i \in 1 .. Len(old) : Append(old, row)[i] = old[i]
      /\ Append(old, row)[Len(old) + 1] = row
  BY <1>1, AppendProperties
<1>3. outbox' = [outbox EXCEPT ![p] = Append(old, row)] /\ outbox \in [Provider -> Seq(OutboxRow)]
  BY DEF AppendEvent, TypeOK
<1>4. outbox' \in [Provider -> Seq(OutboxRow)] /\ outbox'[p] = Append(old, row)
      /\ \A q \in Provider : q # p => outbox'[q] = outbox[q]
  BY <1>2, <1>3
<1>5. Rows(p)' = Rows(p) \cup {row}
  <2>1. Rows(p)' = {Append(old, row)[i] : i \in 1 .. Len(old) + 1}
    BY <1>2, <1>4 DEF Rows
  <2>2. 1 .. Len(old) + 1 = (1 .. Len(old)) \cup {Len(old) + 1}
    BY <1>1
  <2>3. Rows(p)' = {Append(old, row)[i] : i \in 1 .. Len(old)} \cup {Append(old, row)[Len(old) + 1]}
    BY <2>1, <2>2
  <2>4. {Append(old, row)[i] : i \in 1 .. Len(old)} = Rows(p)
    BY <1>2 DEF Rows
  <2> QED BY <1>2, <2>3, <2>4
<1>6. EventsOf(p)' = EventsOf(p) \cup {e} /\ Delivered(p)' = Delivered(p)
  <2>1. row.event = e /\ ~row.delivered
    OBVIOUS
  <2>2. {r \in Rows(p)' : r.delivered} = {r \in Rows(p) : r.delivered}
    BY <1>5, <2>1
  <2>3. Delivered(p)' = Delivered(p)
    BY <2>2 DEF Delivered
  <2> HIDE DEF row
  <2>4. EventsOf(p)' = EventsOf(p) \cup {e}
    BY <1>5, <2>1 DEF EventsOf
  <2> QED BY <2>3, <2>4
<1>7. \A q \in Provider : q # p => EventsOf(q)' = EventsOf(q) /\ Delivered(q)' = Delivered(q)
  BY <1>4 DEF EventsOf, Delivered, Rows
<1> QED BY <1>4, <1>6, <1>7

-----------------------------------------------------------------------------
(* Type correctness.                                                       *)

\* What the three observations leave in the health row.
LEMMA HealthTypes ==
    ASSUME NEW row \in HealthRow, NEW h \in Time, NEW t \in Time, NEW e \in Event \cup {None}
    PROVE  /\ ObserveHealth(row, h, e) \in HealthRow
           /\ ObserveReachable(row, h, t) \in HealthRow
           /\ ObserveUnreachable(row, t) \in HealthRow
<1>1. ASSUME NEW f \in Event \cup {None} PROVE ObserveHealth(row, h, f) \in HealthRow
  <2>1. [NoHealth EXCEPT !.state = "local", !.observedAt = h, !.last = f] \in HealthRow
    <3>1. 0 \in Time
      BY RelayAssumption DEF Time
    <3>2. NoHealth \in HealthRow
      BY <3>1 DEF HealthRow, NoHealth
    <3> QED BY <3>2 DEF HealthRow
  <2>2. \A g \in Event \cup {None} :
          [row EXCEPT !.state = "local", !.observedAt = h, !.last = g] \in HealthRow
    BY DEF HealthRow
  <2>3. row.last \in Event \cup {None}
    BY DEF HealthRow
  <2>4. (IF f # None /\ NewerActivity(f, row.last) THEN f ELSE row.last) \in Event \cup {None}
    BY <2>3
  <2> QED BY <2>1, <2>2, <2>4, Zenon DEF ObserveHealth
<1>2. row.observedAt \in Int /\ row.observedAt \in Time /\ h \in Int /\ t \in Int
  BY RelayAssumption DEF HealthRow, Time
<1>3. Max({row.observedAt, h, t}) \in Time /\ Max({row.observedAt, t}) \in Time
  <2>1. Max({row.observedAt, h, t}) \in {row.observedAt, h, t}
    BY <1>2, MaxInSet
  <2>2. Max({row.observedAt, t}) \in {row.observedAt, t}
    BY <1>2, MaxInSet
  <2> QED BY <1>2, <2>1, <2>2
<1>4. ObserveUnreachable(row, t) \in HealthRow
  BY <1>3 DEF ObserveUnreachable, HealthRow
<1>5. ObserveReachable(row, h, t) \in HealthRow
  <2>1. [row EXCEPT !.state = "local", !.probeAt = t,
                    !.observedAt = Max({row.observedAt, h, t})] \in HealthRow
    BY <1>3 DEF HealthRow
  <2>2. ObserveHealth(row, h, None) \in HealthRow
    BY <1>1
  <2>3. [ObserveHealth(row, h, None) EXCEPT !.probeAt = t] \in HealthRow
    BY <2>2 DEF HealthRow
  <2> QED BY <2>1, <2>2, <2>3 DEF ObserveReachable
<1> QED BY <1>1, <1>4, <1>5

LEMMA LaneStep ==
    ASSUME TypeOK, NEW c \in Relay, NEW p \in Provider, NEW l \in Lane, SetLane(c, p, l)
    PROVE  /\ lane' \in [Relay -> [Provider -> Lane]]
           /\ lane'[c][p] = l
           /\ \A d \in Relay, q \in Provider : d # c \/ q # p => lane'[d][q] = lane[d][q]
BY DEF TypeOK, SetLane

LEMMA IdleLaneType == IdleLane \in Lane /\ [IdleLane EXCEPT !.at = "ready"] \in Lane
<1>1. <<>> \in Seq(Event)
  BY EmptySeq
<1>2. 0 \in Time
  BY RelayAssumption DEF Time
<1> QED BY <1>1, <1>2 DEF IdleLane, Lane

\* A coordinator goes on with its batch or is done with the provider.
LEMMA AfterEventStep ==
    ASSUME TypeOK, NEW c \in Relay, NEW p \in Provider, NEW batch \in Seq(Event),
           AfterEvent(c, p, batch)
    PROVE  /\ lane' \in [Relay -> [Provider -> Lane]]
           /\ backoff' \in [Relay -> [Provider -> {"none", "waiting"}]]
           /\ lane'[c][p].at \in {"idle", "accept"} /\ lane'[c][p].batch = batch
           /\ lane'[c][p].at = "accept" => batch # <<>>
           /\ \A d \in Relay, q \in Provider : d # c \/ q # p => lane'[d][q] = lane[d][q]
<1>1. CASE batch = <<>>
  <2>1. SetLane(c, p, IdleLane) /\ backoff' = [backoff EXCEPT ![c][p] = "none"]
    BY <1>1 DEF AfterEvent
  <2>2. backoff' \in [Relay -> [Provider -> {"none", "waiting"}]]
    BY <2>1 DEF TypeOK
  <2> QED BY <1>1, <2>1, <2>2, LaneStep, IdleLaneType DEF IdleLane
<1>2. CASE batch # <<>>
  <2> DEFINE l == [lane[c][p] EXCEPT !.at = "accept", !.batch = batch]
  <2>1. SetLane(c, p, l) /\ UNCHANGED backoff
    BY <1>2 DEF AfterEvent
  <2>2. lane[c][p] \in Lane
    BY DEF TypeOK
  <2>3. l \in Lane /\ l.at = "accept" /\ l.batch = batch
    BY <2>2 DEF Lane
  <2> HIDE DEF l
  <2> QED BY <1>2, <2>1, <2>3, LaneStep DEF TypeOK
<1> QED BY <1>1, <1>2

LEMMA FailStep ==
    ASSUME TypeOK, NEW c \in Relay, NEW p \in Provider, Fail(c, p)
    PROVE  /\ lane' \in [Relay -> [Provider -> Lane]]
           /\ backoff' \in [Relay -> [Provider -> {"none", "waiting"}]]
           /\ lane'[c][p] = IdleLane
           /\ \A d \in Relay, q \in Provider : d # c \/ q # p => lane'[d][q] = lane[d][q]
<1>1. backoff' \in [Relay -> [Provider -> {"none", "waiting"}]]
  BY DEF Fail, TypeOK
<1> QED BY <1>1, LaneStep, IdleLaneType DEF Fail

\* A finite set of numbers that is not empty has a largest one.
LEMMA MaxOfFinite ==
    ASSUME NEW S \in SUBSET Nat, IsFiniteSet(S), S # {}
    PROVE  Max(S) \in S
<1>1. Cardinality(S) \in Nat /\ Cardinality(S) # 0
  BY FS_CardinalityType, FS_EmptySet
<1>2. PICK i \in S : Cardinality({j \in S : j <= i}) = Cardinality(S)
  BY <1>1, EveryRankIsTaken
<1>3. {j \in S : j <= i} = S
  BY <1>2, FS_Subset, Zenon
<1>4. \A j \in S : i >= j
  BY <1>3
<1> QED BY <1>4, Zenon DEF Max

\* The next cursor is the last provider of the page, or the start.
LEMMA NextCursorType ==
    ASSUME NEW page \in SUBSET Provider
    PROVE  NextCursor(page) \in Provider \cup {0}
<1>1. IsFiniteSet(page) /\ page \in SUBSET Nat
  BY RelayAssumption, FS_Subset
<1>2. CASE Cardinality(page) < PageSize
  BY <1>2 DEF NextCursor
<1>3. CASE ~(Cardinality(page) < PageSize)
  <2>1. Cardinality(page) # 0
    BY <1>3, RelayAssumption
  <2>2. page # {}
    BY <2>1, FS_EmptySet
  <2> QED BY <1>1, <1>3, <2>2, MaxOfFinite DEF NextCursor
<1> QED BY <1>2, <1>3

\* What a coordinator carries: events of the provider it works on, one of them at
\* hand when it calls the centre or acknowledges, and acknowledged only once the
\* centre has it.
Carried ==
    \A c \in Relay, p \in Provider :
        /\ lane[c][p].at \in {"accept", "ack"} => lane[c][p].batch # <<>>
        /\ \A n \in DOMAIN lane[c][p].batch : lane[c][p].batch[n] \in EventsOf(p)
        /\ lane[c][p].at = "ack" => Head(lane[c][p].batch) \in central[p]

LEMMA HeadOfBatch ==
    ASSUME TypeOK, Carried, NEW c \in Relay, NEW p \in Provider,
           lane[c][p].at \in {"accept", "ack"}
    PROVE  /\ lane[c][p] \in Lane
           /\ Head(lane[c][p].batch) \in Event /\ Head(lane[c][p].batch) \in EventsOf(p)
           /\ Tail(lane[c][p].batch) \in Seq(Event)
           /\ \A n \in DOMAIN Tail(lane[c][p].batch) : Tail(lane[c][p].batch)[n] \in EventsOf(p)
<1> DEFINE batch == lane[c][p].batch
<1>1. lane[c][p] \in Lane /\ batch \in Seq(Event) /\ batch # <<>>
  BY DEF TypeOK, Lane, Carried
<1>2. \A n \in 1 .. Len(batch) : batch[n] \in EventsOf(p)
  BY <1>1, LenProperties DEF Carried
<1> HIDE DEF batch
<1>3. /\ Tail(batch) \in Seq(Event) /\ Head(batch) \in Event
      /\ Len(Tail(batch)) = Len(batch) - 1 /\ Len(batch) \in Nat \ {0}
      /\ \A i \in 1 .. Len(Tail(batch)) : Tail(batch)[i] = batch[i + 1]
  BY <1>1, HeadTailProperties, EmptySeq
<1>4. Head(batch) = batch[1]
  BY <1>1
<1>5. DOMAIN Tail(batch) = 1 .. Len(Tail(batch))
  BY <1>3, LenProperties
<1>6. \A n \in DOMAIN Tail(batch) : Tail(batch)[n] \in EventsOf(p)
  <2> SUFFICES ASSUME NEW n \in DOMAIN Tail(batch) PROVE Tail(batch)[n] \in EventsOf(p)
    OBVIOUS
  <2>1. n + 1 \in 1 .. Len(batch) /\ Tail(batch)[n] = batch[n + 1]
    BY <1>3, <1>5
  <2> QED BY <1>2, <2>1
<1>7. Head(batch) \in EventsOf(p)
  BY <1>2, <1>3, <1>4
<1> QED BY <1>1, <1>3, <1>6, <1>7 DEF batch

LEMMA TypeStep ==
    ASSUME TypeOK, Carried, [Next]_vars
    PROVE  TypeOK'
<1>1. CASE UNCHANGED vars
  BY <1>1 DEF TypeOK, vars
<1>2. CASE Tick
  BY <1>2, RelayAssumption DEF TypeOK, Tick, Time
<1>3. ASSUME NEW p \in Provider, NEW e \in Event, AppendEvent(p, e) PROVE TypeOK'
  <2>1. outbox' \in [Provider -> Seq(OutboxRow)]
    BY <1>3, AppendEventRows
  <2> QED BY <1>3, <2>1 DEF TypeOK, AppendEvent
<1>4. ASSUME NEW c \in Relay, StartCycle(c) PROVE TypeOK'
  <2> DEFINE page == TargetPage(cursor[c])
  <2>1. NextCursor(page) \in Provider \cup {0}
    BY NextCursorType DEF TargetPage
  <2>2. lane' \in [Relay -> [Provider -> Lane]]
    BY <1>4, IdleLaneType DEF StartCycle, TypeOK
  <2> QED BY <1>4, <2>1, <2>2 DEF TypeOK, StartCycle
<1>5. ASSUME NEW c \in Relay, CrashRelay(c) PROVE TypeOK'
  BY <1>5, IdleLaneType DEF TypeOK, CrashRelay, Faulty
<1>6. ASSUME NEW c \in Relay, NEW p \in Provider, ReadBatch(c, p) PROVE TypeOK'
  <2>1. [at |-> "observe", batch |-> PendingBatch(p), health |-> clock] \in Lane
    BY BatchOfOutbox DEF Lane, TypeOK
  <2>2. lane' \in [Relay -> [Provider -> Lane]]
    BY <1>6, <2>1, LaneStep DEF ReadBatch
  <2> QED BY <1>6, <2>2 DEF TypeOK, ReadBatch
<1>7. ASSUME NEW c \in Relay, NEW p \in Provider, RecordProbe(c, p) PROVE TypeOK'
  <2>1. lane[c][p].health \in Time /\ health[p] \in HealthRow
    BY DEF TypeOK, Lane
  <2>2. ObserveUnreachable(health[p], lane[c][p].health) \in HealthRow
    BY <2>1, HealthTypes
  <2>3. lane' \in [Relay -> [Provider -> Lane]]
    BY <1>7, LaneStep, IdleLaneType DEF RecordProbe
  <2>4. health' \in [Provider -> HealthRow]
    BY <1>7, <2>2 DEF RecordProbe, TypeOK
  <2>5. probes' \in [Provider -> Seq({"unreachable", "recovered"})]
    <3>1. Append(probes[p], "unreachable") \in Seq({"unreachable", "recovered"})
      BY AppendProperties DEF TypeOK
    <3> QED BY <1>7, <3>1 DEF RecordProbe, TypeOK
  <2> QED BY <1>7, <2>3, <2>4, <2>5 DEF TypeOK, RecordProbe
<1>8. ASSUME NEW c \in Relay, NEW p \in Provider, ObserveCentrally(c, p) PROVE TypeOK'
  <2>1. /\ lane[c][p].health \in Time /\ lane[c][p].batch \in Seq(Event)
        /\ health[p] \in HealthRow /\ clock \in Time
    BY DEF TypeOK, Lane
  <2>2. ObserveReachable(health[p], lane[c][p].health, clock) \in HealthRow
    BY <2>1, HealthTypes
  <2>3. health' \in [Provider -> HealthRow]
    BY <1>8, <2>2 DEF ObserveCentrally, TypeOK
  <2>4. probes' \in [Provider -> Seq({"unreachable", "recovered"})]
    <3>1. Append(probes[p], "recovered") \in Seq({"unreachable", "recovered"})
      BY AppendProperties DEF TypeOK
    <3> QED BY <1>8, <3>1 DEF ObserveCentrally, TypeOK
  <2>5. /\ lane' \in [Relay -> [Provider -> Lane]]
        /\ backoff' \in [Relay -> [Provider -> {"none", "waiting"}]]
    BY <1>8, <2>1, AfterEventStep DEF ObserveCentrally
  <2> QED BY <1>8, <2>3, <2>4, <2>5 DEF TypeOK, ObserveCentrally
<1>9. ASSUME NEW c \in Relay, NEW p \in Provider, lane[c][p].at = "accept", Accept(c, p)
      PROVE  central' \in [Provider -> SUBSET Event] /\ health' \in [Provider -> HealthRow]
  <2>1. Head(lane[c][p].batch) \in Event
    BY <1>9, HeadOfBatch
  <2>2. lane[c][p].health \in Time /\ health[p] \in HealthRow
    BY DEF TypeOK, Lane
  <2>3. ObserveHealth(health[p], lane[c][p].health, Head(lane[c][p].batch)) \in HealthRow
    BY <2>1, <2>2, HealthTypes DEF Time
  <2> QED BY <1>9, <2>1, <2>3 DEF Accept, TypeOK
<1>10. ASSUME NEW c \in Relay, NEW p \in Provider, AcceptEvent(c, p) PROVE TypeOK'
  <2>1. [lane[c][p] EXCEPT !.at = "ack"] \in Lane
    <3>1. lane[c][p] \in Lane
      BY DEF TypeOK
    <3> QED BY <3>1 DEF Lane
  <2>2. lane' \in [Relay -> [Provider -> Lane]]
    BY <1>10, <2>1, LaneStep DEF AcceptEvent, Step
  <2> QED BY <1>9, <1>10, <2>2 DEF TypeOK, AcceptEvent
<1>11. ASSUME NEW c \in Relay, NEW p \in Provider, AcceptOutcomeLost(c, p) PROVE TypeOK'
  BY <1>9, <1>11, FailStep DEF TypeOK, AcceptOutcomeLost, Faulty
<1>12. ASSUME NEW c \in Relay, NEW p \in Provider, AcknowledgeEvent(c, p) PROVE TypeOK'
  <2>1. outbox' \in [Provider -> Seq(OutboxRow)]
    BY <1>12, MarkDeliveredRows DEF AcknowledgeEvent
  <2>2. Tail(lane[c][p].batch) \in Seq(Event)
    BY <1>12, HeadOfBatch DEF AcknowledgeEvent
  <2>3. /\ lane' \in [Relay -> [Provider -> Lane]]
        /\ backoff' \in [Relay -> [Provider -> {"none", "waiting"}]]
    BY <1>12, <2>2, AfterEventStep DEF AcknowledgeEvent
  <2> QED BY <1>12, <2>1, <2>3 DEF TypeOK, AcknowledgeEvent
<1>13. ASSUME NEW c \in Relay, NEW p \in Provider, ReadFails(c, p) \/ CallFails(c, p) PROVE TypeOK'
  BY <1>13, FailStep DEF TypeOK, ReadFails, CallFails, Faulty
<1>14. ASSUME NEW c \in Relay, NEW p \in Provider, ReadUnreachable(c, p) PROVE TypeOK'
  <2>1. [at |-> "probe", batch |-> <<>>, health |-> clock] \in Lane
    BY EmptySeq DEF Lane, TypeOK
  <2>2. lane' \in [Relay -> [Provider -> Lane]]
    BY <1>14, <2>1, LaneStep DEF ReadUnreachable
  <2>3. backoff' \in [Relay -> [Provider -> {"none", "waiting"}]]
    BY <1>14 DEF TypeOK, ReadUnreachable
  <2>4. faults' \in Nat
    BY <1>14 DEF TypeOK, ReadUnreachable, Faulty
  <2> QED BY <1>14, <2>2, <2>3, <2>4 DEF TypeOK, ReadUnreachable
<1>15. ASSUME NEW c \in Relay, NEW p \in Provider, ProbeFails(c, p) PROVE TypeOK'
  BY <1>15, LaneStep, IdleLaneType DEF TypeOK, ProbeFails, Faulty
<1>16. ASSUME NEW c \in Relay, NEW p \in Provider, BackoffPasses(c, p) PROVE TypeOK'
  BY <1>16 DEF TypeOK, BackoffPasses
<1> QED BY <1>1, <1>2, <1>3, <1>4, <1>5, <1>6, <1>7, <1>8, <1>10, <1>11, <1>12, <1>13, <1>14,
           <1>15, <1>16 DEF Next, Relays

-----------------------------------------------------------------------------
(* The inductive invariant.                                                *)

\* The events the centre holds were committed by the provider, and the health row
\* points at one of them, if there is any.
Pointed ==
    \A p \in Provider :
        /\ central[p] \subseteq EventsOf(p)
        /\ health[p].last \in central[p] \cup {None}
        /\ health[p].state = "absent" => central[p] = {}

\* An outage the row shows is the last thing that was reported.
OutageReported ==
    \A p \in Provider : health[p].state = "unreachable" =>
        probes[p] # <<>> /\ probes[p][Len(probes[p])] = "unreachable"

RelayInv ==
    /\ TypeOK /\ Carried /\ Pointed /\ OutageReported
    /\ LastActivityIsLatest /\ RecoveryFollowsOutage

\* An observation without activity keeps the pointer; one with activity moves it
\* exactly when the activity is newer, and no observation shows an outage.
LEMMA ObservedPointer ==
    ASSUME NEW row \in HealthRow, NEW h \in Time, NEW t \in Time, NEW e \in Event \cup {None}
    PROVE  /\ ObserveUnreachable(row, t).last = row.last
           /\ ObserveUnreachable(row, t).state = "unreachable"
           /\ row.state # "absent" => ObserveReachable(row, h, t).last = row.last
           /\ ObserveReachable(row, h, t).last \in {row.last, None}
           /\ ObserveReachable(row, h, t).state # "absent"
           /\ ObserveReachable(row, h, t).state = "unreachable" =>
                row.state = "unreachable" /\ ~Recovers(row, t)
           /\ ObserveHealth(row, h, e).state # "absent"
           /\ ObserveHealth(row, h, e).state = "unreachable" => row.state = "unreachable"
           /\ row.state = "absent" => ObserveHealth(row, h, e).last = e
           /\ row.state # "absent" => ObserveHealth(row, h, e).last =
                IF e # None /\ NewerActivity(e, row.last) THEN e ELSE row.last
<1>1. ASSUME NEW f
      PROVE  /\ ObserveHealth(row, h, f).state # "absent"
             /\ ObserveHealth(row, h, f).state = "unreachable" => row.state = "unreachable"
             /\ row.state = "absent" => ObserveHealth(row, h, f).last = f
             /\ row.state # "absent" => ObserveHealth(row, h, f).last =
                  IF f # None /\ NewerActivity(f, row.last) THEN f ELSE row.last
  <2>1. row = [state |-> row.state, observedAt |-> row.observedAt,
               probeAt |-> row.probeAt, last |-> row.last]
    BY DEF HealthRow
  <2> DEFINE pointer == IF f # None /\ NewerActivity(f, row.last) THEN f ELSE row.last
  <2>2. CASE row.state = "absent"
    BY <2>2 DEF ObserveHealth, NoHealth
  <2>3. CASE row.state # "absent" /\ (h > row.observedAt \/ (f # None /\ NewerActivity(f, row.last)))
    <3>1. ObserveHealth(row, h, f) = [row EXCEPT !.state = "local", !.observedAt = h,
                                                 !.last = pointer]
      BY <2>3, Zenon DEF ObserveHealth
    <3> HIDE DEF pointer
    <3>2. ObserveHealth(row, h, f) = [state |-> "local", observedAt |-> h,
                                      probeAt |-> row.probeAt, last |-> pointer]
      BY <2>1, <3>1
    <3> QED BY <2>3, <3>2 DEF pointer
  <2>4. CASE row.state # "absent" /\ ~(h > row.observedAt \/ (f # None /\ NewerActivity(f, row.last)))
    <3>1. ObserveHealth(row, h, f) = row
      BY <2>4, Zenon DEF ObserveHealth
    <3>2. pointer = row.last
      BY <2>4, Zenon
    <3> QED BY <2>1, <2>4, <3>1, <3>2
  <2> QED BY <2>2, <2>3, <2>4
<1>2. /\ ObserveUnreachable(row, t).last = row.last
      /\ ObserveUnreachable(row, t).state = "unreachable"
  BY DEF ObserveUnreachable, HealthRow
<1>3. /\ row.state # "absent" => ObserveReachable(row, h, t).last = row.last
      /\ ObserveReachable(row, h, t).last \in {row.last, None}
      /\ ObserveReachable(row, h, t).state # "absent"
      /\ ObserveReachable(row, h, t).state = "unreachable" =>
           row.state = "unreachable" /\ ~Recovers(row, t)
  <2> DEFINE seen == ObserveHealth(row, h, None)
  <2>1. /\ seen.state # "absent" /\ seen.last \in {row.last, None}
        /\ row.state # "absent" => seen.last = row.last
        /\ seen.state = "unreachable" => row.state = "unreachable"
    <3>1. /\ seen.state # "absent"
          /\ seen.state = "unreachable" => row.state = "unreachable"
          /\ row.state = "absent" => seen.last = None
          /\ row.state # "absent" => seen.last = row.last
      BY <1>1
    <3> QED BY <3>1
  <2>2. /\ [seen EXCEPT !.probeAt = t].last = seen.last
        /\ [seen EXCEPT !.probeAt = t].state = seen.state
    <3>1. seen \in HealthRow
      BY HealthTypes
    <3> HIDE DEF seen
    <3> QED BY <3>1 DEF HealthRow
  <2> HIDE DEF seen
  <2>3. CASE ~ProbeIsNewer(row, t)
    BY <2>1, <2>3 DEF ObserveReachable, Recovers, seen
  <2>4. CASE ProbeIsNewer(row, t) /\ row.state = "unreachable"
    BY <2>4 DEF ObserveReachable, Recovers, HealthRow
  <2>5. CASE ProbeIsNewer(row, t) /\ row.state # "unreachable"
    <3>1. ObserveReachable(row, h, t) = [seen EXCEPT !.probeAt = t]
      BY <2>5 DEF ObserveReachable, seen
    <3> QED BY <2>1, <2>2, <2>5, <3>1
  <2> QED BY <2>3, <2>4, <2>5
<1> QED BY <1>1, <1>2, <1>3

\* Outboxes and the centre only gain events.
LEMMA EventsGrow ==
    ASSUME TypeOK, Carried, [Next]_vars, NEW q \in Provider
    PROVE  EventsOf(q) \subseteq EventsOf(q)' /\ central[q] \subseteq central'[q]
<1>1. ASSUME UNCHANGED outbox PROVE EventsOf(q) \subseteq EventsOf(q)'
  BY <1>1 DEF EventsOf, Rows
<1>2. ASSUME NEW p \in Provider, NEW e \in Event, AppendEvent(p, e)
      PROVE  EventsOf(q) \subseteq EventsOf(q)' /\ central[q] \subseteq central'[q]
  BY <1>2, AppendEventRows DEF AppendEvent
<1>3. ASSUME NEW c \in Relay, NEW p \in Provider, AcknowledgeEvent(c, p)
      PROVE  EventsOf(q) \subseteq EventsOf(q)' /\ central[q] \subseteq central'[q]
  BY <1>3, MarkDeliveredRows DEF AcknowledgeEvent
<1>4. ASSUME NEW c \in Relay, NEW p \in Provider, AcceptEvent(c, p) \/ AcceptOutcomeLost(c, p)
      PROVE  UNCHANGED outbox /\ central[q] \subseteq central'[q]
  BY <1>4 DEF AcceptEvent, AcceptOutcomeLost, Accept, TypeOK
<1>5. CASE UNCHANGED <<outbox, central>>
  BY <1>1, <1>5
<1>6. ASSUME NEW c \in Relay, StartCycle(c) \/ CrashRelay(c)
      PROVE  UNCHANGED <<outbox, central>>
  BY <1>6 DEF StartCycle, CrashRelay
<1>7. ASSUME NEW c \in Relay, NEW p \in Provider,
             \/ ReadBatch(c, p) \/ RecordProbe(c, p) \/ ObserveCentrally(c, p) \/ BackoffPasses(c, p)
             \/ ReadFails(c, p) \/ ReadUnreachable(c, p) \/ ProbeFails(c, p) \/ CallFails(c, p)
      PROVE  UNCHANGED <<outbox, central>>
  BY <1>7 DEF ReadBatch, RecordProbe, ObserveCentrally, BackoffPasses, ReadFails, ReadUnreachable,
              ProbeFails, CallFails
<1> QED BY <1>1, <1>2, <1>3, <1>4, <1>5, <1>6, <1>7 DEF Next, Relays, Tick, vars

\* What one lane carries, so that a step can be checked lane by lane.
CarriedBy(c, p) ==
    /\ lane[c][p].at \in {"accept", "ack"} => lane[c][p].batch # <<>>
    /\ \A n \in DOMAIN lane[c][p].batch : lane[c][p].batch[n] \in EventsOf(p)
    /\ lane[c][p].at = "ack" => Head(lane[c][p].batch) \in central[p]

LEMMA CarriedStep ==
    ASSUME TypeOK, Carried, [Next]_vars
    PROVE  Carried'
<1> SUFFICES ASSUME NEW d \in Relay, NEW q \in Provider PROVE CarriedBy(d, q)'
  BY DEF Carried, CarriedBy
<1>1. ASSUME lane'[d][q] = lane[d][q] PROVE CarriedBy(d, q)'
  BY <1>1, EventsGrow DEF Carried, CarriedBy
<1>2. ASSUME lane'[d][q].at \notin {"accept", "ack"}, lane'[d][q].batch = <<>>
      PROVE  CarriedBy(d, q)'
  BY <1>2 DEF CarriedBy
<1>3. IdleLane.at = "idle" /\ IdleLane.batch = <<>>
      /\ [IdleLane EXCEPT !.at = "ready"].at = "ready"
      /\ [IdleLane EXCEPT !.at = "ready"].batch = <<>>
  BY DEF IdleLane
<1>4. ASSUME NEW c \in Relay, StartCycle(c) \/ CrashRelay(c) PROVE CarriedBy(d, q)'
  <2>1. PICK f : /\ lane' = [lane EXCEPT ![c] = f]
                 /\ f[q] \in {IdleLane, [IdleLane EXCEPT !.at = "ready"]}
    <3> DEFINE g == [p \in Provider |-> IF p \in TargetPage(cursor[c]) /\ backoff[c][p] # "waiting"
                                      THEN [IdleLane EXCEPT !.at = "ready"] ELSE IdleLane]
               idle == [p \in Provider |-> IdleLane]
    <3>1. lane' = [lane EXCEPT ![c] = g] \/ lane' = [lane EXCEPT ![c] = idle]
      BY <1>4 DEF StartCycle, CrashRelay
    <3>2. g[q] \in {IdleLane, [IdleLane EXCEPT !.at = "ready"]} /\ idle[q] = IdleLane
      OBVIOUS
    <3> HIDE DEF g, idle
    <3> QED BY <3>1, <3>2
  <2>2. lane'[d][q] = IF d = c THEN f[q] ELSE lane[d][q]
    BY <2>1 DEF TypeOK
  <2> QED BY <1>1, <1>2, <1>3, <2>1, <2>2
<1>5. ASSUME NEW c \in Relay, NEW p \in Provider, lane'[c][p] = IdleLane,
             \A b \in Relay, r \in Provider : b # c \/ r # p => lane'[b][r] = lane[b][r]
      PROVE  CarriedBy(d, q)'
  BY <1>1, <1>2, <1>3, <1>5
<1>6. ASSUME NEW c \in Relay, NEW p \in Provider, ReadBatch(c, p) PROVE CarriedBy(d, q)'
  <2> DEFINE l == [at |-> "observe", batch |-> PendingBatch(p), health |-> clock]
  <2>1. l \in Lane /\ \A n \in DOMAIN l.batch : l.batch[n] \in EventsOf(p)
    BY BatchOfOutbox DEF Lane, TypeOK
  <2>2. l.at = "observe"
    OBVIOUS
  <2>3. SetLane(c, p, l)
    BY <1>6 DEF ReadBatch
  <2> HIDE DEF l
  <2>4. lane'[c][p] = l /\ (d # c \/ q # p => lane'[d][q] = lane[d][q])
    BY <2>1, <2>3, LaneStep
  <2> QED BY <1>1, <2>1, <2>2, <2>4, EventsGrow DEF CarriedBy
<1>7. ASSUME NEW c \in Relay, NEW p \in Provider, ReadUnreachable(c, p) PROVE CarriedBy(d, q)'
  <2> DEFINE l == [at |-> "probe", batch |-> <<>>, health |-> clock]
  <2>1. l \in Lane /\ l.at = "probe" /\ l.batch = <<>>
    BY EmptySeq DEF Lane, TypeOK
  <2>2. SetLane(c, p, l)
    BY <1>7 DEF ReadUnreachable
  <2> HIDE DEF l
  <2>3. lane'[c][p] = l /\ (d # c \/ q # p => lane'[d][q] = lane[d][q])
    BY <2>1, <2>2, LaneStep
  <2> QED BY <1>1, <1>2, <2>1, <2>3
<1>8. ASSUME NEW c \in Relay, NEW p \in Provider, RecordProbe(c, p) \/ ProbeFails(c, p)
      PROVE  CarriedBy(d, q)'
  <2>1. SetLane(c, p, IdleLane)
    BY <1>8 DEF RecordProbe, ProbeFails
  <2> QED BY <1>5, <2>1, LaneStep, IdleLaneType
<1>9. ASSUME NEW c \in Relay, NEW p \in Provider,
             Fail(c, p)
      PROVE  CarriedBy(d, q)'
  BY <1>5, <1>9, FailStep
<1>10. ASSUME NEW c \in Relay, NEW p \in Provider, NEW batch \in Seq(Event), AfterEvent(c, p, batch),
              \A n \in DOMAIN batch : batch[n] \in EventsOf(p)
       PROVE  CarriedBy(d, q)'
  <2>1. /\ lane'[c][p].at \in {"idle", "accept"} /\ lane'[c][p].batch = batch
        /\ lane'[c][p].at = "accept" => batch # <<>>
        /\ d # c \/ q # p => lane'[d][q] = lane[d][q]
    BY <1>10, AfterEventStep
  <2> QED BY <1>1, <1>10, <2>1, EventsGrow DEF CarriedBy
<1>11. ASSUME NEW c \in Relay, NEW p \in Provider, ObserveCentrally(c, p) PROVE CarriedBy(d, q)'
  <2>1. lane[c][p].batch \in Seq(Event)
        /\ \A n \in DOMAIN lane[c][p].batch : lane[c][p].batch[n] \in EventsOf(p)
    BY DEF TypeOK, Lane, Carried
  <2> QED BY <1>10, <1>11, <2>1 DEF ObserveCentrally
<1>12. ASSUME NEW c \in Relay, NEW p \in Provider, AcknowledgeEvent(c, p) PROVE CarriedBy(d, q)'
  BY <1>10, <1>12, HeadOfBatch DEF AcknowledgeEvent
<1>13. ASSUME NEW c \in Relay, NEW p \in Provider, AcceptEvent(c, p) PROVE CarriedBy(d, q)'
  <2> DEFINE l == [lane[c][p] EXCEPT !.at = "ack"]
  <2>1. lane[c][p] \in Lane /\ lane[c][p].batch # <<>>
    BY <1>13 DEF TypeOK, Carried, AcceptEvent
  <2>2. l \in Lane /\ l.at = "ack" /\ l.batch = lane[c][p].batch
    BY <2>1 DEF Lane
  <2>3. SetLane(c, p, l)
    BY <1>13 DEF AcceptEvent, Step
  <2> HIDE DEF l
  <2>4. lane'[c][p] = l /\ (d # c \/ q # p => lane'[d][q] = lane[d][q])
    BY <2>2, <2>3, LaneStep
  <2>5. Head(lane[c][p].batch) \in central'[p]
    BY <1>13 DEF AcceptEvent, Accept, TypeOK
  <2> QED BY <1>1, <2>1, <2>2, <2>4, <2>5, EventsGrow DEF Carried, CarriedBy
<1>14. CASE UNCHANGED lane
  BY <1>1, <1>14
<1>15. ASSUME NEW c \in Relay, NEW p \in Provider,
              ReadFails(c, p) \/ CallFails(c, p) \/ AcceptOutcomeLost(c, p)
       PROVE  Fail(c, p)
  BY <1>15 DEF ReadFails, CallFails, AcceptOutcomeLost
<1>16. ASSUME \/ UNCHANGED vars \/ Tick
              \/ \E p \in Provider, e \in Event : AppendEvent(p, e)
              \/ \E c \in Relay, p \in Provider : BackoffPasses(c, p)
       PROVE  UNCHANGED lane
  BY <1>16 DEF vars, Tick, AppendEvent, BackoffPasses
<1> QED BY <1>4, <1>6, <1>7, <1>8, <1>9, <1>11, <1>12, <1>13, <1>14, <1>15, <1>16 DEF Next, Relays

\* The same for what the health row of one provider points at.
PointedAt(p) ==
    /\ central[p] \subseteq EventsOf(p)
    /\ health[p].last \in central[p] \cup {None}
    /\ health[p].state = "absent" => central[p] = {}
    /\ health[p].last = None <=> central[p] = {}
    /\ \A e \in central[p] : e = health[p].last \/ ~NewerActivity(e, health[p].last)

LEMMA AcceptPoints ==
    ASSUME TypeOK, Carried, NEW c \in Relay, NEW p \in Provider, PointedAt(p),
           lane[c][p].at = "accept", Accept(c, p), UNCHANGED <<outbox, at>>
    PROVE  /\ PointedAt(p)'
           /\ \A q \in Provider : q # p => health'[q] = health[q] /\ central'[q] = central[q]
<1> DEFINE e == Head(lane[c][p].batch)
           h == lane[c][p].health
           row == health[p]
           new == ObserveHealth(row, h, e)
<1>1. e \in Event /\ e \in EventsOf(p) /\ e # None /\ h \in Time
  BY HeadOfBatch, RelayAssumption DEF TypeOK, Lane
<1>2. row \in HealthRow
  BY DEF TypeOK
<1>3. /\ central' = [central EXCEPT ![p] = @ \cup {e}]
      /\ health' = [health EXCEPT ![p] = new]
  BY DEF Accept
<1>4. /\ central'[p] = central[p] \cup {e} /\ health'[p] = new
      /\ \A q \in Provider : q # p => health'[q] = health[q] /\ central'[q] = central[q]
  BY <1>3 DEF TypeOK
<1>5. /\ new.state # "absent"
      /\ row.state = "absent" => new.last = e
      /\ row.state # "absent" => new.last = IF e # None /\ NewerActivity(e, row.last) THEN e ELSE row.last
  BY <1>1, <1>2, ObservedPointer DEF Time
<1>6. EventsOf(p)' = EventsOf(p)
  BY DEF EventsOf, Rows
<1>7. central[p] \subseteq Event /\ \A f \in Event : at[f] \in Nat /\ f \in Nat /\ f # None
  <2>1. central[p] \subseteq Event
    BY DEF TypeOK
  <2>2. \A f \in Event : at[f] \in 0 .. MaxClock
    BY DEF TypeOK, Time
  <2>3. \A f \in Event : at[f] \in Nat
    BY <2>2
  <2>4. \A f \in Event : f \in Nat /\ f # None
    BY RelayAssumption
  <2> QED
    BY <2>1, <2>3, <2>4
<1> HIDE DEF e, h, row, new
<1>8. new.last \in central[p] \cup {e} /\ new.last # None
  BY <1>1, <1>5, <1>7 DEF PointedAt, NewerActivity, row
<1>9. \A f \in central[p] \cup {e} : f = new.last \/ ~NewerActivity(f, new.last)
  <2>1. CASE central[p] = {}
    BY <1>8, <2>1
  <2>2. CASE central[p] # {} /\ NewerActivity(e, row.last)
    <3>1. new.last = e /\ row.last \in Event
      BY <1>1, <1>5, <1>7, <2>2 DEF PointedAt, row
    <3> QED BY <1>1, <1>7, <2>2, <3>1 DEF PointedAt, NewerActivity, row
  <2>3. CASE central[p] # {} /\ ~NewerActivity(e, row.last)
    <3>1. new.last = row.last
      BY <1>5, <2>3 DEF PointedAt, row
    <3> QED BY <2>3, <3>1 DEF PointedAt, row
  <2> QED BY <2>1, <2>2, <2>3
<1>11. \A f, g : NewerActivity(f, g) <=> (g = None \/ at'[f] > at'[g] \/ (at'[f] = at'[g] /\ f > g))
  BY DEF NewerActivity
<1>12. PointedAt(p)'
  <2>1. \A f \in central'[p] : f = health'[p].last \/ ~NewerActivity(f, health'[p].last)
    BY <1>4, <1>9
  <2>2. (\A f \in central[p] : f = health[p].last \/ ~NewerActivity(f, health[p].last))'
    BY <1>11, <2>1 DEF NewerActivity
  <2> QED BY <1>1, <1>4, <1>5, <1>6, <1>8, <2>2 DEF PointedAt
<1> QED BY <1>4, <1>12

LEMMA PointedStep ==
    ASSUME TypeOK, Carried, Pointed, LastActivityIsLatest, [Next]_vars
    PROVE  Pointed' /\ LastActivityIsLatest'
<1> SUFFICES ASSUME NEW q \in Provider PROVE PointedAt(q)'
  BY DEF Pointed, LastActivityIsLatest, PointedAt
<1>1. \A p \in Provider : PointedAt(p)
  BY DEF Pointed, LastActivityIsLatest, PointedAt
<1>2. EventsOf(q) \subseteq EventsOf(q)'
  BY EventsGrow
<1>3. ASSUME UNCHANGED at, UNCHANGED <<health[q], central[q]>> PROVE PointedAt(q)'
  BY <1>1, <1>2, <1>3 DEF PointedAt, NewerActivity
<1>4. ASSUME NEW p \in Provider, NEW e \in Event, AppendEvent(p, e) PROVE PointedAt(q)'
  <2>1. e \notin central[q] /\ central[q] \subseteq Event
    BY <1>1, <1>4 DEF AppendEvent, PointedAt, Emitted, TypeOK
  <2>2. \A f \in Event : f # e => at'[f] = at[f]
    BY <1>4 DEF AppendEvent, TypeOK
  <2>3. health' = health /\ central' = central
    BY <1>4 DEF AppendEvent
  <2>4. health[q].last \in central[q] \cup {None}
    BY <1>1 DEF PointedAt
  <2>5. \A f \in central[q] : NewerActivity(f, health[q].last)' => NewerActivity(f, health[q].last)
    BY <2>1, <2>2, <2>3, <2>4 DEF NewerActivity
  <2> QED BY <1>1, <1>2, <2>3, <2>5 DEF PointedAt
<1>5. ASSUME UNCHANGED <<at, central>>,
             health'[q].last = health[q].last \/ (health'[q].last = None /\ health[q].state = "absent"),
             health'[q].state # "absent"
      PROVE  PointedAt(q)'
  BY <1>1, <1>2, <1>5 DEF PointedAt, NewerActivity
<1>6. ASSUME NEW c \in Relay, NEW p \in Provider, RecordProbe(c, p) PROVE PointedAt(q)'
  <2> DEFINE new == ObserveUnreachable(health[p], lane[c][p].health)
  <2>1. lane[c][p].health \in Time /\ health[p] \in HealthRow
    BY DEF TypeOK, Lane
  <2>2. /\ new.state # "absent" /\ new.last \in {health[p].last, None}
        /\ health[p].state # "absent" => new.last = health[p].last
    BY <2>1, ObservedPointer
  <2>3. (UNCHANGED health \/ health' = [health EXCEPT ![p] = new]) /\ UNCHANGED <<at, central>>
    BY <1>6 DEF RecordProbe
  <2> HIDE DEF new
  <2>4. q # p => UNCHANGED health[q]
    BY <2>3 DEF TypeOK
  <2>5. q = p => UNCHANGED health[q] \/ health'[q] = new
    BY <2>3 DEF TypeOK
  <2> QED BY <1>3, <1>5, <2>2, <2>3, <2>4, <2>5
<1>7. ASSUME NEW c \in Relay, NEW p \in Provider, ObserveCentrally(c, p) PROVE PointedAt(q)'
  <2> DEFINE new == ObserveReachable(health[p], lane[c][p].health, clock)
  <2>1. lane[c][p].health \in Time /\ health[p] \in HealthRow /\ clock \in Time
    BY DEF TypeOK, Lane
  <2>2. /\ new.state # "absent" /\ new.last \in {health[p].last, None}
        /\ health[p].state # "absent" => new.last = health[p].last
    BY <2>1, ObservedPointer
  <2>3. health' = [health EXCEPT ![p] = new] /\ UNCHANGED <<at, central>>
    BY <1>7 DEF ObserveCentrally
  <2> HIDE DEF new
  <2>4. q # p => UNCHANGED health[q]
    BY <2>3 DEF TypeOK
  <2>5. q = p => health'[q] = new
    BY <2>3 DEF TypeOK
  <2> QED BY <1>3, <1>5, <2>2, <2>3, <2>4, <2>5
<1>8. ASSUME NEW c \in Relay, NEW p \in Provider, AcceptEvent(c, p) \/ AcceptOutcomeLost(c, p)
      PROVE  PointedAt(q)'
  <2>1. lane[c][p].at = "accept" /\ Accept(c, p) /\ UNCHANGED <<outbox, at>>
    BY <1>8 DEF AcceptEvent, AcceptOutcomeLost
  <2>2. PointedAt(p)' /\ (q # p => health'[q] = health[q] /\ central'[q] = central[q])
    BY <1>1, <2>1, AcceptPoints
  <2> QED BY <1>3, <2>1, <2>2
<1>9. CASE UNCHANGED <<at, health, central>>
  BY <1>3, <1>9
<1>10. ASSUME NEW c \in Relay, StartCycle(c) \/ CrashRelay(c)
       PROVE  UNCHANGED <<at, health, central>>
  BY <1>10 DEF StartCycle, CrashRelay
<1>11. ASSUME NEW c \in Relay, NEW p \in Provider,
              \/ ReadBatch(c, p) \/ AcknowledgeEvent(c, p) \/ BackoffPasses(c, p)
              \/ ReadFails(c, p) \/ ReadUnreachable(c, p) \/ ProbeFails(c, p) \/ CallFails(c, p)
       PROVE  UNCHANGED <<at, health, central>>
  BY <1>11 DEF ReadBatch, AcknowledgeEvent, BackoffPasses, ReadFails, ReadUnreachable, ProbeFails,
               CallFails
<1> QED BY <1>4, <1>6, <1>7, <1>8, <1>9, <1>10, <1>11 DEF Next, Relays, Tick, vars

LEMMA OutageStep ==
    ASSUME TypeOK, Carried, OutageReported, RecoveryFollowsOutage, [Next]_vars
    PROVE  OutageReported' /\ RecoveryFollowsOutage'
<1> DEFINE Told(p) ==
             /\ health[p].state = "unreachable" =>
                  probes[p] # <<>> /\ probes[p][Len(probes[p])] = "unreachable"
             /\ \A i \in 1 .. Len(probes[p]) :
                  probes[p][i] = "recovered" => i > 1 /\ probes[p][i - 1] = "unreachable"
<1> SUFFICES ASSUME NEW q \in Provider PROVE Told(q)'
  BY DEF OutageReported, RecoveryFollowsOutage
<1>1. \A p \in Provider : Told(p)
  BY DEF OutageReported, RecoveryFollowsOutage
<1>2. ASSUME UNCHANGED probes[q], health'[q].state = "unreachable" => health[q].state = "unreachable"
      PROVE  Told(q)'
  BY <1>1, <1>2
<1>3. /\ probes[q] \in Seq({"unreachable", "recovered"}) /\ Len(probes[q]) \in Nat
      /\ health[q] \in HealthRow
  BY LenProperties DEF TypeOK
<1>4. ASSUME NEW x \in {"unreachable", "recovered"}, probes'[q] = Append(probes[q], x)
      PROVE  /\ Len(probes'[q]) = Len(probes[q]) + 1 /\ probes'[q] # <<>>
             /\ probes'[q][Len(probes[q]) + 1] = x
             /\ \A i \in 1 .. Len(probes[q]) : probes'[q][i] = probes[q][i]
  BY <1>3, <1>4, AppendProperties
<1>5. ASSUME probes'[q] = Append(probes[q], "unreachable") PROVE Told(q)'
  <2>1. /\ Len(probes'[q]) = Len(probes[q]) + 1 /\ probes'[q] # <<>>
        /\ probes'[q][Len(probes[q]) + 1] = "unreachable"
        /\ \A i \in 1 .. Len(probes[q]) : probes'[q][i] = probes[q][i]
    BY <1>4, <1>5
  <2>2. \A i \in 1 .. Len(probes'[q]) : i \in 1 .. Len(probes[q]) \/ i = Len(probes[q]) + 1
    BY <1>3, <2>1
  <2>3. ASSUME NEW i \in 1 .. Len(probes'[q]), probes'[q][i] = "recovered"
        PROVE  i > 1 /\ probes'[q][i - 1] = "unreachable"
    <3>1. i \in 1 .. Len(probes[q]) /\ probes[q][i] = "recovered"
      BY <2>1, <2>2, <2>3
    <3>2. i > 1 /\ probes[q][i - 1] = "unreachable" /\ i - 1 \in 1 .. Len(probes[q])
      BY <1>1, <1>3, <3>1
    <3> QED BY <2>1, <3>2
  <2>4. probes'[q][Len(probes'[q])] = "unreachable"
    BY <2>1
  <2> QED BY <2>1, <2>3, <2>4
<1>6. ASSUME probes'[q] = Append(probes[q], "recovered"), health[q].state = "unreachable",
             health'[q].state # "unreachable"
      PROVE  Told(q)'
  <2>1. probes[q] # <<>> /\ probes[q][Len(probes[q])] = "unreachable" /\ Len(probes[q]) > 0
    BY <1>1, <1>3, <1>6, EmptySeq
  <2>2. /\ Len(probes'[q]) = Len(probes[q]) + 1 /\ probes'[q] # <<>>
        /\ probes'[q][Len(probes[q]) + 1] = "recovered"
        /\ \A i \in 1 .. Len(probes[q]) : probes'[q][i] = probes[q][i]
    BY <1>4, <1>6
  <2>3. \A i \in 1 .. Len(probes'[q]) : i \in 1 .. Len(probes[q]) \/ i = Len(probes[q]) + 1
    BY <1>3, <2>2
  <2>4. \A i \in 1 .. Len(probes'[q]) :
          probes'[q][i] = "recovered" => i > 1 /\ probes'[q][i - 1] = "unreachable"
    <3> SUFFICES ASSUME NEW i \in 1 .. Len(probes'[q]), probes'[q][i] = "recovered"
                 PROVE  i > 1 /\ probes'[q][i - 1] = "unreachable"
      OBVIOUS
    <3>1. CASE i = Len(probes[q]) + 1
      BY <1>3, <2>1, <2>2, <3>1
    <3>2. CASE i \in 1 .. Len(probes[q])
      <4>1. i > 1 /\ probes[q][i - 1] = "unreachable" /\ i - 1 \in 1 .. Len(probes[q])
        BY <1>1, <1>3, <2>2, <3>2
      <4> QED BY <2>2, <4>1
    <3> QED BY <2>3, <3>1, <3>2
  <2> QED BY <1>6, <2>4
<1>7. ASSUME NEW c \in Relay, NEW p \in Provider, RecordProbe(c, p) PROVE Told(q)'
  <2> DEFINE t == lane[c][p].health
  <2>1. CASE ~ProbeIsNewer(health[p], t) \/ q # p
    <3>1. UNCHANGED <<health[q], probes[q]>>
      BY <1>7, <2>1 DEF RecordProbe, TypeOK
    <3> QED BY <1>2, <3>1
  <2>2. CASE ProbeIsNewer(health[p], t) /\ q = p /\ health[p].state # "unreachable"
    <3>1. probes'[q] = Append(probes[q], "unreachable")
      BY <1>7, <2>2 DEF RecordProbe, TypeOK
    <3> QED BY <1>5, <3>1
  <2>3. CASE ProbeIsNewer(health[p], t) /\ q = p /\ health[p].state = "unreachable"
    <3>1. probes' = probes
      BY <1>7, <2>3 DEF RecordProbe
    <3> QED BY <1>2, <2>3, <3>1
  <2> QED BY <2>1, <2>2, <2>3
<1>8. ASSUME NEW c \in Relay, NEW p \in Provider, ObserveCentrally(c, p) PROVE Told(q)'
  <2> DEFINE new == ObserveReachable(health[p], lane[c][p].health, clock)
  <2>1. lane[c][p].health \in Time /\ health[p] \in HealthRow /\ clock \in Time
        /\ None \in Event \cup {None}
    BY DEF TypeOK, Lane
  <2>2. new.state = "unreachable" => health[p].state = "unreachable" /\ ~Recovers(health[p], clock)
    BY <2>1, ObservedPointer
  <2>3. /\ health' = [health EXCEPT ![p] = new]
        /\ probes' = IF Recovers(health[p], clock)
                     THEN [probes EXCEPT ![p] = Append(@, "recovered")] ELSE probes
    BY <1>8 DEF ObserveCentrally
  <2> HIDE DEF new
  <2>4. CASE q # p
    <3>1. UNCHANGED <<health[q], probes[q]>>
      BY <2>3, <2>4 DEF TypeOK
    <3> QED BY <1>2, <3>1
  <2>5. CASE q = p /\ Recovers(health[p], clock)
    <3>1. probes'[q] = Append(probes[q], "recovered") /\ health'[q] = new
      BY <2>3, <2>5 DEF TypeOK
    <3>2. health[q].state = "unreachable"
      BY <2>5 DEF Recovers
    <3> QED BY <1>6, <2>2, <2>5, <3>1, <3>2
  <2>6. CASE q = p /\ ~Recovers(health[p], clock)
    <3>1. probes' = probes /\ health'[q] = new
      BY <2>3, <2>6 DEF TypeOK
    <3> QED BY <1>2, <2>2, <2>6, <3>1
  <2> QED BY <2>4, <2>5, <2>6
<1>9. ASSUME NEW c \in Relay, NEW p \in Provider, AcceptEvent(c, p) \/ AcceptOutcomeLost(c, p)
      PROVE  Told(q)'
  <2> DEFINE e == Head(lane[c][p].batch)
             new == ObserveHealth(health[p], lane[c][p].health, e)
  <2>1. health' = [health EXCEPT ![p] = new] /\ UNCHANGED probes /\ lane[c][p].at = "accept"
    BY <1>9 DEF AcceptEvent, AcceptOutcomeLost, Accept
  <2>2. lane[c][p].health \in Time /\ health[p] \in HealthRow /\ e \in Event
    BY <2>1, HeadOfBatch DEF TypeOK, Lane
  <2>3. new.state = "unreachable" => health[p].state = "unreachable"
    BY <2>2, ObservedPointer
  <2> HIDE DEF new
  <2>4. (q = p /\ health'[q] = new) \/ health'[q] = health[q]
    BY <2>1 DEF TypeOK
  <2> QED BY <1>2, <2>1, <2>3, <2>4
<1>10. CASE UNCHANGED <<health, probes>>
  BY <1>2, <1>10
<1>11. ASSUME NEW c \in Relay, StartCycle(c) \/ CrashRelay(c)
       PROVE  UNCHANGED <<health, probes>>
  BY <1>11 DEF StartCycle, CrashRelay
<1>12. ASSUME NEW c \in Relay, NEW p \in Provider,
              \/ ReadBatch(c, p) \/ AcknowledgeEvent(c, p) \/ BackoffPasses(c, p)
              \/ ReadFails(c, p) \/ ReadUnreachable(c, p) \/ ProbeFails(c, p) \/ CallFails(c, p)
       PROVE  UNCHANGED <<health, probes>>
  BY <1>12 DEF ReadBatch, AcknowledgeEvent, BackoffPasses, ReadFails, ReadUnreachable, ProbeFails,
               CallFails
<1> QED BY <1>7, <1>8, <1>9, <1>10, <1>11, <1>12 DEF Next, Relays, Tick, AppendEvent, vars

-----------------------------------------------------------------------------
(* The theorems.                                                           *)

LEMMA RelayInvariant == Spec => []RelayInv
<1>1. Init => RelayInv
  <2> SUFFICES ASSUME Init PROVE RelayInv
    OBVIOUS
  <2>1. NoHealth \in HealthRow /\ 0 \in Time /\ 1 \in Time
    BY RelayAssumption DEF NoHealth, HealthRow, Time
  <2>2. <<>> \in Seq(OutboxRow) /\ <<>> \in Seq({"unreachable", "recovered"})
        /\ Len(<<>>) = 0
    BY EmptySeq
  <2>3. TypeOK
    BY <2>1, <2>2, IdleLaneType DEF Init, TypeOK
  <2>4. \A p \in Provider : /\ health[p].state = "absent" /\ health[p].last = None
                            /\ central[p] = {} /\ probes[p] = <<>>
    BY DEF Init, NoHealth
  <2>5. \A c \in Relay, p \in Provider : lane[c][p].at = "idle" /\ lane[c][p].batch = <<>>
    BY DEF Init, IdleLane
  <2> QED BY <2>2, <2>3, <2>4, <2>5
             DEF RelayInv, Carried, Pointed, OutageReported, LastActivityIsLatest,
                 RecoveryFollowsOutage
<1>2. RelayInv /\ [Next]_vars => RelayInv'
  BY TypeStep, CarriedStep, PointedStep, OutageStep DEF RelayInv
<1> QED BY <1>1, <1>2, PTL DEF Spec

\* Every reachable state of the relay and the outboxes is well typed.
THEOREM RelayTypeCorrect == Spec => []TypeOK
<1>1. RelayInv => TypeOK
  BY DEF RelayInv
<1> QED BY <1>1, RelayInvariant, PTL

\* The health row names the latest activity the centre holds, however many
\* coordinators deliver batches and health of different ages.
THEOREM LastActivityIsLatestAlways == Spec => []LastActivityIsLatest
<1>1. RelayInv => LastActivityIsLatest
  BY DEF RelayInv
<1> QED BY <1>1, RelayInvariant, PTL

\* A recovery is reported only right after an outage was.
THEOREM RecoveryFollowsOutageAlways == Spec => []RecoveryFollowsOutage
<1>1. RelayInv => RecoveryFollowsOutage
  BY DEF RelayInv
<1> QED BY <1>1, RelayInvariant, PTL

-----------------------------------------------------------------------------
(* The relay implements an outbox.                                         *)

\* What the three variables of ReliableOutbox become in a step that only touches
\* one provider.
LEMMA LedgerStep ==
    ASSUME RelayInv, [Next]_vars
    PROVE  [Ledger!Next]_Ledger!ovars
<1> DEFINE applied == UNION {central[p] : p \in Provider}
           acknowledged == UNION {Delivered(p) : p \in Provider}
<1> USE DEF RelayInv
<1>1. ASSUME UNCHANGED outbox
      PROVE  /\ Emitted' = Emitted /\ acknowledged' = acknowledged
  <2>1. \A p \in Provider : EventsOf(p)' = EventsOf(p) /\ Delivered(p)' = Delivered(p)
    BY <1>1 DEF EventsOf, Delivered, Rows
  <2> QED BY <2>1 DEF Emitted
<1>2. ASSUME UNCHANGED <<outbox, central>> PROVE UNCHANGED Ledger!ovars
  BY <1>1, <1>2 DEF Ledger!ovars
<1>3. ASSUME NEW p \in Provider, NEW e \in Event, AppendEvent(p, e)
      PROVE  Ledger!Emit(e)
  <2>1. /\ EventsOf(p)' = EventsOf(p) \cup {e}
        /\ \A q \in Provider : q # p => EventsOf(q)' = EventsOf(q)
        /\ \A q \in Provider : Delivered(q)' = Delivered(q)
    BY <1>3, AppendEventRows
  <2>2. e \notin Emitted /\ central' = central
    BY <1>3 DEF AppendEvent
  <2>3. Emitted' = Emitted \cup {e}
    BY <2>1 DEF Emitted
  <2>4. acknowledged' = acknowledged
    BY <2>1
  <2> QED BY <2>2, <2>3, <2>4 DEF Ledger!Emit
<1>4. ASSUME NEW c \in Relay, NEW p \in Provider, AcceptEvent(c, p) \/ AcceptOutcomeLost(c, p)
      PROVE  \E e \in Event : Ledger!Apply(e)
  <2> DEFINE e == Head(lane[c][p].batch)
  <2>1. lane[c][p].at = "accept" /\ central' = [central EXCEPT ![p] = @ \cup {e}] /\ UNCHANGED outbox
    BY <1>4 DEF AcceptEvent, AcceptOutcomeLost, Accept
  <2>2. e \in Event /\ e \in EventsOf(p)
    BY <2>1, HeadOfBatch
  <2>3. applied' = applied \cup {e}
    BY <2>1 DEF TypeOK
  <2> HIDE DEF e
  <2>4. e \in Emitted
    BY <2>2 DEF Emitted
  <2> QED BY <1>1, <2>1, <2>2, <2>3, <2>4 DEF Ledger!Apply
<1>5. ASSUME NEW c \in Relay, NEW p \in Provider, AcknowledgeEvent(c, p)
      PROVE  \E e \in Event : Ledger!Acknowledge(e)
  <2> DEFINE e == Head(lane[c][p].batch)
  <2>1. lane[c][p].at = "ack" /\ MarkDelivered(p, e) /\ UNCHANGED central
    BY <1>5 DEF AcknowledgeEvent
  <2>2. e \in Event /\ e \in EventsOf(p) /\ e \in central[p]
    BY <2>1, HeadOfBatch DEF Carried
  <2> HIDE DEF e
  <2>3. /\ \A q \in Provider : EventsOf(q)' = EventsOf(q)
        /\ \A q \in Provider : q # p => Delivered(q)' = Delivered(q)
        /\ Delivered(p)' = Delivered(p) \cup {e}
    BY <2>1, <2>2, MarkDeliveredRows
  <2>4. Emitted' = Emitted
    BY <2>3 DEF Emitted
  <2>5. acknowledged' = acknowledged \cup {e}
    BY <2>3
  <2>6. e \in applied
    BY <2>2
  <2> QED BY <2>1, <2>2, <2>4, <2>5, <2>6 DEF Ledger!Acknowledge
<1>6. ASSUME NEW c \in Relay, StartCycle(c) \/ CrashRelay(c)
      PROVE  UNCHANGED <<outbox, central>>
  BY <1>6 DEF StartCycle, CrashRelay
<1>7. ASSUME NEW c \in Relay, NEW p \in Provider,
             \/ ReadBatch(c, p) \/ RecordProbe(c, p) \/ ObserveCentrally(c, p) \/ BackoffPasses(c, p)
             \/ ReadFails(c, p) \/ ReadUnreachable(c, p) \/ ProbeFails(c, p) \/ CallFails(c, p)
      PROVE  UNCHANGED <<outbox, central>>
  BY <1>7 DEF ReadBatch, RecordProbe, ObserveCentrally, BackoffPasses, ReadFails, ReadUnreachable,
              ProbeFails, CallFails
<1>8. CASE Tick \/ UNCHANGED vars
  BY <1>2, <1>8 DEF Tick, vars
<1> QED BY <1>2, <1>3, <1>4, <1>5, <1>6, <1>7, <1>8 DEF Next, Relays, Ledger!Next

\* The relay implements ReliableOutbox: the centre holds only committed events,
\* and a row is marked delivered only once the centre has its event.
THEOREM RelayIsReliableAlways == Spec => RelayIsReliable
<1>1. Init => Ledger!Init
  <2> SUFFICES ASSUME Init PROVE Ledger!Init
    OBVIOUS
  <2>1. \A p \in Provider : Rows(p) = {}
    BY DEF Init, Rows
  <2>2. \A p \in Provider : EventsOf(p) = {} /\ Delivered(p) = {} /\ central[p] = {}
    BY <2>1 DEF EventsOf, Delivered, Init
  <2> QED BY <2>2 DEF Ledger!Init, Emitted
<1>2. RelayInv /\ [Next]_vars => [Ledger!Next]_Ledger!ovars
  BY LedgerStep
<1> QED BY <1>1, <1>2, RelayInvariant, PTL DEF Spec, RelayIsReliable, Ledger!Spec
=============================================================================

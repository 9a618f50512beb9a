------------------------ MODULE ProviderImport_proofs ------------------------
(***************************************************************************)
(* Theorems about ProviderImport, for every set of workers, runs, commands *)
(* and cursors, every limit, and however executions are cut short.         *)
(***************************************************************************)
EXTENDS ProviderImport, ProviderRuntime_proofs

-----------------------------------------------------------------------------
(* The invariant, in the parts its proof needs.                            *)

\* Where an execution has no run in hand yet, has a configuration that its
\* worker supports, has a run in hand.
Reading == {"snapshot", "incapable", "acquire", "recover"}
Configured == {"start", "renew", "fetch", "commit", "match"}
Working == Location \ (Reading \cup {"idle", "start", "release"})

\* The local variables `s` of an execution, wherever it stands: a command was
\* made, and the configuration is none that is still to come.
Basic(s) ==
    /\ s \in WorkerType
    /\ s.command # None => commands[s.command].state # "none"
    /\ s.config <= runtime.config

\* What they are at the place `at`.
Placed(s, at) ==
    /\ at \in Reading => s.run = None
    /\ at \in Configured => s.config # 0
    /\ at \in Working => s.run \in RunId
    /\ at = "start" => s.command # None
    /\ at \in {"fetch", "commit"} => s.number <= MaxPages

Sane(s) == Basic(s) /\ Placed(s, s.at)

\* No run has more pages than an execution may ask for, none before it runs; a
\* run command names its run; whoever owns the lease was given a fence.
Tables ==
    /\ \A r \in RunId : /\ runs[r].pages <= MaxPages
                        /\ runs[r].state \in {"none", "queued"} => runs[r].pages = 0
    /\ \A c \in RunCommand : commands[c].state # "none" => commands[c].run \in RunId
    /\ lease.owner # None => lease.fence > 0
    /\ lease.live => lease.owner # None

Base == TypeOK /\ ImportTypeOK /\ Tables /\ \A w \in Worker : Sane(worker[w])

\* The run `s` works on is its own, and as `s` has it.
Owns(s) ==
    /\ s.run \in RunId
    /\ runs[s.run].state = "running" /\ runs[s.run].fence = s.fence
    /\ runs[s.run].pages + 1 = s.number /\ runtime.cursor = s.cursor

\* So it is as long as the lease is live; before start the execution may have no
\* run in hand, and then nothing is running.
Holds(w, s) ==
    s.at \in Configured /\ IsLive(w, s.fence) =>
        Owns(s) \/ (s.at = "start" /\ s.run = None /\ ~Attempted)

HoldersOwn == \A w \in Worker : Holds(w, worker[w])

-----------------------------------------------------------------------------
(* Where an execution may go.                                              *)

\* Moving on keeps what is read later, and with it what holds of the place.
LEMMA LiveSane ==
    ASSUME TypeOK, NEW s, Basic(s), NEW at \in Location, Placed(s, at)
    PROVE  Sane(Live(s, at)) /\ Live(s, at).at = at /\ Live(s, at).fence = s.fence
<1>0. s \in WorkerType
  BY DEF Basic
<1>c. 0 \in Config /\ 0 <= runtime.config /\ 0 \in 0 .. MaxPages + 1
  BY ConfigAssumption, ImportAssumption DEF TypeOK, Runtime, Config
<1>1. CASE at \in {"head", "reconcile", "confirm", "progress"}
  <2> DEFINE t == [IdleWorker EXCEPT !.at = at, !.fence = s.fence, !.run = s.run, !.number = s.number]
  <2>1. Live(s, at) = t
    BY <1>1 DEF Live
  <2>2. /\ t \in WorkerType /\ t.at = at /\ t.fence = s.fence /\ t.run = s.run
        /\ t.command = None /\ t.config = 0
    BY <1>0, <1>1, <1>c DEF IdleWorker, WorkerType, Location
  <2> HIDE DEF t
  <2> QED BY <1>c, <1>1, <2>1, <2>2 DEF Sane, Basic, Placed, Reading, Configured, Working
<1>2. CASE at \in {"finish", "fail"}
  <2> DEFINE t == [IdleWorker EXCEPT !.at = at, !.fence = s.fence, !.run = s.run]
  <2>1. Live(s, at) = t
    BY <1>2 DEF Live
  <2>2. /\ t \in WorkerType /\ t.at = at /\ t.fence = s.fence /\ t.run = s.run
        /\ t.command = None /\ t.config = 0
    BY <1>0, <1>2, <1>c DEF IdleWorker, WorkerType, Location
  <2> HIDE DEF t
  <2> QED BY <1>c, <1>2, <2>1, <2>2 DEF Sane, Basic, Placed, Reading, Configured, Working
<1>3. CASE at = "release"
  <2> DEFINE t == [IdleWorker EXCEPT !.at = at, !.fence = s.fence]
  <2>1. Live(s, at) = t
    BY <1>3 DEF Live
  <2>2. /\ t \in WorkerType /\ t.at = at /\ t.fence = s.fence
        /\ t.command = None /\ t.config = 0
    BY <1>0, <1>3, <1>c DEF IdleWorker, WorkerType, Location
  <2> HIDE DEF t
  <2> QED BY <1>c, <1>3, <2>1, <2>2 DEF Sane, Basic, Placed, Reading, Configured, Working
<1>4. CASE at \notin {"head", "reconcile", "confirm", "progress", "finish", "fail", "release"}
  <2> DEFINE t == [s EXCEPT !.at = at]
  <2>1. Live(s, at) = t
    BY <1>4 DEF Live
  <2>2. /\ t \in WorkerType /\ t.at = at /\ t.fence = s.fence /\ t.run = s.run
        /\ t.command = s.command /\ t.config = s.config /\ t.number = s.number
    BY <1>0 DEF WorkerType
  <2> HIDE DEF t
  <2> QED BY <2>1, <2>2 DEF Sane, Basic, Placed
<1> QED BY <1>1, <1>2, <1>3, <1>4

\* An execution that is over, or never began.
LEMMA IdleSane ==
    ASSUME TypeOK
    PROVE  Sane(IdleWorker) /\ IdleWorker.at = "idle"
<1>1. 0 \in Config /\ 0 <= runtime.config /\ 0 \in 0 .. MaxPages + 1
  BY ConfigAssumption, ImportAssumption DEF TypeOK, Runtime, Config
<1>2. IdleWorker \in WorkerType /\ IdleWorker.at = "idle" /\ IdleWorker.command = None
      /\ IdleWorker.config = 0
  BY <1>1 DEF IdleWorker, WorkerType, Location
<1> HIDE DEF IdleWorker
<1> QED BY <1>1, <1>2 DEF Sane, Basic, Placed, Reading, Configured, Working

\* Worker w moves to the local state t, others stay.
Moves(w, t) == worker' = [worker EXCEPT ![w] = t] /\ Sane(t)

\* What each kind of move asks of the place it leads to.
LEMMA MovesOn ==
    ASSUME Base, NEW w \in Worker, NEW s, Basic(s), NEW at \in Location, Placed(s, at),
           Continue(w, s, at)
    PROVE  \E t : Moves(w, t)
  BY LiveSane DEF Moves, Continue, Base

LEMMA GoesTo ==
    ASSUME Base, NEW w \in Worker, NEW at \in Location, Placed(worker[w], at), Goto(w, at)
    PROVE  \E t : Moves(w, t)
  BY MovesOn DEF Goto, Base, Sane

LEMMA Returns ==
    ASSUME Base, NEW w \in Worker, Return(w)
    PROVE  \E t : Moves(w, t)
  BY IdleSane DEF Moves, Return, Base

\* Taking a run on, its row having a page number left: before start, with it,
\* or to be failed.
LEMMA TakesOn ==
    ASSUME Base, NEW w \in Worker, worker[w].at = "recover", NEW r \in RunId,
           NEW row \in Run, row.pages <= MaxPages, TakeAttempt(w, r, row)
    PROVE  \E t : Moves(w, t)
<1> DEFINE s == worker[w]
           t == [s EXCEPT !.run = r, !.cursor = runtime.cursor, !.number = row.pages + 1]
           at == AfterRecovery(w, row)
<1>1. s \in WorkerType /\ Basic(s) /\ runtime \in Runtime
  BY DEF Base, Sane, Basic, TypeOK
<1>2. row.pages + 1 \in 0 .. MaxPages + 1
  BY ImportAssumption DEF Run
<1>3. /\ t \in WorkerType /\ t.run = r /\ t.command = s.command /\ t.config = s.config
  BY <1>1, <1>2 DEF WorkerType, Runtime
<1> HIDE DEF t
<1>4. Basic(t)
  BY <1>1, <1>3 DEF Basic
<1>5. /\ at \in {"fail", "start", "release", "head", "renew"}
      /\ at \in {"start", "release", "head", "renew"} => s.config # 0
      /\ at = "start" => s.command # None
  BY DEF AfterRecovery, Enter, Supports
<1> HIDE DEF at
<1>6. Placed(t, at)
  BY <1>3, <1>5 DEF Placed, Reading, Configured, Working
<1>7. Continue(w, t, at)
  BY DEF TakeAttempt, t, at
<1> QED BY <1>4, <1>5, <1>6, <1>7, MovesOn DEF Location

LEMMA TakesStarted ==
    ASSUME Base, NEW w \in Worker, worker[w].at = "start", NEW r \in RunId,
           NEW row \in Run, row.pages <= MaxPages, TakeStarted(w, r, row)
    PROVE  \E t : Moves(w, t)
<1> DEFINE s == worker[w]
           cursor == IF s.run = None THEN row.requested ELSE s.cursor
           t == [s EXCEPT !.run = r, !.number = row.pages + 1, !.command = None,
                          !.cursor = cursor]
           at == Enter(row)
<1>1. s \in WorkerType /\ Basic(s) /\ s.config # 0
  BY DEF Base, Sane, Basic, Placed, Configured
<1>2. row.pages + 1 \in 0 .. MaxPages + 1 /\ cursor \in Cursor \cup {None}
  BY <1>1, ImportAssumption DEF Run, WorkerType
<1>c. TakeStarted(w, r, row) = Continue(w, t, at)
  BY DEF TakeStarted
<1> HIDE DEF cursor
<1>3. /\ t \in WorkerType /\ t.run = r /\ t.command = None /\ t.config = s.config
  BY <1>1, <1>2 DEF WorkerType
<1> HIDE DEF t
<1>4. Basic(t)
  BY <1>1, <1>3 DEF Basic
<1>5. at \in {"release", "head", "renew"}
  BY DEF Enter
<1> HIDE DEF at
<1>6. Placed(t, at)
  BY <1>1, <1>3, <1>5 DEF Placed, Reading, Configured, Working
<1> QED BY <1>4, <1>5, <1>6, <1>c, MovesOn DEF Location

-----------------------------------------------------------------------------
(* What an execution does to the database.                                 *)

\* Whoever has a live lease has its fence, which was granted.
LEMMA GrantedFences ==
    ASSUME TypeOK, Tables, NEW w \in Worker, NEW f, lease.owner = w, lease.fence = f
    PROVE  f \in 1 .. lease.fence
  BY NoneAssumption DEF TypeOK, Tables, Lease

\* A transaction that worker w may make from where it stands.
Transaction(w) ==
    LET s == worker[w] IN
    \/ UNCHANGED rvars
    \/ Acquire(w)
    \/ Release(w, s.fence)
    \/ s.at = "start" /\ Start(w, s.fence, s.command, CommandRun(w), s.config)
    \/ \E r \in RunId : \/ RecoverIneligible(w, s.fence, r)
                        \/ \E n \in RunId : Recover(w, s.fence, r, n)
                        \/ \E outcome \in Terminal : Finish(w, s.fence, r, outcome)
                        \/ \E phase \in Phase : HeadStep(w, s.fence, r, phase)
    \/ s.at = "commit" /\ CommitPage(w, s.fence, FetchedPage(w))

\* It is one that ProviderRuntime allows a worker.
LEMMA TransactionAllowed ==
    ASSUME Base, NEW w \in Worker, Transaction(w)
    PROVE  [RuntimeNext]_rvars
<1> DEFINE s == worker[w]
<1>1. TypeOK /\ Tables /\ Sane(s) /\ s \in WorkerType
  BY DEF Base, Sane, Basic
<1>2. ASSUME WorkerTransaction(w, s.fence), lease.owner = w /\ lease.fence = s.fence
      PROVE  RuntimeNext
  BY <1>1, <1>2, GrantedFences DEF RuntimeNext
<1>3. IsLive(w, s.fence) => lease.owner = w /\ lease.fence = s.fence
  BY DEF IsLive
<1>4. s.config # 0 => s.config \in 1 .. MaxConfig
  BY <1>1, ConfigAssumption DEF WorkerType, Config
<1>5. CASE Acquire(w)
  BY <1>5 DEF RuntimeNext
<1>6. CASE Release(w, s.fence)
  BY <1>2, <1>6 DEF Release, WorkerTransaction
<1>7. CASE s.at = "start" /\ Start(w, s.fence, s.command, CommandRun(w), s.config)
  <2>1. s.command \in RunCommand /\ s.config \in 1 .. MaxConfig /\ CommandRun(w) \in RunId
    BY <1>1, <1>4, <1>7 DEF Sane, Basic, Placed, Configured, WorkerType, Tables, CommandRun
  <2>2. WorkerTransaction(w, s.fence)
    BY <1>7, <2>1 DEF WorkerTransaction
  <2> QED BY <1>2, <1>3, <1>7, <2>2 DEF Start
<1>8. ASSUME NEW r \in RunId, RecoverIneligible(w, s.fence, r)
      PROVE  RuntimeNext
  BY <1>2, <1>3, <1>8 DEF RecoverIneligible, WorkerTransaction
<1>9. ASSUME NEW r \in RunId, NEW n \in RunId, Recover(w, s.fence, r, n)
      PROVE  RuntimeNext
  BY <1>2, <1>3, <1>9 DEF Recover, WorkerTransaction
<1>10. ASSUME NEW r \in RunId, NEW outcome \in Terminal, Finish(w, s.fence, r, outcome)
       PROVE  RuntimeNext
  BY <1>2, <1>3, <1>10 DEF Finish, FinishAllowed, WorkerTransaction
<1>11. ASSUME NEW r \in RunId, NEW phase \in Phase, HeadStep(w, s.fence, r, phase)
       PROVE  RuntimeNext
  BY <1>2, <1>3, <1>11 DEF HeadStep, WorkerTransaction
<1>12. CASE s.at = "commit" /\ CommitPage(w, s.fence, FetchedPage(w))
  <2>1. /\ s.run \in RunId /\ s.config \in 1 .. MaxConfig
        /\ s.cursor \in Cursor \cup {None} /\ s.to \in Cursor \cup {None} /\ s.head \in BOOLEAN
    BY <1>1, <1>4, <1>12 DEF Sane, Placed, Configured, Working, Location, Reading, WorkerType
  <2>2. CommitAllowed(w, s.fence, FetchedPage(w))
    BY <1>12 DEF CommitPage
  <2>3. s.number = runs[s.run].pages + 1 /\ IsLive(w, s.fence)
    BY <2>2 DEF CommitAllowed, FetchedPage
  <2>4. FetchedPage(w) = [run |-> s.run, config |-> s.config, number |-> runs[s.run].pages + 1,
                          from |-> s.cursor, to |-> s.to, head |-> s.head]
    BY <2>3 DEF FetchedPage
  <2>5. WorkerTransaction(w, s.fence)
    BY <1>12, <2>1, <2>4 DEF WorkerTransaction
  <2> QED BY <1>2, <1>3, <2>3, <2>5
<1> QED BY <1>5, <1>6, <1>7, <1>8, <1>9, <1>10, <1>11, <1>12 DEF Transaction

\* A step of an execution that is not disturbed.
LEMMA ExecuteMoves ==
    ASSUME Base, NEW w \in Worker, Execute(w)
    PROVE  Transaction(w) /\ faults' = faults /\ \E t : Moves(w, t)
<1> DEFINE s == worker[w]
<1>1. /\ TypeOK /\ Tables /\ Sane(s) /\ Basic(s) /\ Placed(s, s.at) /\ s \in WorkerType
      /\ \A r \in RunId : runs[r] \in Run /\ runs[r].pages <= MaxPages
  BY DEF Base, Sane, Basic, Tables, TypeOK
<1>2. ASSUME Local PROVE Transaction(w) /\ faults' = faults
  BY <1>2 DEF Local, Transaction, rvars
<1>3. CASE ReadCommand(w)
  <2>1. PICK c \in RunCommand \cup {None} :
           /\ c # None => commands[c].state = "accepted"
           /\ worker' = [worker EXCEPT ![w] = [IdleWorker EXCEPT !.at = "snapshot", !.command = c]]
    BY <1>3 DEF ReadCommand
  <2> DEFINE t == [IdleWorker EXCEPT !.at = "snapshot", !.command = c]
  <2>2. IdleWorker \in WorkerType /\ IdleWorker.config = 0 /\ IdleWorker.run = None /\ 0 <= runtime.config
    BY <1>1, IdleSane DEF Sane, Basic, IdleWorker
  <2>3. t \in WorkerType /\ t.config = 0 /\ t.run = None /\ t.at = "snapshot" /\ t.command = c
    <3> HIDE DEF IdleWorker
    <3> QED BY <2>2 DEF WorkerType, Location
  <2> HIDE DEF t
  <2>4. Sane(t)
    BY <2>1, <2>2, <2>3 DEF Sane, Basic, Placed, Reading, Configured, Working
  <2>5. Moves(w, t)
    BY <2>1, <2>4 DEF Moves, t
  <2> QED BY <1>2, <1>3, <2>5 DEF ReadCommand
<1>4. CASE ReadRuntime(w)
  <2> DEFINE at == IF Supports(w, runtime.config) THEN "acquire" ELSE "incapable"
             t == [s EXCEPT !.config = runtime.config, !.at = at]
  <2>1. worker' = [worker EXCEPT ![w] = t] /\ s.at = "snapshot"
    BY <1>4 DEF ReadRuntime
  <2>2. at \in {"acquire", "incapable"}
    OBVIOUS
  <2> HIDE DEF at
  <2>3. runtime.config \in Config /\ runtime.config <= runtime.config
    BY <1>1 DEF TypeOK, Runtime, Config
  <2>4. t \in WorkerType /\ t.config = runtime.config /\ t.run = s.run /\ t.at = at /\ t.command = s.command
    BY <1>1, <2>2, <2>3 DEF WorkerType, Location
  <2> HIDE DEF t
  <2>5. Sane(t)
    BY <1>1, <2>1, <2>2, <2>3, <2>4 DEF Sane, Basic, Placed, Reading, Configured, Working
  <2>6. Moves(w, t)
    BY <2>1, <2>5 DEF Moves
  <2> QED BY <1>2, <1>4, <2>6 DEF ReadRuntime
<1>5. CASE ReadActive(w)
  <2>1. CASE Goto(w, "acquire")
    <3>1. "acquire" \in Location /\ Placed(s, "acquire")
      BY <1>1, <1>5 DEF ReadActive, Placed, Reading, Configured, Working, Location
    <3> QED BY <1>2, <1>5, <2>1, <3>1, GoesTo DEF ReadActive
  <2>2. CASE Return(w)
    BY <1>2, <1>5, <2>2, Returns DEF ReadActive
  <2> QED BY <1>5, <2>1, <2>2 DEF ReadActive
<1>6. CASE AcquireHeld(w)
  BY <1>2, <1>6, Returns DEF AcquireHeld
<1>7. CASE AcquireGranted(w)
  <2> DEFINE t == [s EXCEPT !.fence = GrantedFence, !.at = "recover"]
  <2>1. worker' = [worker EXCEPT ![w] = t] /\ s.at = "acquire" /\ Acquire(w) /\ faults' = faults
    BY <1>7 DEF AcquireGranted
  <2>2. GrantedFence \in Nat
    BY <1>1 DEF GrantedFence, TypeOK, Lease
  <2>3. t \in WorkerType /\ t.config = s.config /\ t.run = s.run /\ t.at = "recover" /\ t.command = s.command
    <3> HIDE DEF GrantedFence
    <3> QED BY <1>1, <2>2 DEF WorkerType, Location
  <2> HIDE DEF t
  <2>4. Sane(t)
    BY <1>1, <2>1, <2>3 DEF Sane, Basic, Placed, Reading, Configured, Working
  <2>5. Moves(w, t)
    BY <2>1, <2>4 DEF Moves
  <2> QED BY <2>1, <2>5 DEF Transaction
<1>8. CASE RecoverNothing(w)
  <2>1. PICK at \in {"start", "release"} :
           Goto(w, at) /\ (at = "start" => Supports(w, s.config) /\ s.command # None)
    BY <1>8 DEF RecoverNothing
  <2>2. at \in Location /\ Placed(s, at)
    BY <1>1, <2>1 DEF Supports, Placed, Reading, Configured, Working, Location
  <2> QED BY <1>2, <1>8, <2>1, <2>2, GoesTo DEF RecoverNothing
<1>9. CASE RecoverResumed(w)
  <2>1. PICK r \in RunId : TakeAttempt(w, r, runs[r])
    BY <1>9 DEF RecoverResumed
  <2> QED BY <1>1, <1>2, <1>9, <2>1, TakesOn DEF RecoverResumed
<1>10. CASE RecoverAttempt(w)
  <2>1. PICK r \in RunId, n \in RunId : Recover(w, s.fence, r, n) /\ TakeAttempt(w, n, runs'[n])
    BY <1>10 DEF RecoverAttempt
  <2>2. Transaction(w) /\ faults' = faults /\ s.at = "recover"
    BY <1>10, <2>1 DEF Transaction, RecoverAttempt
  <2>3. runs[r].state = "running" /\ runs[n].state = "none"
    BY <2>1 DEF Recover, Fresh
  <2>4. runs'[n] = Successor(r, s.fence)
    BY <1>1, <2>1, <2>3 DEF Recover, TypeOK
  <2>5. s.fence \in Nat
    BY <1>1 DEF WorkerType
  <2>6. PICK row \in Run : row = runs'[n] /\ row.pages = 0
    BY <1>1, <2>4, <2>5, SuccessorRow
  <2>7. TakeAttempt(w, n, row) /\ row.pages <= MaxPages
    BY <2>1, <2>6, ImportAssumption
  <2>8. \E t : Moves(w, t)
    BY <2>2, <2>7, TakesOn
  <2> QED BY <2>2, <2>8
<1>11. CASE RecoverRefused(w)
  <2>1. "release" \in Location /\ Placed(s, "release")
    BY DEF Placed, Reading, Configured, Working, Location
  <2> QED BY <1>11, <2>1, GoesTo DEF RecoverRefused, Transaction
<1>12. CASE StartRun(w)
  <2>1. /\ s.at = "start" /\ Start(w, s.fence, s.command, CommandRun(w), s.config) /\ faults' = faults
        /\ TakeStarted(w, CommandRun(w), runs'[CommandRun(w)])
    BY <1>12 DEF StartRun
  <2>2. PICK r \in RunId : r = CommandRun(w)
    BY <1>1, <2>1 DEF Basic, Placed, WorkerType, Tables, CommandRun
  <2>3. runs'[r] = Started(runs[r], s.fence)
    BY <1>1, <2>1, <2>2 DEF Start, TypeOK
  <2>4. s.fence \in Nat
    BY <1>1 DEF WorkerType
  <2>5. PICK row \in Run : row = runs'[r] /\ row.pages = runs[r].pages
    BY <1>1, <2>3, <2>4, StartedRow
  <2>6. TakeStarted(w, r, row) /\ row.pages <= MaxPages
    BY <1>1, <2>1, <2>2, <2>5
  <2>7. \E t : Moves(w, t)
    BY <2>1, <2>6, TakesStarted
  <2> QED BY <2>1, <2>7 DEF Transaction
<1>13. CASE StartDeduplicated(w)
  <2>1. CommandRun(w) \in RunId
    BY <1>1, <1>13 DEF StartDeduplicated, Basic, Placed, WorkerType, Tables, CommandRun
  <2> QED BY <1>1, <1>2, <1>13, <2>1, TakesStarted DEF StartDeduplicated
<1>14. CASE StartRefused(w)
  <2>1. PICK at \in {"release"} : Goto(w, at)
    BY <1>14 DEF StartRefused
  <2>2. at \in Location /\ Placed(s, at)
    BY <1>1, <1>14, <2>1 DEF StartRefused, Placed, Reading, Configured, Working, Location
  <2> QED BY <1>2, <1>14, <2>1, <2>2, GoesTo DEF StartRefused
<1>15. CASE RenewForPage(w)
  <2>1. PICK at \in {"fail", "fetch", "release"} : Goto(w, at) /\ (at = "fetch" => ~(s.number > MaxPages))
    BY <1>15 DEF RenewForPage
  <2>2. s.number <= MaxPages \/ s.number > MaxPages
    BY <1>1, ImportAssumption DEF WorkerType
  <2>3. at \in Location /\ Placed(s, at)
    BY <1>1, <1>15, <2>1, <2>2 DEF RenewForPage, Placed, Reading, Configured, Working, Location
  <2> QED BY <1>2, <1>15, <2>1, <2>3, GoesTo DEF RenewForPage
<1>16. CASE FetchPage(w)
  <2>1. PICK to \in Cursor \cup {None}, head \in BOOLEAN :
           worker' = [worker EXCEPT ![w].to = to, ![w].head = head, ![w].at = "commit"]
    BY <1>16 DEF FetchPage
  <2> DEFINE t == [s EXCEPT !.to = to, !.head = head, !.at = "commit"]
  <2>2. worker' = [worker EXCEPT ![w] = t] /\ s.at = "fetch"
    BY <1>16, <2>1 DEF FetchPage
  <2>3. /\ t \in WorkerType /\ t.config = s.config /\ t.run = s.run /\ t.at = "commit"
        /\ t.command = s.command /\ t.number = s.number
    BY <1>1 DEF WorkerType, Location
  <2> HIDE DEF t
  <2>4. Sane(t)
    BY <1>1, <2>2, <2>3 DEF Sane, Basic, Placed, Reading, Configured, Working, Location
  <2>5. Moves(w, t)
    BY <2>2, <2>4 DEF Moves
  <2> QED BY <1>2, <1>16, <2>5 DEF FetchPage
<1>17. CASE CommitFetched(w)
  <2> DEFINE t == [s EXCEPT !.cursor = s.to, !.number = s.number + 1, !.to = None, !.head = FALSE]
  <2>1. PICK at \in {"head", "progress", "match"} : Continue(w, t, at)
    BY <1>17 DEF CommitFetched
  <2>2. s.at = "commit" /\ CommitPage(w, s.fence, FetchedPage(w)) /\ faults' = faults
    BY <1>17 DEF CommitFetched
  <2>3. s.number <= MaxPages
    BY <1>1, <2>2 DEF Placed
  <2>4. s.number + 1 \in 0 .. MaxPages + 1
    BY <1>1, <2>3, ImportAssumption DEF WorkerType
  <2>5. t \in WorkerType /\ t.config = s.config /\ t.run = s.run /\ t.command = s.command
    BY <1>1, <2>4 DEF WorkerType
  <2> HIDE DEF t
  <2>6. at \in Location /\ Basic(t) /\ Placed(t, at)
    BY <1>1, <2>2, <2>5 DEF Basic, Placed, Reading, Configured, Working, Location
  <2> QED BY <2>1, <2>2, <2>6, MovesOn DEF Transaction
<1>18. CASE CommitRefused(w)
  <2>1. PICK at \in {"fail"} : Goto(w, at)
    BY <1>18 DEF CommitRefused
  <2>2. at \in Location /\ Placed(s, at)
    BY <1>1, <1>18, <2>1 DEF CommitRefused, Placed, Reading, Configured, Working, Location
  <2> QED BY <1>2, <1>18, <2>1, <2>2, GoesTo DEF CommitRefused
<1>19. CASE MatchReferences(w)
  <2>1. PICK at \in {"renew", "progress", "release"} : Goto(w, at)
    BY <1>19 DEF MatchReferences
  <2>2. at \in Location /\ Placed(s, at)
    BY <1>1, <1>19, <2>1 DEF MatchReferences, Placed, Reading, Configured, Working, Location
  <2> QED BY <1>2, <1>19, <2>1, <2>2, GoesTo DEF MatchReferences
<1>20. CASE RenewForHead(w)
  <2>1. PICK at \in {"reconcile", "release"} : Goto(w, at)
    BY <1>20 DEF RenewForHead
  <2>2. at \in Location /\ Placed(s, at)
    BY <1>1, <1>20, <2>1 DEF RenewForHead, Placed, Reading, Configured, Working, Location
  <2> QED BY <1>2, <1>20, <2>1, <2>2, GoesTo DEF RenewForHead
<1>21. CASE ReconcileBatch(w)
  <2>1. PICK phase \in Phase, at \in {"finish", "confirm"} :
           HeadStep(w, s.fence, s.run, phase) /\ Goto(w, at)
    BY <1>21 DEF ReconcileBatch
  <2>2. at \in Location /\ Placed(s, at) /\ s.run \in RunId /\ faults' = faults
    BY <1>1, <1>21, <2>1 DEF ReconcileBatch, Placed, Reading, Configured, Working, Location
  <2> QED BY <2>1, <2>2, GoesTo DEF Transaction
<1>22. CASE ReconcileWithoutBatch(w)
  <2>1. PICK at \in {"release", "fail", "finish"} : Goto(w, at)
    BY <1>22 DEF ReconcileWithoutBatch
  <2>2. at \in Location /\ Placed(s, at)
    BY <1>1, <1>22, <2>1 DEF ReconcileWithoutBatch, Placed, Reading, Configured, Working, Location
  <2> QED BY <1>2, <1>22, <2>1, <2>2, GoesTo DEF ReconcileWithoutBatch
<1>23. CASE ConfirmProgress(w)
  <2>1. PICK at \in {"progress", "release"} : Goto(w, at)
    BY <1>23 DEF ConfirmProgress
  <2>2. at \in Location /\ Placed(s, at)
    BY <1>1, <1>23, <2>1 DEF ConfirmProgress, Placed, Reading, Configured, Working, Location
  <2> QED BY <1>2, <1>23, <2>1, <2>2, GoesTo DEF ConfirmProgress
<1>24. CASE Conclude(w)
  <2>1. /\ s.at \in {"finish", "fail"} /\ Goto(w, "release") /\ faults' = faults
        /\ UNCHANGED rvars \/ \E outcome \in {"succeeded", "failed"} : Finish(w, s.fence, s.run, outcome)
    BY <1>24 DEF Conclude
  <2>2. "release" \in Location /\ Placed(s, "release") /\ s.run \in RunId
    BY <1>1, <2>1 DEF Placed, Reading, Configured, Working, Location
  <2> QED BY <2>1, <2>2, GoesTo DEF Transaction, Terminal
<1>25. CASE ReleaseLease(w)
  BY <1>25, Returns DEF ReleaseLease, Transaction
<1>26. CASE TerminalizeProgress(w)
  <2> DEFINE t == [s EXCEPT !.at = "terminalize", !.fence = runs[s.run].fence]
  <2>1. s.at = "progress" /\ s.run \in RunId
    BY <1>1, <1>26 DEF TerminalizeProgress, Placed, Reading, Configured, Working, Location
  <2>2. worker' = [worker EXCEPT ![w] = t] \/ Return(w)
    BY <1>26 DEF TerminalizeProgress
  <2>3. runs[s.run].fence \in Nat
    BY <1>1, <2>1 DEF Run
  <2>4. t \in WorkerType /\ t.config = s.config /\ t.run = s.run /\ t.at = "terminalize" /\ t.command = s.command
    BY <1>1, <2>3 DEF WorkerType, Location
  <2> HIDE DEF t
  <2>5. Sane(t)
    BY <1>1, <2>1, <2>4 DEF Sane, Basic, Placed, Reading, Configured, Working, Location
  <2>6. CASE worker' = [worker EXCEPT ![w] = t]
    <3>1. Moves(w, t)
      BY <2>5, <2>6 DEF Moves
    <3> QED BY <1>2, <1>26, <3>1 DEF TerminalizeProgress
  <2>7. CASE Return(w)
    BY <1>2, <1>26, <2>7, Returns DEF TerminalizeProgress
  <2> QED BY <2>2, <2>6, <2>7
<1>27. CASE TerminalizeFinish(w)
  <2>1. /\ s.at = "terminalize" /\ faults' = faults
        /\ \/ Finish(w, s.fence, s.run, "failed") /\ Goto(w, "release")
           \/ UNCHANGED rvars /\ Return(w)
    BY <1>27 DEF TerminalizeFinish
  <2>2. "release" \in Location /\ Placed(s, "release") /\ s.run \in RunId
    BY <1>1, <2>1 DEF Placed, Reading, Configured, Working, Location
  <2> QED BY <2>1, <2>2, GoesTo, Returns DEF Transaction, Terminal
<1> QED BY <1>3, <1>4, <1>5, <1>6, <1>7, <1>8, <1>9, <1>10, <1>11, <1>12, <1>13, <1>14, <1>15,
           <1>16, <1>17, <1>18, <1>19, <1>20, <1>21, <1>22, <1>23, <1>24, <1>25, <1>26, <1>27
        DEF Execute

\* A disturbed step of an execution.
LEMMA DisturbedMoves ==
    ASSUME Base, NEW w \in Worker, Throw(w) \/ OutcomeLost(w) \/ AbortHead(w) \/ Crash(w)
    PROVE  Transaction(w) /\ faults' = faults + 1 /\ \E t : Moves(w, t)
<1> DEFINE s == worker[w]
<1>1. /\ TypeOK /\ Tables /\ Sane(s) /\ Basic(s) /\ Placed(s, s.at) /\ s \in WorkerType
  BY DEF Base, Sane, Basic
<1>2. ASSUME NEW at \in {"release", "fail"}, Goto(w, at),
             at = "fail" => s.at \notin {"recover", "start", "idle", "snapshot", "incapable", "acquire", "release"}
      PROVE  \E t : Moves(w, t)
  <2>1. at \in Location /\ Placed(s, at)
    BY <1>1, <1>2 DEF Placed, Reading, Configured, Working, Location, WorkerType
  <2> QED BY <1>2, <2>1, GoesTo
<1>3. ASSUME NEW at \in CatchAt(s.at), Goto(w, at),
             s.at \in {"recover", "start", "renew", "fetch", "commit", "match", "head",
                      "reconcile", "confirm", "finish", "fail"}
      PROVE  \E t : Moves(w, t)
  <2>1. /\ at \in {"release", "fail"}
        /\ at = "fail" => s.at \notin {"recover", "start", "idle", "snapshot", "incapable", "acquire", "release"}
    BY <1>3 DEF CatchAt
  <2> QED BY <1>2, <1>3, <2>1
<1>4. CASE Throw(w)
  <2>1. PICK at \in CatchAt(s.at) : Goto(w, at)
    BY <1>4 DEF Throw
  <2> QED BY <1>3, <1>4, <2>1 DEF Throw, Disturbed, Transaction
<1>5. CASE OutcomeLost(w)
  <2>1. PICK at \in CatchAt(s.at) : Goto(w, at)
    BY <1>5 DEF OutcomeLost
  <2>2. s.at \in {"recover", "start", "commit", "reconcile", "finish"}
    BY <1>5 DEF OutcomeLost
  <2>3. \E t : Moves(w, t)
    BY <1>3, <2>1, <2>2
  <2>4. s.at \in {"reconcile", "finish"} => s.run \in RunId
    BY <1>1 DEF Placed, Reading, Configured, Working, Location
  <2>5. Transaction(w)
    BY <1>5, <2>4 DEF OutcomeLost, Transaction, Terminal
  <2> QED BY <1>5, <2>3, <2>5 DEF OutcomeLost, Disturbed
<1>6. CASE AbortHead(w)
  BY <1>2, <1>6 DEF AbortHead, Disturbed, Transaction
<1>7. CASE Crash(w)
  BY <1>7, Returns DEF Crash, Disturbed, Transaction
<1> QED BY <1>4, <1>5, <1>6, <1>7

\* A step of the environment: operators, the centre, and time.
LEMMA EnvironmentSteps ==
    ASSUME Operate \/ ConfigurationLapses \/ Expire
    PROVE  RuntimeEnvironment /\ worker' = worker /\ (faults' = faults \/ faults' = faults + 1)
  BY DEF Operate, ConfigurationLapses, Expire, Disturbed, RuntimeEnvironment

\* What a step is: none, one of the environment, or one of an execution.
LEMMA Steps ==
    ASSUME Base, [Next]_vars
    PROVE  /\ faults' \in Nat
           /\ \/ UNCHANGED <<rvars, worker>>
              \/ RuntimeEnvironment /\ worker' = worker
              \/ \E w \in Worker : Transaction(w) /\ \E t : Moves(w, t)
<1>1. faults \in Nat
  BY DEF Base, ImportTypeOK
<1> QED BY <1>1, EnvironmentSteps, ExecuteMoves, DisturbedMoves DEF Next, vars

\* Every step of the executors' system is one that ProviderRuntime allows.
LEMMA StepRefines ==
    ASSUME Base, [Next]_vars
    PROVE  [RuntimeNext]_rvars
  BY Steps, TransactionAllowed DEF RuntimeNext

-----------------------------------------------------------------------------
(* The tables and the local variables.                                     *)

\* Pages of a run, in steps that commit none.
LEMMA PagesFrame ==
    ASSUME TypeOK, Tables, TypeOK',
           \A q \in RunId : \/ runs'[q] = runs[q]
                            \/ /\ runs'[q].pages = runs[q].pages
                               /\ runs'[q].state \in {"none", "queued"} => runs'[q].pages = 0
                            \/ runs'[q].pages = 0
    PROVE  \A r \in RunId : /\ runs'[r].pages <= MaxPages
                            /\ runs'[r].state \in {"none", "queued"} => runs'[r].pages = 0
  BY ImportAssumption DEF Tables

\* What stays as it is in every step.
Monotone ==
    /\ \A c \in RunCommand : commands[c].state # "none" => commands'[c].state # "none"
    /\ runtime'.config >= runtime.config

LEMMA EnvironmentTables ==
    ASSUME TypeOK, Tables, RuntimeEnvironment
    PROVE  Tables' /\ Monotone
<1>t. TypeOK'
  BY ControlTypes
<1>c. runtime \in Runtime /\ runtime.config \in Nat /\ lease \in Lease
  BY ConfigAssumption DEF TypeOK, Runtime, Config
<1>1. CASE LeaseExpires
  <2>1. lease'.owner = lease.owner /\ lease'.fence = lease.fence /\ lease'.live = FALSE
    BY <1>1, <1>c DEF LeaseExpires, Lease
  <2> QED BY <1>1, <1>c, <2>1 DEF LeaseExpires, Tables, Monotone
<1>2. CASE ConfigurationExpires
  <2>1. runtime'.config = runtime.config
    BY <1>2, <1>c DEF ConfigurationExpires, Runtime
  <2> QED BY <1>2, <1>c, <2>1 DEF ConfigurationExpires, Tables, Monotone
<1>3. ASSUME NEW v \in Config, SynchronizeConfiguration(v) PROVE Tables' /\ Monotone
  <2>1. runtime'.config = v /\ v > runtime.config /\ v \in Nat
    BY <1>3, <1>c, ConfigAssumption DEF SynchronizeConfiguration, Runtime, Config
  <2> QED BY <1>3, <1>c, <2>1 DEF SynchronizeConfiguration, Tables, Monotone
<1>4. ASSUME NEW k \in ControlCommand, NEW type \in ControlType,
             NEW g \in 0 .. runtime.generation, NEW sameReason \in BOOLEAN,
             SubmitControl(k, type, g, sameReason)
      PROVE  Tables' /\ Monotone
  <2>1. \A c \in RunCommand : commands'[c] = commands[c]
    BY <1>4, CommandAssumption DEF SubmitControl, TypeOK, Command
  <2>2. ControlTarget[type] \in OperatingState
    BY DEF ControlTarget, ControlType, OperatingState
  <2>3. runtime'.config = runtime.config
    BY <1>4, <2>2, MoveToRow DEF SubmitControl
  <2>4. lease' = lease /\ runs' = runs
    BY <1>4 DEF SubmitControl
  <2> QED BY <1>c, <2>1, <2>3, <2>4 DEF Tables, Monotone
<1>5. ASSUME NEW c \in RunCommand, JoinActiveRun(c) PROVE Tables' /\ Monotone
  <2>1. commands' = commands /\ runs' = runs /\ runtime' = runtime /\ lease' = lease
    BY <1>5 DEF JoinActiveRun, CommandTransitionAllowed
  <2> QED BY <1>c, <2>1 DEF Tables, Monotone
<1>6. ASSUME NEW c \in RunCommand, NEW r \in RunId, RequestRunNow(c, r) PROVE Tables' /\ Monotone
  <2>1. \A q \in RunId : runs'[q] = IF q = r THEN Queued(c) ELSE runs[q]
    BY <1>6 DEF RequestRunNow, TypeOK
  <2>2. Queued(c).pages = 0
    BY QueuedRow
  <2>3. \A r2 \in RunId : /\ runs'[r2].pages <= MaxPages
                          /\ runs'[r2].state \in {"none", "queued"} => runs'[r2].pages = 0
    BY <1>t, <2>1, <2>2, PagesFrame
  <2>4. \A d \in RunCommand : commands'[d] = IF d = c THEN [type |-> "run", state |-> "accepted", run |-> r]
                                             ELSE commands[d]
    BY <1>6 DEF RequestRunNow, TypeOK, Command
  <2> QED BY <1>6, <1>c, <2>3, <2>4 DEF RequestRunNow, Tables, Monotone
<1> QED BY <1>1, <1>2, <1>3, <1>4, <1>5, <1>6 DEF RuntimeEnvironment

LEMMA TransactionTables ==
    ASSUME Base, TypeOK', NEW w \in Worker, Transaction(w)
    PROVE  Tables' /\ Monotone
<1> DEFINE s == worker[w]
<1>0. TypeOK /\ Tables /\ Sane(s) /\ Basic(s) /\ Placed(s, s.at) /\ s \in WorkerType /\ s.fence \in Nat
  BY DEF Base, Sane, Basic, WorkerType
<1>c. runtime \in Runtime /\ runtime.config \in Nat /\ lease \in Lease
      /\ \A q \in RunId : runs[q] \in Run
  BY <1>0, ConfigAssumption DEF TypeOK, Runtime, Config
<1>m. \A state \in OperatingState : MoveTo(state).config = runtime.config
  BY <1>0, MoveToRow
<1>1. CASE UNCHANGED rvars
  BY <1>0, <1>c, <1>1 DEF rvars, Tables, Monotone
<1>2. CASE Acquire(w)
  <2>1. /\ lease'.owner = w /\ lease'.fence = GrantedFence /\ lease'.live = TRUE
        /\ UNCHANGED <<runtime, runs, commands>>
    BY <1>2 DEF Acquire
  <2>2. GrantedFence > 0
    BY <1>0, <1>c DEF GrantedFence, Tables, Lease
  <2> QED BY <1>0, <1>c, <2>1, <2>2, NoneAssumption DEF Tables, Monotone
<1>3. CASE Release(w, s.fence)
  <2>1. /\ lease'.owner = None /\ lease'.live = FALSE
        /\ UNCHANGED <<runtime, runs, commands>>
    BY <1>3, <1>c DEF Release, Lease
  <2> QED BY <1>0, <1>c, <2>1 DEF Tables, Monotone
<1>4. CASE s.at = "start" /\ Start(w, s.fence, s.command, CommandRun(w), s.config)
  <2>1. PICK r \in RunId, c \in RunCommand : r = CommandRun(w) /\ c = s.command
    BY <1>0, <1>4 DEF Basic, Placed, WorkerType, Tables, CommandRun
  <2>2. /\ runs' = [runs EXCEPT ![r] = Started(@, s.fence)] /\ lease' = lease
        /\ commands' = [commands EXCEPT ![c].state = "completed"] /\ runtime' = MoveTo("running")
    BY <1>4, <2>1 DEF Start
  <2>3. \A q \in RunId : runs'[q] = IF q = r THEN Started(runs[r], s.fence) ELSE runs[q]
    BY <1>0, <2>2 DEF TypeOK
  <2>4. Started(runs[r], s.fence).state = "running" /\ Started(runs[r], s.fence).pages = runs[r].pages
    BY <1>0, <1>c, StartedRow
  <2>5. \A q \in RunId : /\ runs'[q].pages <= MaxPages
                         /\ runs'[q].state \in {"none", "queued"} => runs'[q].pages = 0
    BY <1>0, <2>3, <2>4, PagesFrame
  <2>6. \A d \in RunCommand : commands'[d].run = commands[d].run
                              /\ (d # c => commands'[d] = commands[d]) /\ commands'[c].state = "completed"
    BY <1>0, <2>2 DEF TypeOK, Command, CommandRow
  <2>7. commands[c].state # "none"
    BY <1>0, <2>1, NoneAssumption, CommandAssumption DEF Basic
  <2>8. runtime'.config = runtime.config
    BY <1>m, <2>2 DEF OperatingState
  <2> QED BY <1>0, <1>c, <2>2, <2>5, <2>6, <2>7, <2>8 DEF Tables, Monotone
<1>5. ASSUME NEW r \in RunId, RecoverIneligible(w, s.fence, r)
      PROVE  Tables' /\ Monotone
  <2>1. \A q \in RunId : runs'[q] = IF q = r THEN Interrupted(runs[r], "ineligible") ELSE runs[q]
    BY <1>0, <1>5 DEF RecoverIneligible, TypeOK
  <2>2. /\ Interrupted(runs[r], "ineligible").state = "incomplete"
        /\ Interrupted(runs[r], "ineligible").pages = runs[r].pages
    BY <1>0, <1>c, InterruptedRow
  <2>3. \A q \in RunId : /\ runs'[q].pages <= MaxPages
                         /\ runs'[q].state \in {"none", "queued"} => runs'[q].pages = 0
    BY <1>0, <2>1, <2>2, PagesFrame
  <2>4. runtime'.config = runtime.config
    BY <1>5, <1>m DEF RecoverIneligible, OperatingState
  <2> QED BY <1>0, <1>c, <1>5, <2>3, <2>4 DEF RecoverIneligible, Tables, Monotone
<1>6. ASSUME NEW r \in RunId, NEW n \in RunId, Recover(w, s.fence, r, n)
      PROVE  Tables' /\ Monotone
  <2>1. runs[r].state = "running" /\ runs[n].state = "none"
    BY <1>6 DEF Recover, Fresh
  <2>2. \A q \in RunId : runs'[q] = IF q = n THEN Successor(r, s.fence)
                                   ELSE IF q = r THEN Interrupted(runs[r], "lease_expired") ELSE runs[q]
    BY <1>0, <1>6, <2>1 DEF Recover, TypeOK
  <2>3. /\ Interrupted(runs[r], "lease_expired").state = "incomplete"
        /\ Interrupted(runs[r], "lease_expired").pages = runs[r].pages
        /\ Successor(r, s.fence).pages = 0
    BY <1>0, <1>c, InterruptedRow, SuccessorRow
  <2>4. \A q \in RunId : /\ runs'[q].pages <= MaxPages
                         /\ runs'[q].state \in {"none", "queued"} => runs'[q].pages = 0
    BY <1>0, <2>2, <2>3, PagesFrame
  <2>5. UNCHANGED <<lease, runtime, commands>>
    BY <1>6 DEF Recover
  <2> QED BY <1>0, <1>c, <2>4, <2>5 DEF Tables, Monotone
<1>7. ASSUME NEW r \in RunId, NEW outcome \in Terminal, Finish(w, s.fence, r, outcome)
      PROVE  Tables' /\ Monotone
  <2>1. \A q \in RunId : runs'[q] = IF q = r THEN Finished(runs[r], outcome) ELSE runs[q]
    BY <1>0, <1>7 DEF Finish, TypeOK
  <2>2. Finished(runs[r], outcome).state = outcome /\ Finished(runs[r], outcome).pages = runs[r].pages
    BY <1>0, <1>c, FinishedRow
  <2>3. \A q \in RunId : /\ runs'[q].pages <= MaxPages
                         /\ runs'[q].state \in {"none", "queued"} => runs'[q].pages = 0
    BY <1>0, <2>1, <2>2, PagesFrame DEF Terminal
  <2>4. runtime'.config = runtime.config
    BY <1>7, <1>m DEF Finish, OperatingState
  <2> QED BY <1>0, <1>c, <1>7, <2>3, <2>4 DEF Finish, Tables, Monotone
<1>8. ASSUME NEW r \in RunId, NEW phase \in Phase, HeadStep(w, s.fence, r, phase)
      PROVE  Tables' /\ Monotone
  BY <1>0, <1>c, <1>8 DEF HeadStep, Tables, Monotone
<1>9. CASE s.at = "commit" /\ CommitPage(w, s.fence, FetchedPage(w))
  <2>1. s.run \in RunId /\ s.head \in BOOLEAN /\ s.number <= MaxPages /\ s.to \in Cursor \cup {None}
    BY <1>0, <1>9 DEF Placed, Working, Location, Reading, WorkerType
  <2>2. PICK r \in RunId : r = s.run
    BY <2>1
  <2> DEFINE p == FetchedPage(w)
  <2>3. p.run = r /\ p.head = s.head /\ p.number = s.number /\ p.to = s.to
    BY <2>2 DEF FetchedPage
  <2>4. /\ runs' = [runs EXCEPT ![r] = WithPage(runs[r], p)] /\ runs[r].state = "running"
        /\ s.number = runs[r].pages + 1 /\ runtime' = [runtime EXCEPT !.cursor = s.to]
        /\ UNCHANGED <<lease, commands>>
    <3>1. CommitAllowed(w, s.fence, p) /\ runs' = [runs EXCEPT ![p.run] = WithPage(@, p)]
          /\ runtime' = [runtime EXCEPT !.cursor = p.to] /\ UNCHANGED <<lease, commands>>
      BY <1>9 DEF CommitPage
    <3> HIDE DEF p
    <3> QED BY <2>3, <3>1 DEF CommitAllowed
  <2>5. WithPage(runs[r], p).pages = runs[r].pages + 1 /\ WithPage(runs[r], p).state = "running"
    <3>1. p.head \in BOOLEAN
      BY <2>1, <2>3
    <3> HIDE DEF p
    <3> QED BY <1>c, <2>4, <3>1, WithPageRow
  <2> HIDE DEF p
  <2>6. \A q \in RunId : runs'[q] = IF q = r THEN WithPage(runs[r], p) ELSE runs[q]
    BY <1>0, <2>4 DEF TypeOK
  <2>7. \A q \in RunId : /\ runs'[q].pages <= MaxPages
                         /\ runs'[q].state \in {"none", "queued"} => runs'[q].pages = 0
    BY <1>0, <2>1, <2>4, <2>5, <2>6 DEF Tables
  <2>8. runtime'.config = runtime.config
    BY <1>c, <2>4 DEF Runtime
  <2> QED BY <1>0, <1>c, <2>4, <2>7, <2>8 DEF Tables, Monotone
<1> QED BY <1>1, <1>2, <1>3, <1>4, <1>5, <1>6, <1>7, <1>8, <1>9 DEF Transaction

\* What holds of an execution's local variables holds as long as it keeps them.
LEMMA SaneStable ==
    ASSUME TypeOK, TypeOK', Monotone, NEW s, Sane(s)
    PROVE  Sane(s)'
<1>1. s.config \in Nat /\ s.command \in RunCommand \cup {None}
      /\ runtime.config \in Nat /\ runtime'.config \in Nat
  BY ConfigAssumption DEF TypeOK, Runtime, Config, Sane, Basic, WorkerType
<1>2. Basic(s)'
  BY <1>1 DEF Sane, Basic, Monotone
<1>3. Placed(s, s.at)'
  BY DEF Sane, Placed
<1> QED BY <1>2, <1>3 DEF Sane

LEMMA BaseStep ==
    ASSUME Base, [Next]_vars
    PROVE  Base'
<1>0. TypeOK /\ Tables /\ worker \in [Worker -> WorkerType] /\ \A v \in Worker : Sane(worker[v])
  BY DEF Base, ImportTypeOK
<1>1. TypeOK'
  <2>1. CASE RuntimeNext
    <3>1. \A f \in 1 .. lease.fence : f \in 0 .. lease.fence
      BY <1>0 DEF TypeOK, Lease
    <3> QED BY <1>0, <2>1, <3>1, ControlTypes, WorkerTypes DEF RuntimeNext
  <2>2. CASE UNCHANGED rvars
    BY <1>0, <2>2 DEF TypeOK, rvars
  <2> QED BY <2>1, <2>2, StepRefines
<1>2. Tables' /\ Monotone
  <2>1. CASE UNCHANGED rvars
    BY <1>0, <2>1, ConfigAssumption DEF Tables, Monotone, rvars, TypeOK, Runtime, Config
  <2> QED BY <1>0, <1>1, <2>1, Steps, EnvironmentTables, TransactionTables
<1>3. \/ worker' = worker
      \/ \E w \in Worker : \E t : Moves(w, t)
  BY Steps
<1>4. \A v \in Worker : \E t : worker'[v] = t /\ Sane(t)
  BY <1>0, <1>3 DEF Moves
<1>5. ASSUME NEW v \in Worker PROVE Sane(worker[v])' /\ worker'[v] \in WorkerType
  <2>1. PICK t : worker'[v] = t /\ Sane(t)
    BY <1>4
  <2>2. Sane(t)'
    BY <1>0, <1>1, <1>2, <2>1, SaneStable
  <2> QED BY <2>1, <2>2 DEF Sane, Basic, Placed
<1>6. worker' \in [Worker -> WorkerType]
  <2>1. worker' = [v \in Worker |-> worker'[v]]
    BY <1>0, <1>3 DEF Moves
  <2> QED BY <1>5, <2>1
<1>7. ImportTypeOK'
  BY <1>6, Steps DEF ImportTypeOK
<1> QED BY <1>1, <1>2, <1>5, <1>7 DEF Base

LEMMA InitBase ==
    ASSUME Init
    PROVE  Base
<1>1. TypeOK
  BY ConfigAssumption DEF Init, RuntimeInit, TypeOK, Lease, Runtime, OperatingState, Config,
     NoRun, Run, RunState, NoCommand, CommandRow, Phase
<1>2. Tables
  BY ImportAssumption DEF Init, RuntimeInit, Tables, NoRun, NoCommand, Command
<1>3. Sane(IdleWorker)
  BY <1>1, IdleSane
<1>4. worker = [w \in Worker |-> IdleWorker] /\ faults = 0
  BY DEF Init
<1>5. IdleWorker \in WorkerType
  BY <1>3 DEF Sane, Basic
<1> HIDE DEF IdleWorker
<1>6. ImportTypeOK
  BY <1>4, <1>5 DEF ImportTypeOK
<1> QED BY <1>1, <1>2, <1>3, <1>4, <1>6 DEF Base

LEMMA BaseInvariant == Spec => []Base
<1>1. Init => Base
  BY InitBase
<1>2. Base /\ [Next]_vars => Base'
  BY BaseStep
<1> QED BY <1>1, <1>2, PTL DEF Spec

\* The executors' variables keep their types.
THEOREM ImportTypeCorrect == Spec => []ImportTypeOK
<1>1. Base => ImportTypeOK
  BY DEF Base
<1> QED BY <1>1, BaseInvariant, PTL

\* Whatever the executors do, stale or interrupted as they may be, the database
\* does what ProviderRuntime allows: its theorems hold of the system with the
\* real callers.
THEOREM ImportImplementsRuntime == Spec => RuntimeSpec
<1>1. Init => RuntimeInit
  BY DEF Init
<1>2. Base /\ [Next]_vars => [RuntimeNext]_rvars
  BY StepRefines
<1> QED BY <1>1, <1>2, BaseInvariant, PTL DEF Spec, RuntimeSpec

\* Within a configuration version the pages that the executors commit form one
\* gap-free chain of cursors.
THEOREM ImportCursorChain == Spec => []CursorChain
BY ImportImplementsRuntime, CursorChainAlways, PTL
-----------------------------------------------------------------------------
(* Who has the lease works on the database's state.                        *)

\* Where an execution is after a move, and that it keeps its variables when it
\* goes on.
LEMMA LiveAt ==
    ASSUME NEW s \in WorkerType, NEW at \in Location
    PROVE  /\ Live(s, at).at = at
           /\ at \in Configured => /\ Live(s, at).run = s.run /\ Live(s, at).fence = s.fence
                                   /\ Live(s, at).cursor = s.cursor
                                   /\ Live(s, at).number = s.number
  BY DEF Live, WorkerType, IdleWorker, Configured

\* A move to `at` with the variables s.
LEMMA HoldsOn ==
    ASSUME worker \in [Worker -> WorkerType], NEW w \in Worker, NEW s \in WorkerType,
           NEW at \in Location, Continue(w, s, at),
           at \in Configured /\ IsLive(w, s.fence)' =>
               \/ Owns(s)'
               \/ at = "start" /\ s.run = None /\ ~Attempted'
    PROVE  Holds(w, worker[w])'
<1>1. PICK t : t = Live(s, at)
  OBVIOUS
<1>2. worker'[w] = t
  BY <1>1 DEF Continue
<1>3. t.at = at /\ (at \in Configured => /\ t.run = s.run /\ t.fence = s.fence
                                         /\ t.cursor = s.cursor /\ t.number = s.number)
  BY <1>1, LiveAt
<1>4. t.at \in Configured /\ IsLive(w, t.fence)' =>
          Owns(t)' \/ (t.at = "start" /\ t.run = None /\ ~Attempted')
  BY <1>3 DEF Owns, IsLive
<1> QED BY <1>2, <1>4 DEF Holds, Owns, IsLive

\* The steps that lead on to where a run is worked on.
Entering(w) ==
    \/ RecoverNothing(w) \/ RecoverResumed(w) \/ RecoverAttempt(w)
    \/ StartRun(w) \/ StartDeduplicated(w)
    \/ RenewForPage(w) \/ FetchPage(w) \/ CommitFetched(w) \/ MatchReferences(w)

LEMMA Entries ==
    ASSUME worker \in [Worker -> WorkerType], NEW w \in Worker,
           Execute(w) \/ Throw(w) \/ OutcomeLost(w) \/ AbortHead(w) \/ Crash(w),
           worker'[w].at \in Configured
    PROVE  Entering(w)
<1>0. worker[w] \in WorkerType
  OBVIOUS
<1>1. ASSUME NEW at \in Location \ Configured, Goto(w, at) PROVE FALSE
  <2>1. worker'[w].at = at
    BY <1>0, <1>1, LiveAt DEF Goto, Continue
  <2> QED BY <2>1
<1>2. ~Return(w)
  BY DEF Return, IdleWorker, Configured
<1>3. /\ {"acquire", "release", "fail", "reconcile", "finish", "confirm", "progress"}
           \subseteq Location \ Configured
      /\ CatchAt(worker[w].at) \subseteq Location \ Configured
  BY DEF Location, Configured, CatchAt
<1>4. ~Throw(w) /\ ~OutcomeLost(w) /\ ~AbortHead(w) /\ ~Crash(w)
  BY <1>1, <1>2, <1>3 DEF Throw, OutcomeLost, AbortHead, Crash
<1>5. ~ReadCommand(w) /\ ~ReadRuntime(w)
  <2>1. ReadCommand(w) => worker'[w].at = "snapshot"
    BY DEF ReadCommand, IdleWorker
  <2>2. ReadRuntime(w) => worker'[w].at \in {"acquire", "incapable"}
    <3>1. PICK place \in {"acquire", "incapable"} :
             place = IF Supports(w, runtime.config) THEN "acquire" ELSE "incapable"
      OBVIOUS
    <3>2. ReadRuntime(w) =>
             worker' = [worker EXCEPT ![w] = [@ EXCEPT !.config = runtime.config, !.at = place]]
      BY <3>1 DEF ReadRuntime
    <3> QED BY <1>0, <3>2 DEF WorkerType
  <2> QED BY <2>1, <2>2 DEF Configured
<1>6. ~AcquireGranted(w)
  BY <1>0 DEF AcquireGranted, Configured, WorkerType
<1>7. ~ReadActive(w) /\ ~AcquireHeld(w)
  BY <1>1, <1>2, <1>3 DEF ReadActive, AcquireHeld
<1>8. ~RecoverRefused(w) /\ ~StartRefused(w) /\ ~CommitRefused(w)
  BY <1>1, <1>3 DEF RecoverRefused, StartRefused, CommitRefused
<1>9. ~RenewForHead(w) /\ ~ReconcileBatch(w) /\ ~ReconcileWithoutBatch(w) /\ ~ConfirmProgress(w)
  BY <1>1, <1>3 DEF RenewForHead, ReconcileBatch, ReconcileWithoutBatch, ConfirmProgress
<1>10. ~Conclude(w) /\ ~ReleaseLease(w) /\ ~TerminalizeFinish(w)
  BY <1>1, <1>2, <1>3 DEF Conclude, ReleaseLease, TerminalizeFinish
<1>11. ~TerminalizeProgress(w)
  BY <1>0, <1>2 DEF TerminalizeProgress, Configured, WorkerType
<1> QED BY <1>4, <1>5, <1>6, <1>7, <1>8, <1>9, <1>10, <1>11 DEF Execute, Entering

\* Taking a run on: it is the execution's, from the committed cursor.
LEMMA HoldsTaken ==
    ASSUME Base, NEW w \in Worker, worker[w].at = "recover", NEW r \in RunId,
           NEW row \in Run, row = runs'[r], TakeAttempt(w, r, row), row.pages <= MaxPages,
           row.state = "running", row.fence = worker[w].fence, runtime'.cursor = runtime.cursor
    PROVE  Holds(w, worker[w])'
<1> DEFINE t == [worker[w] EXCEPT !.run = r, !.cursor = runtime.cursor, !.number = row.pages + 1]
           at == AfterRecovery(w, row)
<1>1. worker[w] \in WorkerType /\ runtime \in Runtime /\ worker \in [Worker -> WorkerType]
  BY DEF Base, TypeOK, ImportTypeOK
<1>2. row.pages + 1 \in 0 .. MaxPages + 1
  BY ImportAssumption DEF Run
<1>3. PICK u : u = t
  OBVIOUS
<1>4. /\ u \in WorkerType /\ u.run = r /\ u.cursor = runtime.cursor /\ u.number = row.pages + 1
      /\ u.fence = worker[w].fence
  BY <1>1, <1>2, <1>3 DEF WorkerType, Runtime
<1>5. Owns(u)'
  BY <1>4 DEF Owns
<1>6. PICK place \in Location : place = at
  BY DEF AfterRecovery, Enter, Location
<1>7. Continue(w, u, place)
  BY <1>3, <1>6 DEF TakeAttempt
<1> QED BY <1>1, <1>4, <1>5, <1>7, HoldsOn

\* Taking the run that start returned on.
LEMMA HoldsStarted ==
    ASSUME Base, NEW w \in Worker, worker[w].at = "start", NEW r \in RunId,
           NEW row \in Run, row = runs'[r], TakeStarted(w, r, row), row.pages <= MaxPages,
           row.state = "running" =>
              /\ row.fence = worker[w].fence
              /\ runtime'.cursor = IF worker[w].run = None THEN row.requested ELSE worker[w].cursor
    PROVE  Holds(w, worker[w])'
<1> DEFINE cursor == IF worker[w].run = None THEN row.requested ELSE worker[w].cursor
           t == [worker[w] EXCEPT !.run = r, !.number = row.pages + 1, !.command = None,
                                  !.cursor = cursor]
           at == Enter(row)
<1>1. worker[w] \in WorkerType /\ worker \in [Worker -> WorkerType]
  BY DEF Base, TypeOK, ImportTypeOK
<1>2. row.pages + 1 \in 0 .. MaxPages + 1 /\ cursor \in Cursor \cup {None}
  BY <1>1, ImportAssumption DEF Run, WorkerType
<1>c. TakeStarted(w, r, row) = Continue(w, t, at)
  BY DEF TakeStarted
<1>d. row.state = "running" => runtime'.cursor = cursor
  OBVIOUS
<1> HIDE DEF cursor
<1>3. PICK u : u = t
  OBVIOUS
<1>4. /\ u \in WorkerType /\ u.run = r /\ u.cursor = cursor /\ u.number = row.pages + 1
      /\ u.fence = worker[w].fence
  BY <1>1, <1>2, <1>3 DEF WorkerType
<1>5. row.state = "running" => Owns(u)'
  BY <1>4, <1>d DEF Owns
<1>6. PICK place \in Location : place = at /\ (place \in Configured => row.state = "running")
  BY DEF Enter, Location, Configured
<1>7. Continue(w, u, place)
  BY <1>3, <1>6, <1>c
<1> QED BY <1>1, <1>4, <1>5, <1>6, <1>7, HoldsOn
\* A step of an execution into the places where a run is worked on.
LEMMA HolderEnters ==
    ASSUME Base, Core, HoldersOwn, TypeOK', NEW w \in Worker, Entering(w)
    PROVE  Holds(w, worker[w])'
<1>0. PICK s \in WorkerType : s = worker[w]
  BY DEF Base, ImportTypeOK
<1>t. /\ TypeOK /\ Tables /\ worker \in [Worker -> WorkerType] /\ Sane(s) /\ Placed(s, s.at)
      /\ \A r \in RunId : runs[r] \in Run /\ runs[r].pages <= MaxPages
      /\ runtime \in Runtime /\ s.fence \in Nat
  BY <1>0 DEF Base, ImportTypeOK, Sane, TypeOK, Tables, WorkerType
<1>h. s.at \in Configured /\ IsLive(w, s.fence) =>
          Owns(s) \/ (s.at = "start" /\ s.run = None /\ ~Attempted)
  BY <1>0 DEF HoldersOwn, Holds
<1>u. Local => /\ runs' = runs /\ runtime' = runtime
               /\ Owns(s)' <=> Owns(s)
               /\ \A f : IsLive(w, f)' <=> IsLive(w, f)
  BY DEF Local, rvars, Owns, IsLive
<1>1. CASE RecoverNothing(w)
  <2>1. s.at = "recover" /\ s.run = None
    BY <1>0, <1>1, <1>t DEF RecoverNothing, Placed, Reading
  <2>2. PICK at \in {"start", "release"} :
           Goto(w, at) /\ (at = "start" => IsLive(w, s.fence))
    BY <1>0, <1>1 DEF RecoverNothing
  <2>3. at \in Configured => at = "start" /\ ~Attempted'
    BY <1>0, <1>1, <1>u, <2>2 DEF RecoverNothing, Configured, Attempted
  <2> QED BY <1>0, <1>t, <2>1, <2>2, <2>3, HoldsOn DEF Goto, Location
<1>2. CASE RecoverResumed(w)
  <2>1. PICK r \in RunId : /\ runs[r].state = "running" /\ runs[r].fence = s.fence
                           /\ TakeAttempt(w, r, runs[r])
    BY <1>0, <1>2 DEF RecoverResumed
  <2>2. PICK row \in Run : row = runs[r]
    BY <1>t
  <2>3. runs' = runs /\ runtime' = runtime /\ worker[w].at = "recover"
    BY <1>2, <1>u DEF RecoverResumed
  <2> QED BY <1>0, <1>t, <2>1, <2>2, <2>3, HoldsTaken
<1>3. CASE RecoverAttempt(w)
  <2>1. PICK r \in RunId, n \in RunId : Recover(w, s.fence, r, n) /\ TakeAttempt(w, n, runs'[n])
    BY <1>0, <1>3 DEF RecoverAttempt
  <2>2. runs[r].state = "running" /\ runs[n].state = "none"
    BY <2>1 DEF Recover, Fresh
  <2>3. runs'[n] = Successor(r, s.fence) /\ runtime' = runtime
    BY <1>t, <2>1, <2>2 DEF Recover, TypeOK
  <2>4. PICK row \in Run : /\ row = runs'[n] /\ row.pages = 0
                           /\ row.state = "running" /\ row.fence = s.fence
    BY <1>t, <2>3, SuccessorRow
  <2>5. TakeAttempt(w, n, row) /\ row.pages <= MaxPages /\ worker[w].at = "recover"
    BY <1>3, <2>1, <2>4, ImportAssumption DEF RecoverAttempt
  <2> QED BY <1>0, <2>3, <2>4, <2>5, HoldsTaken
<1>4. CASE StartRun(w)
  <2>1. /\ s.at = "start" /\ Start(w, s.fence, s.command, CommandRun(w), s.config)
        /\ TakeStarted(w, CommandRun(w), runs'[CommandRun(w)])
    BY <1>0, <1>4 DEF StartRun
  <2>2. PICK r \in RunId : r = CommandRun(w)
    BY <1>0, <1>t, <2>1 DEF Sane, Basic, Placed, WorkerType, Tables, CommandRun
  <2>3. /\ IsLive(w, s.fence) /\ runs[r].state = "queued" /\ runtime' = MoveTo("running")
        /\ runs'[r] = Started(runs[r], s.fence)
    BY <1>t, <2>1, <2>2 DEF Start, StartAllowed, TypeOK
  <2>4. PICK row \in Run : /\ row = runs'[r] /\ row.pages = runs[r].pages
                           /\ row.fence = s.fence /\ row.requested = runs[r].requested
    BY <1>t, <2>3, StartedRow
  <2>5. runtime'.cursor = runtime.cursor
    BY <1>t, <2>3, MoveToRow DEF OperatingState
  <2>6. runs[r].requested = runtime.cursor
    BY <1>t, <2>3 DEF Core, ActiveRunAligned, Active, ActiveState, Tables
  <2>7. s.run # None => s.cursor = runtime.cursor
    BY <1>h, <2>1, <2>3 DEF Owns, Configured
  <2>8. TakeStarted(w, r, row) /\ row.pages <= MaxPages
    BY <1>t, <2>1, <2>2, <2>4
  <2> QED BY <1>0, <2>1, <2>4, <2>5, <2>6, <2>7, <2>8, HoldsStarted
<1>5. CASE StartDeduplicated(w)
  <2>1. /\ s.at = "start" /\ IsLive(w, s.fence)
        /\ TakeStarted(w, CommandRun(w), runs[CommandRun(w)])
    BY <1>0, <1>5 DEF StartDeduplicated
  <2>2. PICK r \in RunId : r = CommandRun(w)
    BY <1>0, <1>t, <2>1 DEF Sane, Basic, Placed, WorkerType, Tables, CommandRun
  <2>3. PICK row \in Run : row = runs[r]
    BY <1>t
  <2>4. runs' = runs /\ runtime' = runtime
    BY <1>5, <1>u DEF StartDeduplicated
  <2>5. CASE runs[r].state = "running"
    <3>1. Attempted
      BY <2>5 DEF Attempted
    <3>2. Owns(s)
      BY <1>h, <2>1, <3>1 DEF Configured
    <3>3. s.run \in Active /\ r \in Active
      BY <2>5, <3>2 DEF Owns, Active, ActiveState
    <3>4. s.run = r
      BY <3>3 DEF Core, OneActiveRun
    <3>5. runs[r].fence = s.fence /\ runtime.cursor = s.cursor /\ s.run # None
      BY <3>2, <3>4, NoneAssumption DEF Owns
    <3> QED BY <1>0, <1>t, <2>1, <2>2, <2>3, <2>4, <3>5, HoldsStarted
  <2>6. CASE runs[r].state # "running"
    BY <1>0, <1>t, <2>1, <2>2, <2>3, <2>4, <2>6, HoldsStarted
  <2> QED BY <2>5, <2>6
<1>6. ASSUME s.at \in Configured \ {"start"}, Local, NEW at \in Location, Goto(w, at)
      PROVE  Holds(w, worker[w])'
  <2>1. IsLive(w, s.fence)' => Owns(s)'
    BY <1>h, <1>u, <1>6
  <2> QED BY <1>0, <1>t, <1>6, <2>1, HoldsOn DEF Goto
<1>7. CASE RenewForPage(w)
  <2>1. \E at \in Location : Goto(w, at)
    BY <1>7 DEF RenewForPage, Location
  <2> QED BY <1>0, <1>6, <1>7, <2>1 DEF RenewForPage, Configured
<1>8. CASE MatchReferences(w)
  <2>1. \E at \in Location : Goto(w, at)
    BY <1>8 DEF MatchReferences, Location
  <2> QED BY <1>0, <1>6, <1>8, <2>1 DEF MatchReferences, Configured
<1>9. CASE FetchPage(w)
  <2>1. PICK to \in Cursor \cup {None}, head \in BOOLEAN :
           worker' = [worker EXCEPT ![w].to = to, ![w].head = head, ![w].at = "commit"]
    BY <1>9 DEF FetchPage
  <2>2. PICK t : t = worker'[w]
    OBVIOUS
  <2>3. t.at = "commit" /\ t.run = s.run /\ t.fence = s.fence /\ t.number = s.number
        /\ t.cursor = s.cursor
    BY <1>0, <1>t, <2>1, <2>2 DEF WorkerType
  <2>4. s.at \in Configured \ {"start"} /\ Local
    BY <1>0, <1>9 DEF FetchPage, Configured
  <2>5. IsLive(w, s.fence)' => Owns(s)'
    BY <1>h, <1>u, <2>4
  <2>6. IsLive(w, t.fence)' => Owns(t)'
    BY <2>3, <2>5 DEF Owns, IsLive
  <2> QED BY <2>2, <2>6 DEF Holds, Owns, IsLive
<1>10. CASE CommitFetched(w)
  <2> DEFINE u == [s EXCEPT !.cursor = s.to, !.number = s.number + 1, !.to = None, !.head = FALSE]
             p == FetchedPage(w)
  <2>1. PICK at \in {"head", "progress", "match"} : Continue(w, u, at)
    BY <1>0, <1>10 DEF CommitFetched
  <2>2. s.at = "commit" /\ CommitPage(w, s.fence, p)
    BY <1>0, <1>10 DEF CommitFetched
  <2>3. PICK t : t = u
    OBVIOUS
  <2>4. s.run \in RunId /\ s.number + 1 \in 0 .. MaxPages + 1 /\ s.head \in BOOLEAN
    BY <1>t, <2>2, ImportAssumption DEF Placed, Working, Location, Reading, WorkerType
  <2>5. /\ t \in WorkerType /\ t.run = s.run /\ t.fence = s.fence
        /\ t.cursor = s.to /\ t.number = s.number + 1
    BY <2>3, <2>4 DEF WorkerType
  <2>6. p.run = s.run /\ p.head = s.head /\ p.number = s.number /\ p.to = s.to
    BY <1>0 DEF FetchedPage
  <2> HIDE DEF p
  <2>7. /\ runs[s.run].state = "running" /\ runs[s.run].fence = s.fence
        /\ s.number = runs[s.run].pages + 1
        /\ runs' = [runs EXCEPT ![s.run] = WithPage(runs[s.run], p)]
        /\ runtime' = [runtime EXCEPT !.cursor = s.to]
    BY <2>2, <2>6 DEF CommitPage, CommitAllowed
  <2>8. /\ WithPage(runs[s.run], p).pages = runs[s.run].pages + 1
        /\ WithPage(runs[s.run], p).state = "running"
        /\ WithPage(runs[s.run], p).fence = s.fence
    BY <1>t, <2>4, <2>6, <2>7, WithPageRow
  <2>9. /\ runs'[s.run].pages = s.number /\ runs'[s.run].state = "running"
        /\ runs'[s.run].fence = s.fence /\ runtime'.cursor = s.to
    BY <1>t, <2>4, <2>7, <2>8 DEF TypeOK, Runtime
  <2>10. Owns(t)'
    BY <2>4, <2>5, <2>9 DEF Owns
  <2>11. Continue(w, t, at) /\ at \in Location
    BY <2>1, <2>3 DEF Location
  <2> QED BY <1>t, <2>5, <2>10, <2>11, HoldsOn
<1> QED BY <1>1, <1>2, <1>3, <1>4, <1>5, <1>7, <1>8, <1>9, <1>10 DEF Entering

\* What the others do, and time and the operators, cannot come between an
\* execution that has the lease and its run.
LEMMA HolderUndisturbed ==
    ASSUME Base, NEW w \in Worker, NEW s \in WorkerType, Holds(w, s),
           \/ RuntimeEnvironment
           \/ UNCHANGED rvars
           \/ \E v \in Worker \ {w} : Transaction(v)
    PROVE  Holds(w, s)'
<1>t. TypeOK /\ lease \in Lease /\ runtime \in Runtime
  BY DEF Base, TypeOK
<1>1. CASE UNCHANGED rvars
  BY <1>1 DEF rvars, Holds, Owns, IsLive, Attempted
<1>2. ASSUME NEW v \in Worker \ {w}, Transaction(v), IsLive(w, s.fence)'
      PROVE  UNCHANGED rvars
  <2>1. lease'.live /\ lease'.owner = w /\ lease'.fence = s.fence
    BY <1>2 DEF IsLive
  <2>2. ~Acquire(v)
    BY <1>2, <2>1 DEF Acquire
  <2>3. ~Release(v, worker[v].fence)
    BY <1>t, <2>1 DEF Release, Lease
  <2>4. lease' = lease => ~IsLive(v, worker[v].fence)
    BY <1>2, <2>1 DEF IsLive
  <2> QED BY <1>2, <2>2, <2>3, <2>4
      DEF Transaction, Start, RecoverIneligible, Recover, Finish, FinishAllowed, HeadStep,
          CommitPage, CommitAllowed
<1>3. CASE \E v \in Worker \ {w} : Transaction(v)
  BY <1>1, <1>2, <1>3 DEF Holds
<1>4. ASSUME RuntimeEnvironment
      PROVE  /\ IsLive(w, s.fence)' => IsLive(w, s.fence)
             /\ \A q \in RunId : runs[q].state = "running" =>
                   runs'[q] = runs[q] /\ runtime'.cursor = runtime.cursor
             /\ \A q \in RunId : runs'[q].state = "running" => runs[q].state = "running"
  <2>1. CASE LeaseExpires
    BY <1>t, <2>1 DEF LeaseExpires, IsLive, Lease
  <2>2. CASE ConfigurationExpires
    BY <1>t, <2>2 DEF ConfigurationExpires, IsLive, Runtime
  <2>3. ASSUME NEW v \in Config, SynchronizeConfiguration(v)
        PROVE  runs' = runs /\ lease' = lease /\ \A q \in RunId : runs[q].state # "running"
    BY <2>3 DEF SynchronizeConfiguration, Active, ActiveState
  <2>4. ASSUME NEW k \in ControlCommand, NEW type \in ControlType,
               NEW g \in 0 .. runtime.generation, NEW sameReason \in BOOLEAN,
               SubmitControl(k, type, g, sameReason)
        PROVE  runs' = runs /\ lease' = lease /\ runtime'.cursor = runtime.cursor
    <3>1. ControlTarget[type] \in OperatingState
      BY DEF ControlTarget, ControlType, OperatingState
    <3> QED BY <1>t, <2>4, <3>1, MoveToRow DEF SubmitControl
  <2>5. ASSUME NEW c \in RunCommand, JoinActiveRun(c)
        PROVE  runs' = runs /\ lease' = lease /\ runtime' = runtime
    BY <2>5 DEF JoinActiveRun
  <2>6. ASSUME NEW c \in RunCommand, NEW r \in RunId, RequestRunNow(c, r)
        PROVE  /\ lease' = lease /\ runtime' = runtime
               /\ \A q \in RunId : q # r => runs'[q] = runs[q]
               /\ runs[r].state = "none" /\ runs'[r].state = "queued"
    <3>1. Queued(c).state = "queued"
      BY <1>t, QueuedRow
    <3> QED BY <1>t, <2>6, <3>1 DEF RequestRunNow, Fresh, TypeOK
  <2> QED BY <1>4, <2>1, <2>2, <2>3, <2>4, <2>5, <2>6 DEF RuntimeEnvironment, IsLive
<1>5. CASE RuntimeEnvironment
  <2>1. Owns(s) => Owns(s)'
    BY <1>4, <1>5 DEF Owns
  <2>2. ~Attempted => ~Attempted'
    BY <1>4, <1>5 DEF Attempted
  <2> QED BY <1>4, <1>5, <2>1, <2>2 DEF Holds
<1> QED BY <1>1, <1>3, <1>5

\* The inductive invariant.
ImportInv == Base /\ Core /\ HoldersOwn

LEMMA HoldersStep ==
    ASSUME Base, Core, HoldersOwn, [Next]_vars
    PROVE  HoldersOwn'
<1>1. Base'
  BY BaseStep
<1>2. worker \in [Worker -> WorkerType] /\ TypeOK'
  BY <1>1 DEF Base, ImportTypeOK
<1> SUFFICES ASSUME NEW w \in Worker PROVE Holds(w, worker[w])'
  BY DEF HoldersOwn
<1>3. CASE Execute(w) \/ Throw(w) \/ OutcomeLost(w) \/ AbortHead(w) \/ Crash(w)
  <2>1. CASE worker'[w].at \in Configured
    BY <1>2, <1>3, <2>1, Entries, HolderEnters
  <2>2. CASE worker'[w].at \notin Configured
    BY <2>2 DEF Holds
  <2> QED BY <2>1, <2>2
<1>4. PICK s \in WorkerType : s = worker[w] /\ Holds(w, s)
  BY <1>2 DEF HoldersOwn, Holds, Owns, IsLive
<1>5. ASSUME worker'[w] = s,
             \/ RuntimeEnvironment
             \/ UNCHANGED rvars
             \/ \E v \in Worker \ {w} : Transaction(v)
      PROVE  Holds(w, worker[w])'
  <2>1. Holds(w, s)'
    BY <1>4, <1>5, HolderUndisturbed
  <2> QED BY <1>5, <2>1 DEF Holds, Owns, IsLive
<1>6. CASE Operate \/ ConfigurationLapses \/ Expire
  BY <1>4, <1>5, <1>6, EnvironmentSteps
<1>7. CASE UNCHANGED vars
  BY <1>4, <1>5, <1>7 DEF vars
<1>8. ASSUME NEW v \in Worker \ {w},
             Execute(v) \/ Throw(v) \/ OutcomeLost(v) \/ AbortHead(v) \/ Crash(v)
      PROVE  Holds(w, worker[w])'
  <2>1. Transaction(v) /\ worker'[w] = worker[w]
    BY <1>2, <1>8, ExecuteMoves, DisturbedMoves DEF Moves
  <2> QED BY <1>4, <1>5, <2>1
<1> QED BY <1>3, <1>6, <1>7, <1>8 DEF Next

LEMMA HoldersInit ==
    ASSUME Init
    PROVE  HoldersOwn
  BY DEF Init, HoldersOwn, Holds, IdleWorker, Configured

LEMMA ImportInvariant == Spec => []ImportInv
<1>1. Init => HoldersOwn
  BY HoldersInit
<1>2. Base /\ Core /\ HoldersOwn /\ [Next]_vars => HoldersOwn'
  BY HoldersStep
<1>3. Spec => []Base /\ []Core
  BY BaseInvariant, ImportImplementsRuntime, CoreInvariant, PTL
<1>4. Spec => []HoldersOwn
  BY <1>1, <1>2, <1>3, PTL DEF Spec
<1> QED BY <1>3, <1>4, PTL DEF ImportInv

\* An execution that still has the lease works on the database's state: its run,
\* its page count, its cursor; its configuration is never newer than the run's.
THEOREM HolderIsCurrentAlways == Spec => []HolderIsCurrent
<1>1. ImportInv => HolderIsCurrent
  <2> SUFFICES ASSUME ImportInv, NEW w \in Worker,
                      worker[w].at \in {"renew", "fetch", "commit", "match"},
                      IsLive(w, worker[w].fence)
               PROVE  /\ runs[worker[w].run].state = "running"
                      /\ runs[worker[w].run].fence = worker[w].fence
                      /\ runs[worker[w].run].config >= worker[w].config
                      /\ runs[worker[w].run].pages + 1 = worker[w].number
                      /\ runtime.cursor = worker[w].cursor
    BY DEF HolderIsCurrent
  <2>1. Owns(worker[w])
    BY DEF ImportInv, HoldersOwn, Holds, Configured
  <2>2. runs[worker[w].run].config = runtime.config
    BY <2>1 DEF ImportInv, Core, ActiveRunAligned, Owns, Active, ActiveState
  <2>3. worker[w].config <= runtime.config /\ worker[w].config \in Nat /\ runtime.config \in Nat
    BY ConfigAssumption DEF ImportInv, Base, Sane, Basic, WorkerType, TypeOK, Runtime, Config
  <2> QED BY <2>1, <2>2, <2>3 DEF Owns
<1> QED BY <1>1, ImportInvariant, PTL
=============================================================================

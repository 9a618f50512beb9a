----------------------- MODULE ProviderRuntime_proofs -----------------------
(***************************************************************************)
(* Theorems about ProviderRuntime, for every set of workers, runs,         *)
(* commands and cursors and whatever the callers do.                       *)
(***************************************************************************)
EXTENDS ProviderRuntime, TLAPS

-----------------------------------------------------------------------------
(* Type correctness.                                                       *)

\* A version that was synchronised is a version.
LEMMA VersionInConfig == 1 .. MaxConfig \subseteq Config
BY ConfigAssumption DEF Config

\* What MoveTo writes into the runtime row.
LEMMA MoveToRow ==
    ASSUME TypeOK, NEW s \in OperatingState
    PROVE  /\ MoveTo(s) \in Runtime
           /\ MoveTo(s).state = s /\ MoveTo(s).generation = NextGeneration
           /\ MoveTo(s).config = runtime.config /\ MoveTo(s).expired = runtime.expired
           /\ MoveTo(s).cursor = runtime.cursor
<1>1. NextGeneration \in Nat
  BY DEF TypeOK, Runtime, NextGeneration
<1> QED BY <1>1 DEF TypeOK, MoveTo, Runtime

\* What each transaction writes into a run row, field by field.
LEMMA QueuedRow ==
    ASSUME TypeOK, NEW c \in RunCommand
    PROVE  /\ Queued(c) \in Run
           /\ Queued(c).state = "queued" /\ Queued(c).command = c
           /\ Queued(c).config = runtime.config /\ Queued(c).requested = runtime.cursor
           /\ Queued(c).pages = 0 /\ Queued(c).recoveryOf = None
BY DEF TypeOK, Queued, NoRun, Run, Runtime, RunState, ActiveState, Config

\* A claimed run is running under the claiming fence and the new generation.
LEMMA StartedRow ==
    ASSUME TypeOK, NEW row \in Run, NEW f \in Nat
    PROVE  /\ Started(row, f) \in Run
           /\ Started(row, f).state = "running" /\ Started(row, f).fence = f
           /\ Started(row, f).generation = NextGeneration
           /\ Started(row, f).command = row.command
           /\ Started(row, f).recoveryOf = row.recoveryOf
           /\ Started(row, f).config = row.config
           /\ Started(row, f).requested = row.requested
           /\ Started(row, f).pages = row.pages
           /\ Started(row, f).head = row.head
<1>1. NextGeneration \in Nat
  BY DEF TypeOK, Runtime, NextGeneration
<1> QED BY <1>1 DEF Started, Run, RunState, ActiveState

\* An interrupted attempt is incomplete and keeps its fence, pages and generation.
LEMMA InterruptedRow ==
    ASSUME TypeOK, NEW row \in Run, NEW cause \in {"lease_expired", "ineligible"}
    PROVE  /\ Interrupted(row, cause) \in Run
           /\ Interrupted(row, cause).state = "incomplete"
           /\ Interrupted(row, cause).final = runtime.cursor
           /\ Interrupted(row, cause).cause = cause
           /\ Interrupted(row, cause).command = row.command
           /\ Interrupted(row, cause).recoveryOf = row.recoveryOf
           /\ Interrupted(row, cause).config = row.config
           /\ Interrupted(row, cause).fence = row.fence
           /\ Interrupted(row, cause).requested = row.requested
           /\ Interrupted(row, cause).pages = row.pages
           /\ Interrupted(row, cause).head = row.head
           /\ Interrupted(row, cause).generation = row.generation
BY DEF TypeOK, Interrupted, Run, Runtime, RunState, Terminal

\* A recovery attempt is a running, pageless run of its lineage's generation.
LEMMA SuccessorRow ==
    ASSUME TypeOK, NEW r \in RunId, NEW f \in Nat
    PROVE  /\ Successor(r, f) \in Run
           /\ Successor(r, f).state = "running" /\ Successor(r, f).fence = f
           /\ Successor(r, f).command = None /\ Successor(r, f).pages = 0
           /\ Successor(r, f).recoveryOf = r
           /\ Successor(r, f).requested = runtime.cursor
           /\ Successor(r, f).config = runs[r].config
           /\ Successor(r, f).generation = runs[r].generation
           /\ Successor(r, f).head = runs[r].head
<1>1. runs[r] \in Run
  BY DEF TypeOK
<1> QED BY <1>1 DEF TypeOK, Successor, NoRun, Run, Runtime, RunState, ActiveState

\* A finished attempt has the outcome and keeps its fence, pages and generation.
LEMMA FinishedRow ==
    ASSUME TypeOK, NEW row \in Run, NEW outcome \in Terminal
    PROVE  /\ Finished(row, outcome) \in Run
           /\ Finished(row, outcome).state = outcome
           /\ Finished(row, outcome).final = runtime.cursor
           /\ Finished(row, outcome).command = row.command
           /\ Finished(row, outcome).recoveryOf = row.recoveryOf
           /\ Finished(row, outcome).config = row.config
           /\ Finished(row, outcome).fence = row.fence
           /\ Finished(row, outcome).requested = row.requested
           /\ Finished(row, outcome).pages = row.pages
           /\ Finished(row, outcome).head = row.head
           /\ Finished(row, outcome).generation = row.generation
<1>1. runtime.cursor \in Cursor \cup {None}
  BY DEF TypeOK, Runtime
<1> DEFINE cause == IF outcome = "succeeded" THEN "none" ELSE "failed"
<1>2. cause \in {"none", "failed"} /\ outcome \in RunState
  BY DEF Terminal, RunState
<1>3. Finished(row, outcome) = [row EXCEPT !.state = outcome, !.final = runtime.cursor, !.cause = cause]
  BY DEF Finished
<1> HIDE DEF cause
<1> QED BY <1>1, <1>2, <1>3 DEF Run

\* A run row that counts a page is still a run row.
LEMMA WithPageRow ==
    ASSUME NEW row \in Run, NEW p, p.head \in BOOLEAN
    PROVE  /\ WithPage(row, p) \in Run
           /\ WithPage(row, p).pages = row.pages + 1
           /\ WithPage(row, p).head = (row.head \/ p.head)
           /\ WithPage(row, p).state = row.state
           /\ WithPage(row, p).command = row.command
           /\ WithPage(row, p).recoveryOf = row.recoveryOf
           /\ WithPage(row, p).config = row.config
           /\ WithPage(row, p).fence = row.fence
           /\ WithPage(row, p).requested = row.requested
           /\ WithPage(row, p).generation = row.generation
           /\ WithPage(row, p).final = row.final
<1>1. PICK n \in Nat : n = row.pages + 1
  BY DEF Run
<1>2. PICK h \in BOOLEAN : h = (row.head \/ p.head)
  BY DEF Run
<1>3. WithPage(row, p) = [row EXCEPT !.pages = n, !.head = h]
  BY <1>1, <1>2, Zenon DEF WithPage
<1> QED BY <1>1, <1>2, <1>3 DEF Run

\* The lease and control transactions keep the state well typed.
LEMMA ControlTypes ==
    ASSUME TypeOK, RuntimeEnvironment \/ \E w \in Worker : Acquire(w)
    PROVE  TypeOK'
<1>1. CASE LeaseExpires
  BY <1>1 DEF TypeOK, LeaseExpires, Lease
<1>2. CASE ConfigurationExpires
  BY <1>2 DEF TypeOK, ConfigurationExpires, Runtime
<1>3. ASSUME NEW v \in Config, SynchronizeConfiguration(v) PROVE TypeOK'
  BY <1>3 DEF TypeOK, SynchronizeConfiguration, Runtime
<1>4. ASSUME NEW k \in ControlCommand, NEW type \in ControlType,
             NEW g \in 0 .. runtime.generation, NEW sameReason \in BOOLEAN,
             SubmitControl(k, type, g, sameReason)
      PROVE  TypeOK'
  <2>1. ControlTarget[type] \in OperatingState
    BY DEF ControlTarget, ControlType, OperatingState
  <2>2. runtime' \in Runtime
    BY <1>4, <2>1, MoveToRow DEF TypeOK, SubmitControl
  <2>3. commands' \in [Command -> CommandRow]
    <3>1. ControlState(type, g, sameReason) \in {"completed", "rejected"}
      BY DEF ControlState
    <3>2. [type |-> type, run |-> None, state |-> ControlState(type, g, sameReason)] \in CommandRow
      BY <3>1 DEF CommandRow, ControlType
    <3> QED BY <1>4, <3>2 DEF TypeOK, SubmitControl, Command
  <2> QED BY <1>4, <2>2, <2>3 DEF TypeOK, SubmitControl
<1>5. ASSUME NEW c \in RunCommand, JoinActiveRun(c) PROVE TypeOK'
  BY <1>5 DEF TypeOK, JoinActiveRun, Command, CommandRow, Active
<1>6. ASSUME NEW c \in RunCommand, NEW r \in RunId, RequestRunNow(c, r) PROVE TypeOK'
  <2>1. runs' \in [RunId -> Run]
    BY <1>6, QueuedRow DEF TypeOK, RequestRunNow
  <2>2. commands' \in [Command -> CommandRow]
    BY <1>6 DEF TypeOK, RequestRunNow, Command, CommandRow
  <2> QED BY <1>6, <2>1, <2>2 DEF TypeOK, RequestRunNow
<1>7. ASSUME NEW w \in Worker, Acquire(w) PROVE TypeOK'
  BY <1>7 DEF TypeOK, Acquire, GrantedFence, Lease
<1> QED BY <1>1, <1>2, <1>3, <1>4, <1>5, <1>6, <1>7 DEF RuntimeEnvironment

\* The lease holder's transactions keep the state well typed.
LEMMA WorkerTypes ==
    ASSUME TypeOK, NEW w \in Worker, NEW f \in 0 .. lease.fence, WorkerTransaction(w, f)
    PROVE  TypeOK'
<1>f. f \in Nat
  BY DEF TypeOK, Lease
<1>1. CASE Release(w, f)
  BY <1>1 DEF TypeOK, Release, Lease
<1>2. ASSUME NEW c \in RunCommand, NEW r \in RunId, NEW v \in Config, Start(w, f, c, r, v)
      PROVE  TypeOK'
  <2>2. runs' \in [RunId -> Run]
    BY <1>2, <1>f, StartedRow DEF TypeOK, Start
  <2>3. commands' \in [Command -> CommandRow]
    BY <1>2 DEF TypeOK, Start, Command, CommandRow
  <2>4. runtime' \in Runtime
    BY <1>2, MoveToRow DEF Start, OperatingState
  <2> QED BY <1>2, <2>2, <2>3, <2>4 DEF TypeOK, Start
<1>3. ASSUME NEW r \in RunId, RecoverIneligible(w, f, r) PROVE TypeOK'
  <2>1. runs' \in [RunId -> Run]
    BY <1>3, InterruptedRow DEF TypeOK, RecoverIneligible
  <2>2. runtime' \in Runtime
    BY <1>3, MoveToRow DEF TypeOK, RecoverIneligible, OperatingState
  <2> QED BY <1>3, <2>1, <2>2 DEF TypeOK, RecoverIneligible
<1>4. ASSUME NEW r \in RunId, NEW n \in RunId, Recover(w, f, r, n) PROVE TypeOK'
  <2>1. runs' \in [RunId -> Run]
    BY <1>4, <1>f, InterruptedRow, SuccessorRow DEF TypeOK, Recover
  <2> QED BY <1>4, <2>1 DEF TypeOK, Recover
<1>5. ASSUME NEW r \in RunId, NEW outcome \in Terminal, Finish(w, f, r, outcome)
      PROVE  TypeOK'
  <2>1. runs' \in [RunId -> Run]
    BY <1>5, FinishedRow DEF TypeOK, Finish
  <2>2. runtime' \in Runtime
    BY <1>5, MoveToRow DEF TypeOK, Finish, OperatingState
  <2> QED BY <1>5, <2>1, <2>2 DEF TypeOK, Finish
<1>6. ASSUME NEW r \in RunId, NEW phase \in Phase, HeadStep(w, f, r, phase) PROVE TypeOK'
  BY <1>6 DEF TypeOK, HeadStep
<1>7. ASSUME NEW r \in RunId, NEW v \in Config, NEW from \in Cursor \cup {None},
             NEW to \in Cursor \cup {None}, NEW head \in BOOLEAN,
             CommitPage(w, f, [run |-> r, config |-> v, number |-> runs[r].pages + 1,
                               from |-> from, to |-> to, head |-> head])
      PROVE  TypeOK'
  <2> DEFINE p == [run |-> r, config |-> v, number |-> runs[r].pages + 1,
                   from |-> from, to |-> to, head |-> head]
             row == [run |-> p.run, number |-> p.number, from |-> p.from, to |-> p.to,
                     head |-> p.head, fence |-> f, config |-> p.config,
                     generation |-> runtime.generation]
  <2>1. p.head \in BOOLEAN /\ p.run = r /\ p.to \in Cursor \cup {None}
    OBVIOUS
  <2>2. row \in Page
    BY <1>f DEF TypeOK, Page, Run, Runtime
  <2>3. runs' \in [RunId -> Run]
    <3>1. WithPage(runs[r], p) \in Run
      BY <2>1, WithPageRow DEF TypeOK
    <3> QED BY <1>7, <2>1, <3>1 DEF TypeOK, CommitPage
  <2>4. runtime' \in Runtime
    BY <1>7, <2>1 DEF TypeOK, CommitPage, Runtime
  <2>5. pages' \in Seq(Page)
    BY <1>7, <2>2 DEF TypeOK, CommitPage
  <2> QED BY <1>7, <2>3, <2>4, <2>5 DEF TypeOK, CommitPage
<1> QED
  BY VersionInConfig, <1>1, <1>2, <1>3, <1>4, <1>5, <1>6, <1>7 DEF WorkerTransaction

\* The rows of every table keep their types through every transaction: no
\* refused, recovered or finished call leaves a half-written row.
THEOREM TypeCorrect == RuntimeSpec => []TypeOK
<1>1. RuntimeInit => TypeOK
  BY ConfigAssumption DEF RuntimeInit, TypeOK, Lease, Runtime, OperatingState, Config, NoRun, Run,
     RunState, NoCommand, CommandRow, Phase
<1>2. TypeOK /\ [RuntimeNext]_rvars => TypeOK'
  <2> SUFFICES ASSUME TypeOK, [RuntimeNext]_rvars PROVE TypeOK'
    OBVIOUS
  <2>1. CASE UNCHANGED rvars
    BY <2>1 DEF TypeOK, rvars
  <2> QED BY <2>1, ControlTypes, WorkerTypes DEF RuntimeNext
<1> QED BY <1>1, <1>2, PTL DEF RuntimeSpec

-----------------------------------------------------------------------------
(* One active run, aligned with the runtime and backing it.                *)

\* OneActiveRun, ActiveRunAligned and RunningIsBacked need each other: start and
\* recovery preserve the alignment because there is no second active run, and
\* the runtime stays backed because only the aligned run is ever replaced.
Core == TypeOK /\ OneActiveRun /\ ActiveRunAligned /\ RunningIsBacked

\* Steps that touch neither runs nor Run now commands keep Core, if they keep the
\* configuration, the cursor and the generation a running runtime has.
LEMMA CoreFrame ==
    ASSUME Core, TypeOK', runs' = runs,
           \A c \in RunCommand : commands'[c] = commands[c],
           runtime'.config = runtime.config, runtime'.cursor = runtime.cursor,
           runtime'.state = "running" =>
               runtime.state = "running" /\ runtime'.generation = runtime.generation
    PROVE  Core'
<1>1. Active' = Active
  BY DEF Active
<1> QED BY <1>1 DEF Core, OneActiveRun, ActiveRunAligned, RunningIsBacked

\* Operators, the centre, Run now and the lease keep Core.
LEMMA CoreControl ==
    ASSUME Core, RuntimeEnvironment \/ \E w \in Worker : Acquire(w)
    PROVE  Core'
<1>t. TypeOK'
  BY ControlTypes DEF Core
<1>1. CASE LeaseExpires
  BY <1>t, <1>1, CoreFrame DEF LeaseExpires
<1>2. CASE ConfigurationExpires
  <2>1. runtime'.config = runtime.config /\ runtime'.cursor = runtime.cursor
        /\ runtime'.state = runtime.state /\ runtime'.generation = runtime.generation
    BY <1>2 DEF ConfigurationExpires, Core, TypeOK, Runtime
  <2> QED BY <1>t, <1>2, <2>1, CoreFrame DEF ConfigurationExpires
<1>3. ASSUME NEW v \in Config, SynchronizeConfiguration(v) PROVE Core'
  <2>1. Active = {} /\ runs' = runs /\ commands' = commands
    BY <1>3 DEF SynchronizeConfiguration
  <2>2. Active' = Active
    BY <2>1 DEF Active
  <2>3. runtime'.state = runtime.state
    BY <1>3 DEF SynchronizeConfiguration, Core, TypeOK, Runtime
  <2>4. runtime.state # "running"
    BY <2>1 DEF Core, RunningIsBacked
  <2> QED BY <1>t, <2>1, <2>2, <2>3, <2>4
          DEF Core, OneActiveRun, ActiveRunAligned, RunningIsBacked
<1>4. ASSUME NEW k \in ControlCommand, NEW type \in ControlType,
             NEW g \in 0 .. runtime.generation, NEW sameReason \in BOOLEAN,
             SubmitControl(k, type, g, sameReason)
      PROVE  Core'
  <2>1. ControlTarget[type] \in OperatingState /\ ControlTarget[type] # "running"
    BY DEF ControlTarget, ControlType, OperatingState
  <2>2. \A c \in RunCommand : commands'[c] = commands[c]
    BY <1>4, CommandAssumption DEF SubmitControl, Core, TypeOK, Command
  <2>3. CASE ControlApplies(type, g)
    <3>1. /\ runtime'.state = ControlTarget[type]
          /\ runtime'.config = runtime.config /\ runtime'.cursor = runtime.cursor
      BY <1>4, <2>3, MoveToRow, <2>1 DEF SubmitControl, Core
    <3> QED BY <1>t, <1>4, <2>1, <2>2, <3>1, CoreFrame DEF SubmitControl
  <2>4. CASE ~ControlApplies(type, g)
    BY <1>t, <1>4, <2>2, <2>4, CoreFrame DEF SubmitControl
  <2> QED BY <2>3, <2>4
<1>5. ASSUME NEW c \in RunCommand, JoinActiveRun(c) PROVE Core'
  <2>1. commands' = commands /\ runs' = runs /\ runtime' = runtime
    BY <1>5 DEF JoinActiveRun, CommandTransitionAllowed
  <2> QED BY <1>t, <2>1, CoreFrame
<1>6. ASSUME NEW c \in RunCommand, NEW r \in RunId, RequestRunNow(c, r) PROVE Core'
  <2>1. /\ Active = {} /\ runs[r].state = "none" /\ commands[c].state = "none"
        /\ runs' = [runs EXCEPT ![r] = Queued(c)]
        /\ commands' = [commands EXCEPT ![c] = [type |-> "run", state |-> "accepted", run |-> r]]
        /\ runtime' = runtime
    BY <1>6 DEF RequestRunNow, RunNowAdmitted, Fresh
  <2>2. /\ runs'[r] = Queued(c)
        /\ \A q \in RunId : q # r => runs'[q] = runs[q] /\ runs[q].state \notin ActiveState
    BY <2>1 DEF Core, TypeOK, Active
  <2>3. Active' = {r}
    BY <2>2, QueuedRow DEF Active, ActiveState, Core
  <2>4. runtime.state # "running"
    BY <2>1 DEF Core, RunningIsBacked
  <2>5. OneActiveRun'
    <3>1. ASSUME NEW d \in RunCommand, NEW q \in RunId
          PROVE  commands'[d].state = "accepted" /\ commands'[d].run = q
                   <=> runs'[q].state = "queued" /\ runs'[q].command = d
      <4>0. \A e \in RunCommand, z \in RunId :
               commands[e].state = "accepted" /\ commands[e].run = z
                 <=> runs[z].state = "queued" /\ runs[z].command = e
        BY DEF Core, OneActiveRun
      <4>q. runs'[r].state = "queued" /\ runs'[r].command = c
        BY <2>2, QueuedRow DEF Core
      <4>1. CASE d = c
        <5>1. commands'[d].state = "accepted" /\ commands'[d].run = r
          BY <2>1, <4>1 DEF Core, TypeOK, Command
        <5>2. q # r => runs'[q].state # "queued"
          BY <2>2 DEF ActiveState
        <5> QED BY <5>1, <5>2, <4>1, <4>q
      <4>2. CASE d # c
        <5>1. commands'[d] = commands[d]
          BY <2>1, <4>2 DEF Core, TypeOK, Command
        <5>2. CASE q = r
          BY <5>1, <5>2, <4>0, <4>q, <4>2, <2>1
        <5>3. CASE q # r
          BY <5>1, <5>3, <4>0, <2>2
        <5> QED BY <5>2, <5>3
      <4> QED BY <4>1, <4>2
    <3> QED BY <2>3, <3>1 DEF OneActiveRun
  <2>6. ActiveRunAligned'
    BY <2>1, <2>2, <2>3, QueuedRow DEF ActiveRunAligned, Core
  <2> QED BY <1>t, <2>1, <2>4, <2>5, <2>6 DEF Core, RunningIsBacked
<1>7. ASSUME NEW w \in Worker, Acquire(w) PROVE Core'
  BY <1>t, <1>7, CoreFrame DEF Acquire
<1> QED BY <1>1, <1>2, <1>3, <1>4, <1>5, <1>6, <1>7 DEF RuntimeEnvironment

\* A running attempt r that goes terminal, taking a running runtime with it,
\* leaves no active run and Core intact.
LEMMA CoreConclude ==
    ASSUME Core, TypeOK', NEW r \in RunId, runs[r].state = "running", NEW row \in Run,
           runs' = [runs EXCEPT ![r] = row],
           row.state \notin ActiveState, commands' = commands,
           runtime'.state # "running"
    PROVE  Core'
<1>1. \A q \in RunId : q # r => runs'[q] = runs[q] /\ runs[q].state \notin ActiveState
  BY DEF Core, TypeOK, OneActiveRun, Active, ActiveState
<1>2. runs'[r] = row /\ Active' = {}
  BY <1>1 DEF Core, TypeOK, Active
<1>3. OneActiveRun'
  BY <1>1, <1>2 DEF Core, OneActiveRun, ActiveState
<1> QED BY <1>2, <1>3 DEF Core, ActiveRunAligned, RunningIsBacked

\* The transactions of the lease holder keep Core.
LEMMA CoreWorker ==
    ASSUME Core, NEW w \in Worker, NEW f \in 0 .. lease.fence, WorkerTransaction(w, f)
    PROVE  Core'
<1>t. TypeOK /\ TypeOK' /\ f \in Nat
  BY WorkerTypes DEF Core, TypeOK, Lease
<1>r. \A q \in RunId : runs[q] \in Run
  BY DEF Core, TypeOK
<1>a. \A q, z \in RunId : runs[q].state \in ActiveState /\ runs[z].state \in ActiveState => q = z
  BY DEF Core, OneActiveRun, Active
<1>1. CASE Release(w, f)
  BY <1>t, <1>1, CoreFrame DEF Release
<1>2. ASSUME NEW c \in RunCommand, NEW r \in RunId, NEW v \in Config, Start(w, f, c, r, v)
      PROVE  Core'
  <2>1. /\ runs[r].state = "queued" /\ runs[r].command = c
        /\ commands[c].state = "accepted" /\ commands[c].run = r
        /\ runs' = [runs EXCEPT ![r] = Started(@, f)]
        /\ commands' = [commands EXCEPT ![c].state = "completed"]
        /\ runtime' = MoveTo("running")
    BY <1>2 DEF Start, StartAllowed
  <2>2. /\ runs'[r] = Started(runs[r], f)
        /\ \A q \in RunId : q # r => runs'[q] = runs[q] /\ runs[q].state \notin ActiveState
    BY <1>t, <1>a, <2>1 DEF TypeOK, ActiveState
  <2>3. /\ runs'[r].state = "running" /\ runs'[r].generation = NextGeneration
        /\ runs'[r].config = runs[r].config /\ runs'[r].pages = runs[r].pages
        /\ runs'[r].requested = runs[r].requested
    BY <1>t, <1>r, <2>2, StartedRow
  <2>4. Active' = {r}
    BY <2>2, <2>3 DEF Active, ActiveState
  <2>5. /\ runtime'.state = "running" /\ runtime'.generation = NextGeneration
        /\ runtime'.config = runtime.config /\ runtime'.cursor = runtime.cursor
    BY <1>t, <2>1, MoveToRow DEF OperatingState
  <2>6. OneActiveRun'
    <3>1. ASSUME NEW d \in RunCommand, NEW q \in RunId
          PROVE  commands'[d].state = "accepted" /\ commands'[d].run = q
                   <=> runs'[q].state = "queued" /\ runs'[q].command = d
      <4>1. runs'[q].state # "queued"
        BY <2>2, <2>3 DEF ActiveState
      <4>2. d = c => commands'[d].state = "completed"
        BY <1>t, <2>1 DEF TypeOK, Command, CommandRow
      <4>3. d # c => commands'[d] = commands[d]
        BY <1>t, <2>1 DEF TypeOK, Command
      <4>4. d # c => ~(commands[d].state = "accepted" /\ commands[d].run = q)
        BY <2>1, <2>2 DEF Core, OneActiveRun, ActiveState
      <4> QED BY <4>1, <4>2, <4>3, <4>4
    <3> QED BY <2>4, <3>1 DEF OneActiveRun
  <2>7. ActiveRunAligned'
    <3>1. r \in Active
      BY <2>1 DEF Active, ActiveState
    <3> QED BY <2>3, <2>4, <2>5, <3>1 DEF Core, ActiveRunAligned
  <2> QED BY <1>t, <2>3, <2>4, <2>5, <2>6, <2>7 DEF Core, RunningIsBacked
<1>3. ASSUME NEW r \in RunId, RecoverIneligible(w, f, r) PROVE Core'
  <2>1. /\ runs[r].state = "running" /\ commands' = commands
        /\ runs' = [runs EXCEPT ![r] = Interrupted(runs[r], "ineligible")]
    BY <1>3 DEF RecoverIneligible
  <2>2. /\ Interrupted(runs[r], "ineligible") \in Run
        /\ Interrupted(runs[r], "ineligible").state \notin ActiveState
    BY <1>t, InterruptedRow DEF TypeOK, ActiveState
  <2>3. runtime'.state # "running"
    BY <1>3, <1>t, MoveToRow DEF RecoverIneligible, OperatingState
  <2> QED BY <1>t, <2>1, <2>2, <2>3, CoreConclude
<1>4. ASSUME NEW r \in RunId, NEW n \in RunId, Recover(w, f, r, n) PROVE Core'
  <2>1. /\ runs[r].state = "running" /\ runs[n].state = "none"
        /\ runs' = [runs EXCEPT ![r] = Interrupted(@, "lease_expired"), ![n] = Successor(r, f)]
        /\ commands' = commands /\ runtime' = runtime
        /\ runtime.state = "running" /\ runtime.config = runs[r].config
    BY <1>4 DEF Recover, Eligible, Fresh
  <2>2. /\ n # r /\ runs'[n] = Successor(r, f)
        /\ runs'[r] = Interrupted(runs[r], "lease_expired")
        /\ \A q \in RunId \ {r, n} : runs'[q] = runs[q] /\ runs[q].state \notin ActiveState
    BY <1>t, <1>a, <2>1 DEF TypeOK, ActiveState
  <2>3. /\ runs'[n].state = "running" /\ runs'[n].config = runtime.config
        /\ runs'[n].requested = runtime.cursor /\ runs'[n].generation = runs[r].generation
        /\ runs'[r].state = "incomplete"
    BY <1>t, <2>1, <2>2, SuccessorRow, InterruptedRow DEF TypeOK
  <2>4. Active' = {n}
    BY <2>2, <2>3 DEF Active, ActiveState
  <2>5. OneActiveRun'
    <3>1. \A q \in RunId : runs'[q].state # "queued" /\ runs[q].state # "queued"
      <4>1. /\ runs[r].state # "queued" /\ runs[n].state # "queued"
            /\ runs'[r].state # "queued" /\ runs'[n].state # "queued"
        BY <2>1, <2>3
      <4>2. \A q \in RunId \ {r, n} : runs'[q].state # "queued" /\ runs[q].state # "queued"
        BY <2>2 DEF ActiveState
      <4> QED BY <4>1, <4>2
    <3>2. \A c \in RunCommand, q \in RunId :
             ~(commands[c].state = "accepted" /\ commands[c].run = q)
      BY <3>1 DEF Core, OneActiveRun
    <3> QED BY <2>1, <2>4, <3>1, <3>2 DEF OneActiveRun
  <2>6. runs[r].generation = runtime.generation
    BY <2>1 DEF Core, RunningIsBacked, Active, ActiveState
  <2> QED BY <1>t, <2>1, <2>3, <2>4, <2>5, <2>6 DEF Core, ActiveRunAligned, RunningIsBacked
<1>5. ASSUME NEW r \in RunId, NEW outcome \in Terminal, Finish(w, f, r, outcome)
      PROVE  Core'
  <2>1. /\ runs[r].state = "running" /\ commands' = commands
        /\ runs' = [runs EXCEPT ![r] = Finished(runs[r], outcome)]
    BY <1>5 DEF Finish, FinishAllowed
  <2>2. Finished(runs[r], outcome) \in Run /\ Finished(runs[r], outcome).state \notin ActiveState
    BY FinishedRow DEF Core, TypeOK, ActiveState, Terminal
  <2>3. runtime'.state # "running"
    BY <1>5, <1>t, MoveToRow DEF Finish, OperatingState
  <2> QED BY <1>t, <2>1, <2>2, <2>3, CoreConclude
<1>6. ASSUME NEW r \in RunId, NEW phase \in Phase, HeadStep(w, f, r, phase) PROVE Core'
  BY <1>t, <1>6, CoreFrame DEF HeadStep
<1>7. ASSUME NEW r \in RunId, NEW v \in Config, NEW from \in Cursor \cup {None},
             NEW to \in Cursor \cup {None}, NEW head \in BOOLEAN,
             CommitPage(w, f, [run |-> r, config |-> v, number |-> runs[r].pages + 1,
                               from |-> from, to |-> to, head |-> head])
      PROVE  Core'
  <2> DEFINE p == [run |-> r, config |-> v, number |-> runs[r].pages + 1,
                   from |-> from, to |-> to, head |-> head]
  <2>1. p.head \in BOOLEAN /\ p.run = r /\ p.to = to
    OBVIOUS
  <2>2. /\ runs[r].state = "running" /\ runs' = [runs EXCEPT ![r] = WithPage(runs[r], p)]
        /\ commands' = commands /\ runtime' = [runtime EXCEPT !.cursor = to]
    BY <1>7, <2>1 DEF CommitPage, CommitAllowed
  <2> HIDE DEF p
  <2>3. /\ runs'[r] = WithPage(runs[r], p)
        /\ \A q \in RunId : q # r => runs'[q] = runs[q] /\ runs[q].state \notin ActiveState
    BY <1>t, <1>a, <2>2 DEF TypeOK, ActiveState
  <2>4. /\ runs'[r].state = "running" /\ runs'[r].config = runs[r].config
        /\ runs'[r].pages = runs[r].pages + 1 /\ runs'[r].generation = runs[r].generation
    BY <1>t, <2>1, <2>2, <2>3, WithPageRow DEF TypeOK
  <2>5. Active' = {r} /\ Active = {r}
    BY <2>2, <2>3, <2>4 DEF Active, ActiveState
  <2>6. /\ runtime'.state = runtime.state /\ runtime'.config = runtime.config
        /\ runtime'.generation = runtime.generation
    BY <1>t, <2>2 DEF TypeOK, Runtime
  <2>7. OneActiveRun'
    <3>1. \A q \in RunId : runs'[q].state # "queued" /\ runs[q].state # "queued"
      BY <2>2, <2>3, <2>4 DEF ActiveState
    <3> QED BY <2>2, <2>5, <3>1 DEF Core, OneActiveRun
  <2>8. ActiveRunAligned'
    <3>1. runs[r].pages \in Nat
      BY <1>t DEF TypeOK, Run
    <3> QED BY <2>4, <2>5, <2>6, <3>1 DEF Core, ActiveRunAligned
  <2>9. RunningIsBacked'
    BY <2>4, <2>5, <2>6 DEF Core, RunningIsBacked
  <2> QED BY <1>t, <2>7, <2>8, <2>9 DEF Core
<1> QED
  BY VersionInConfig, <1>1, <1>2, <1>3, <1>4, <1>5, <1>6, <1>7 DEF WorkerTransaction

\* Core is inductive.
LEMMA CoreInvariant == RuntimeSpec => []Core
<1>1. RuntimeInit => Core
  <2> SUFFICES ASSUME RuntimeInit PROVE Core
    OBVIOUS
  <2>1. TypeOK
    BY ConfigAssumption DEF RuntimeInit, TypeOK, Lease, Runtime, OperatingState, Config, NoRun,
       Run, RunState, NoCommand, CommandRow, Phase
  <2>2. Active = {}
    BY DEF RuntimeInit, Active, ActiveState, NoRun
  <2>3. OneActiveRun
    BY <2>2 DEF RuntimeInit, OneActiveRun, NoRun, NoCommand, Command
  <2> QED BY <2>1, <2>2, <2>3 DEF RuntimeInit, Core, ActiveRunAligned, RunningIsBacked
<1>2. Core /\ [RuntimeNext]_rvars => Core'
  <2> SUFFICES ASSUME Core, [RuntimeNext]_rvars PROVE Core'
    OBVIOUS
  <2>1. CASE UNCHANGED rvars
    <3>1. TypeOK'
      BY <2>1 DEF rvars, Core, TypeOK
    <3> QED BY <2>1, <3>1, CoreFrame DEF rvars
  <2> QED BY <2>1, CoreControl, CoreWorker DEF RuntimeNext
<1> QED BY <1>1, <1>2, PTL DEF RuntimeSpec

\* There is never more than one queued or running run, and a Run now command is
\* accepted exactly while the run it queued is queued.
THEOREM OneActiveRunAlways == RuntimeSpec => []OneActiveRun
<1>1. Core => OneActiveRun
  BY DEF Core
<1> QED BY <1>1, CoreInvariant, PTL

\* The active run's configuration is the runtime's and, before its first page,
\* its requested cursor is the runtime's.
THEOREM ActiveRunAlignedAlways == RuntimeSpec => []ActiveRunAligned
<1>1. Core => ActiveRunAligned
  BY DEF Core
<1> QED BY <1>1, CoreInvariant, PTL

\* A runtime that says running has exactly one running attempt, of its generation.
THEOREM RunningIsBackedAlways == RuntimeSpec => []RunningIsBacked
<1>1. Core => RunningIsBacked
  BY DEF Core
<1> QED BY <1>1, CoreInvariant, PTL

-----------------------------------------------------------------------------
(* The history of committed pages.                                         *)

Begun == {"running"} \cup Terminal

\* What every committed page still says about its run, the lease and the runtime.
PageFacts(i) ==
    /\ runs[pages[i].run].state \in Begun
    /\ pages[i].generation = runs[pages[i].run].generation
    /\ pages[i].fence = runs[pages[i].run].fence
    /\ pages[i].fence <= lease.fence
    /\ pages[i].config <= runtime.config
    /\ 1 <= pages[i].number /\ pages[i].number <= runs[pages[i].run].pages

\* Two pages, the earlier one first.
PageOrder(i, j) ==
    /\ pages[i].fence <= pages[j].fence
    /\ pages[i].run = pages[j].run =>
         /\ pages[i].number < pages[j].number
         /\ pages[i].from # pages[j].from
         /\ ~pages[i].head

History ==
    /\ \A i \in 1 .. Len(pages) : PageFacts(i)
    /\ \A i, j \in 1 .. Len(pages) : i < j => PageOrder(i, j)
    /\ CursorChain

\* A step that commits no page and keeps the runs that have pages keeps History.
LEMMA HistoryFrame ==
    ASSUME Core, History, TypeOK', pages' = pages, lease.fence <= lease'.fence,
           runtime'.config = runtime.config, runtime'.cursor = runtime.cursor,
           \A q \in RunId : runs[q].state \in Begun =>
              /\ runs'[q].state \in Begun /\ runs'[q].generation = runs[q].generation
              /\ runs'[q].fence = runs[q].fence /\ runs'[q].pages = runs[q].pages
    PROVE  History'
<1>1. \A i \in 1 .. Len(pages) : pages[i] \in Page
  BY DEF Core, TypeOK
<1>2. ASSUME NEW i \in 1 .. Len(pages) PROVE PageFacts(i)'
  <2>1. PageFacts(i) /\ pages[i].run \in RunId /\ pages[i].fence \in Nat
    BY <1>1 DEF History, Page
  <2>2. lease.fence \in Nat /\ lease'.fence \in Nat
    BY DEF Core, TypeOK, Lease
  <2> QED BY <2>1, <2>2 DEF PageFacts
<1>3. ASSUME NEW i \in 1 .. Len(pages), NEW j \in 1 .. Len(pages), i < j PROVE PageOrder(i, j)'
  BY <1>3 DEF History, PageOrder
<1>4. CursorChain'
  BY DEF History, CursorChain
<1> QED BY <1>2, <1>3, <1>4 DEF History

\* Operators, the centre, Run now and the lease commit no page and keep History.
LEMMA HistoryControl ==
    ASSUME Core, History, RuntimeEnvironment \/ \E w \in Worker : Acquire(w)
    PROVE  History'
<1>t. TypeOK /\ TypeOK' /\ lease.fence \in Nat
  BY ControlTypes DEF Core, TypeOK, Lease
<1>1. CASE LeaseExpires
  <2>1. lease'.fence = lease.fence
    BY <1>1, <1>t DEF LeaseExpires, TypeOK, Lease
  <2> QED BY <1>t, <1>1, <2>1, HistoryFrame DEF LeaseExpires
<1>2. CASE ConfigurationExpires
  <2>1. runtime'.config = runtime.config /\ runtime'.cursor = runtime.cursor
    BY <1>2, <1>t DEF ConfigurationExpires, TypeOK, Runtime
  <2> QED BY <1>t, <1>2, <2>1, HistoryFrame DEF ConfigurationExpires
<1>3. ASSUME NEW v \in Config, SynchronizeConfiguration(v) PROVE History'
  <2>1. /\ runs' = runs /\ pages' = pages /\ lease' = lease
        /\ runtime.config < v /\ runtime.config \in Int /\ v \in Int
        /\ runtime'.config = v /\ runtime'.cursor = None
    BY <1>3, <1>t, ConfigAssumption DEF SynchronizeConfiguration, TypeOK, Runtime, Config
  <2>2. \A i \in 1 .. Len(pages) : pages[i].config \in Int /\ pages[i].config <= runtime.config
    <3>1. \A i \in 1 .. Len(pages) : pages[i] \in Page
      BY <1>t DEF TypeOK
    <3> QED BY <3>1, ConfigAssumption DEF History, PageFacts, Page, Config
  <2>3. ASSUME NEW i \in 1 .. Len(pages) PROVE PageFacts(i)'
    BY <2>1, <2>2 DEF History, PageFacts
  <2>4. \A i, j \in 1 .. Len(pages) : i < j => PageOrder(i, j)'
    BY <2>1 DEF History, PageOrder
  <2>5. CursorChain'
    <3>1. pages # <<>> => pages[Len(pages)].config # v
      <4>1. pages # <<>> => Len(pages) \in 1 .. Len(pages)
        BY <1>t DEF TypeOK
      <4> QED BY <2>1, <2>2, <4>1
    <3> QED BY <2>1, <3>1 DEF History, CursorChain
  <2> QED BY <2>1, <2>3, <2>4, <2>5 DEF History
<1>4. ASSUME NEW k \in ControlCommand, NEW type \in ControlType,
             NEW g \in 0 .. runtime.generation, NEW sameReason \in BOOLEAN,
             SubmitControl(k, type, g, sameReason)
      PROVE  History'
  <2>1. ControlTarget[type] \in OperatingState
    BY DEF ControlTarget, ControlType, OperatingState
  <2>2. runtime'.config = runtime.config /\ runtime'.cursor = runtime.cursor
    BY <1>4, <1>t, <2>1, MoveToRow DEF SubmitControl
  <2> QED BY <1>t, <1>4, <2>2, HistoryFrame DEF SubmitControl
<1>5. ASSUME NEW c \in RunCommand, JoinActiveRun(c) PROVE History'
  BY <1>t, <1>5, HistoryFrame DEF JoinActiveRun
<1>6. ASSUME NEW c \in RunCommand, NEW r \in RunId, RequestRunNow(c, r) PROVE History'
  <2>1. runs[r].state \notin Begun /\ \A q \in RunId : q # r => runs'[q] = runs[q]
    BY <1>t, <1>6 DEF RequestRunNow, Fresh, Begun, Terminal, TypeOK
  <2> QED BY <1>t, <1>6, <2>1, HistoryFrame DEF RequestRunNow
<1>7. ASSUME NEW w \in Worker, Acquire(w) PROVE History'
  <2>1. lease.fence <= lease'.fence
    BY <1>7, <1>t DEF Acquire, GrantedFence
  <2> QED BY <1>t, <1>7, <2>1, HistoryFrame DEF Acquire
<1> QED BY <1>1, <1>2, <1>3, <1>4, <1>5, <1>6, <1>7 DEF RuntimeEnvironment

\* A committed page continues the history: its fence is the lease's, its
\* generation the runtime's, and it starts where the last page ended.
LEMMA HistoryCommit ==
    ASSUME Core, History, TypeOK', NEW w \in Worker, NEW f \in Nat, NEW r \in RunId,
           NEW v \in Config, NEW from \in Cursor \cup {None}, NEW to \in Cursor \cup {None},
           NEW head \in BOOLEAN,
           CommitPage(w, f, [run |-> r, config |-> v, number |-> runs[r].pages + 1,
                             from |-> from, to |-> to, head |-> head])
    PROVE  History'
<1> DEFINE p == [run |-> r, config |-> v, number |-> runs[r].pages + 1,
                 from |-> from, to |-> to, head |-> head]
           row == [run |-> r, number |-> runs[r].pages + 1, from |-> from, to |-> to,
                   head |-> head, fence |-> f, config |-> v, generation |-> runtime.generation]
           L == Len(pages)
<1>1. /\ lease.fence = f /\ lease' = lease
      /\ runs[r].state = "running" /\ runs[r].fence = f /\ runs[r].config = v
      /\ runtime.state = "running" /\ runtime.cursor = from
      /\ runtime' = [runtime EXCEPT !.cursor = to]
      /\ runs' = [runs EXCEPT ![r] = WithPage(runs[r], p)]
      /\ pages' = Append(pages, row)
  BY DEF CommitPage, CommitAllowed, IsLive
<1>2. /\ pages \in Seq(Page) /\ L \in Nat /\ runs[r] \in Run /\ runs[r].pages \in Nat
      /\ \A i \in 1 .. L : pages[i] \in Page
  BY DEF Core, TypeOK, Run
<1>3. /\ \A i \in 1 .. L : ~(pages[i].run = r /\ pages[i].from = from)
      /\ runs[r].pages # 0 =>
           \E i \in 1 .. L : /\ pages[i].run = r /\ pages[i].number = runs[r].pages
                             /\ ~pages[i].head
  <2>1. ~PriorPage(p.run, p.from) /\ PageLineageAllowed(p)
    BY DEF CommitPage, CommitAllowed
  <2>2. p.run = r /\ p.from = from /\ p.number = runs[r].pages + 1
    OBVIOUS
  <2> HIDE DEF p
  <2>3. \A i \in 1 .. L : ~(pages[i].run = r /\ pages[i].from = from)
    BY <2>1, <2>2 DEF PriorPage
  <2>4. runs[r].pages # 0 =>
           \E i \in 1 .. L : /\ pages[i].run = r /\ pages[i].number = runs[r].pages
                             /\ ~pages[i].head
    <3>1. p.number # 1 =>
             \E i \in 1 .. L : /\ pages[i].run = p.run /\ pages[i].number = p.number - 1
                               /\ ~pages[i].head
      BY <2>1, Zenon DEF PageLineageAllowed
    <3> QED BY <1>2, <2>2, <3>1
  <2> QED BY <2>3, <2>4
<1>4. row \in Page
  BY <1>2 DEF Core, TypeOK, Page, Runtime
<1>5. /\ Len(pages') = L + 1 /\ pages'[L + 1] = row
      /\ \A i \in 1 .. L : pages'[i] = pages[i]
  BY <1>1, <1>2, <1>4
<1>6. /\ runs'[r].state = "running" /\ runs'[r].generation = runs[r].generation
      /\ runs'[r].fence = runs[r].fence /\ runs'[r].pages = runs[r].pages + 1
      /\ \A q \in RunId : q # r => runs'[q] = runs[q]
  <2>1. runs'[r] = WithPage(runs[r], p) /\ p.head \in BOOLEAN
    BY <1>1 DEF Core, TypeOK
  <2>2. \A q \in RunId : q # r => runs'[q] = runs[q]
    BY <1>1 DEF Core, TypeOK
  <2> HIDE DEF p
  <2> QED BY <1>1, <1>2, <2>1, <2>2, WithPageRow
<1>7. /\ runtime'.config = runtime.config /\ runtime'.cursor = to
      /\ runtime.config \in Int /\ lease.fence \in Nat
  BY <1>1, ConfigAssumption DEF Core, TypeOK, Runtime, Config, Lease
<1>8. runs[r].generation = runtime.generation /\ v = runtime.config
  BY <1>1 DEF Core, RunningIsBacked, ActiveRunAligned, Active, ActiveState
<1>9. \A i \in 1 .. L : /\ PageFacts(i) /\ pages[i].run \in RunId /\ pages[i].number \in Nat
                        /\ pages[i].fence \in Nat /\ pages[i].config \in Int
  <2>1. \A i \in 1 .. L : PageFacts(i)
    BY DEF History
  <2>2. Config \subseteq Int
    BY ConfigAssumption DEF Config
  <2> QED BY <1>2, <2>1, <2>2 DEF Page
<1> HIDE DEF p, row
<1>r. /\ row.run = r /\ row.number = runs[r].pages + 1 /\ row.from = from /\ row.to = to
      /\ row.fence = f /\ row.config = v /\ row.generation = runtime.generation
  BY DEF row
<1>10. ASSUME NEW i \in 1 .. L + 1 PROVE PageFacts(i)'
  <2>1. CASE i = L + 1
    BY <1>1, <1>2, <1>5, <1>6, <1>7, <1>8, <1>r, <2>1 DEF PageFacts, Begun
  <2>2. CASE i \in 1 .. L
    <3>1. PageFacts(i) /\ pages'[i] = pages[i] /\ pages[i].run \in RunId
          /\ pages[i].number \in Nat
      BY <1>5, <1>9, <2>2
    <3>2. CASE pages[i].run = r
      BY <1>1, <1>2, <1>6, <1>7, <3>1, <3>2 DEF PageFacts, Begun
    <3>3. CASE pages[i].run # r
      BY <1>1, <1>6, <1>7, <3>1, <3>3 DEF PageFacts
    <3> QED BY <3>2, <3>3
  <2> QED BY <1>2, <2>1, <2>2
<1>11. \A i \in 1 .. L : pages[i].run = r => ~pages[i].head
  <2> SUFFICES ASSUME NEW i \in 1 .. L, pages[i].run = r PROVE ~pages[i].head
    OBVIOUS
  <2>1. 1 <= pages[i].number /\ pages[i].number <= runs[r].pages
    BY <1>9 DEF PageFacts
  <2>2. PICK k \in 1 .. L : /\ pages[k].run = r /\ pages[k].number = runs[r].pages
                            /\ ~pages[k].head
    BY <1>3, <1>2, <1>9, <2>1
  <2>3. i < k => ~pages[i].head
    BY <2>2 DEF History, PageOrder
  <2>4. ~(k < i)
    <3> SUFFICES ASSUME k < i PROVE FALSE
      OBVIOUS
    <3>1. pages[k].number < pages[i].number
      BY <2>2 DEF History, PageOrder
    <3> QED BY <1>2, <1>9, <2>1, <2>2, <3>1
  <2> QED BY <2>2, <2>3, <2>4
<1>12. ASSUME NEW i \in 1 .. L + 1, NEW j \in 1 .. L + 1, i < j PROVE PageOrder(i, j)'
  <2>1. CASE j = L + 1
    <3>1. i \in 1 .. L
      BY <1>2, <1>12, <2>1
    <3>2. PageFacts(i) /\ pages'[i] = pages[i] /\ pages'[j] = row
      BY <1>5, <1>9, <2>1, <3>1
    <3>3. pages[i].fence <= row.fence
      BY <1>1, <1>9, <1>r, <3>1, <3>2 DEF PageFacts
    <3>4. ASSUME pages[i].run = row.run
          PROVE  pages[i].number < row.number /\ pages[i].from # row.from /\ ~pages[i].head
      BY <1>1, <1>3, <1>2, <1>9, <1>11, <1>r, <3>1, <3>2, <3>4 DEF PageFacts
    <3> QED BY <3>2, <3>3, <3>4 DEF PageOrder
  <2>2. CASE j \in 1 .. L
    <3>1. i \in 1 .. L /\ pages'[i] = pages[i] /\ pages'[j] = pages[j]
      BY <1>2, <1>5, <1>12, <2>2
    <3> QED BY <1>12, <2>2, <3>1 DEF History, PageOrder
  <2> QED BY <1>2, <2>1, <2>2
<1>13. CursorChain'
  <2>1. pages' # <<>> /\ pages'[Len(pages')].config = runtime'.config
        /\ pages'[Len(pages')].to = runtime'.cursor
    BY <1>2, <1>5, <1>7, <1>8, <1>r
  <2>2. ASSUME NEW i \in 1 .. L + 1
        PROVE  pages'[i].from = IF i > 1 /\ pages'[i - 1].config = pages'[i].config
                                THEN pages'[i - 1].to ELSE None
    <3>1. CASE i \in 1 .. L
      <4>1. pages'[i] = pages[i] /\ (i > 1 => pages'[i - 1] = pages[i - 1])
        BY <1>2, <1>5, <3>1
      <4> QED BY <3>1, <4>1 DEF History, CursorChain
    <3>2. CASE i = L + 1
      <4>1. pages'[i] = row /\ row.from = runtime.cursor /\ row.config = runtime.config
        BY <1>1, <1>5, <1>8, <1>r, <3>2
      <4>2. CASE L = 0
        <5>1. pages = <<>> /\ ~(i > 1)
          BY <1>2, <3>2, <4>2
        <5> QED BY <4>1, <5>1 DEF History, CursorChain
      <4>3. CASE L # 0
        <5>1. i > 1 /\ i - 1 = L /\ pages # <<>> /\ pages'[i - 1] = pages[L]
          BY <1>2, <1>5, <3>2, <4>3
        <5> QED BY <4>1, <5>1 DEF History, CursorChain
      <4> QED BY <4>2, <4>3
    <3> QED BY <1>2, <3>1, <3>2
  <2> QED BY <1>5, <2>1, <2>2 DEF CursorChain
<1> QED BY <1>5, <1>10, <1>12, <1>13 DEF History

\* The transactions of the lease holder keep History.
LEMMA HistoryWorker ==
    ASSUME Core, History, NEW w \in Worker, NEW f \in 0 .. lease.fence, WorkerTransaction(w, f)
    PROVE  History'
<1>t. TypeOK /\ TypeOK' /\ f \in Nat /\ lease.fence \in Nat
  BY WorkerTypes DEF Core, TypeOK, Lease
<1>r. \A q \in RunId : runs[q] \in Run
  BY <1>t DEF TypeOK
<1>1. CASE Release(w, f)
  <2>1. lease'.fence = lease.fence
    BY <1>t, <1>1 DEF Release, TypeOK, Lease
  <2> QED BY <1>t, <1>1, <2>1, HistoryFrame DEF Release
<1>2. ASSUME NEW c \in RunCommand, NEW r \in RunId, NEW v \in Config, Start(w, f, c, r, v)
      PROVE  History'
  <2>1. runs[r].state \notin Begun /\ \A q \in RunId : q # r => runs'[q] = runs[q]
    BY <1>t, <1>2 DEF Start, StartAllowed, Begun, Terminal, TypeOK
  <2>2. runtime'.config = runtime.config /\ runtime'.cursor = runtime.cursor
    BY <1>t, <1>2, MoveToRow DEF Start, OperatingState
  <2> QED BY <1>t, <1>2, <2>1, <2>2, HistoryFrame DEF Start
<1>3. ASSUME NEW r \in RunId, RecoverIneligible(w, f, r) PROVE History'
  <2>1. /\ runs'[r] = Interrupted(runs[r], "ineligible")
        /\ \A q \in RunId : q # r => runs'[q] = runs[q]
    BY <1>t, <1>3 DEF RecoverIneligible, TypeOK
  <2>2. /\ runs'[r].state \in Begun /\ runs'[r].generation = runs[r].generation
        /\ runs'[r].fence = runs[r].fence /\ runs'[r].pages = runs[r].pages
    BY <1>t, <1>r, <2>1, InterruptedRow DEF Begun, Terminal
  <2>3. runtime'.config = runtime.config /\ runtime'.cursor = runtime.cursor
    BY <1>t, <1>3, MoveToRow DEF RecoverIneligible, OperatingState
  <2> QED BY <1>t, <1>3, <2>1, <2>2, <2>3, HistoryFrame DEF RecoverIneligible
<1>4. ASSUME NEW r \in RunId, NEW n \in RunId, Recover(w, f, r, n) PROVE History'
  <2>1. /\ runs[n].state \notin Begun /\ n # r
        /\ runs'[r] = Interrupted(runs[r], "lease_expired")
        /\ \A q \in RunId \ {r, n} : runs'[q] = runs[q]
    BY <1>t, <1>4 DEF Recover, Fresh, Begun, Terminal, TypeOK
  <2>2. /\ runs'[r].state \in Begun /\ runs'[r].generation = runs[r].generation
        /\ runs'[r].fence = runs[r].fence /\ runs'[r].pages = runs[r].pages
    BY <1>t, <1>r, <2>1, InterruptedRow DEF Begun, Terminal
  <2>3. \A q \in RunId : runs[q].state \in Begun =>
           /\ runs'[q].state \in Begun /\ runs'[q].generation = runs[q].generation
           /\ runs'[q].fence = runs[q].fence /\ runs'[q].pages = runs[q].pages
    BY <2>1, <2>2
  <2>4. pages' = pages /\ lease' = lease /\ runtime' = runtime
    BY <1>4 DEF Recover
  <2> QED BY <1>t, <2>3, <2>4, HistoryFrame
<1>5. ASSUME NEW r \in RunId, NEW outcome \in Terminal, Finish(w, f, r, outcome)
      PROVE  History'
  <2>1. /\ runs'[r] = Finished(runs[r], outcome)
        /\ \A q \in RunId : q # r => runs'[q] = runs[q]
    BY <1>t, <1>5 DEF Finish, TypeOK
  <2>2. /\ runs'[r].state \in Begun /\ runs'[r].generation = runs[r].generation
        /\ runs'[r].fence = runs[r].fence /\ runs'[r].pages = runs[r].pages
    BY <1>t, <1>r, <2>1, FinishedRow DEF Begun, Terminal
  <2>3. runtime'.config = runtime.config /\ runtime'.cursor = runtime.cursor
    BY <1>t, <1>5, MoveToRow DEF Finish, OperatingState
  <2> QED BY <1>t, <1>5, <2>1, <2>2, <2>3, HistoryFrame DEF Finish
<1>6. ASSUME NEW r \in RunId, NEW phase \in Phase, HeadStep(w, f, r, phase) PROVE History'
  BY <1>t, <1>6, HistoryFrame DEF HeadStep
<1>7. ASSUME NEW r \in RunId, NEW v \in Config, NEW from \in Cursor \cup {None},
             NEW to \in Cursor \cup {None}, NEW head \in BOOLEAN,
             CommitPage(w, f, [run |-> r, config |-> v, number |-> runs[r].pages + 1,
                               from |-> from, to |-> to, head |-> head])
      PROVE  History'
  BY <1>t, <1>7, HistoryCommit
<1> QED
  BY VersionInConfig, <1>1, <1>2, <1>3, <1>4, <1>5, <1>6, <1>7 DEF WorkerTransaction

\* Core and History together are inductive.
LEMMA HistoryInvariant == RuntimeSpec => [](Core /\ History)
<1>1. RuntimeInit => History
  BY DEF RuntimeInit, History, CursorChain
<1>2. Core /\ History /\ [RuntimeNext]_rvars => History'
  <2> SUFFICES ASSUME Core, History, [RuntimeNext]_rvars PROVE History'
    OBVIOUS
  <2>1. CASE UNCHANGED rvars
    <3>1. TypeOK' /\ lease.fence \in Nat
      BY <2>1 DEF rvars, Core, TypeOK, Lease
    <3> QED BY <2>1, <3>1, HistoryFrame DEF rvars
  <2> QED BY <2>1, HistoryControl, HistoryWorker DEF RuntimeNext
<1> QED BY <1>1, <1>2, CoreInvariant, PTL DEF RuntimeSpec

\* Within a configuration version the committed pages form one gap-free chain
\* of cursors, and the runtime's cursor is its end.
THEOREM CursorChainAlways == RuntimeSpec => []CursorChain
<1>1. History => CursorChain
  BY DEF History
<1> QED BY <1>1, HistoryInvariant, PTL

\* Every page was committed in the generation in which its lineage was started.
THEOREM PauseIsFinalAlways == RuntimeSpec => []PauseIsFinal
<1>1. History => PauseIsFinal
  BY DEF History, PageFacts, PauseIsFinal
<1> QED BY <1>1, HistoryInvariant, PTL

\* Pages are committed in fence order, each under its run's fence.
THEOREM FencedPagesAlways == RuntimeSpec => []FencedPages
<1>1. History => FencedPages
  BY DEF History, PageFacts, PageOrder, FencedPages
<1> QED BY <1>1, HistoryInvariant, PTL

\* A run never commits an input cursor twice and commits nothing after its head.
THEOREM NoCursorRevisitAlways == RuntimeSpec => []NoCursorRevisit
<1>1. History => NoCursorRevisit
  BY DEF History, PageOrder, NoCursorRevisit
<1> QED BY <1>1, HistoryInvariant, PTL

-----------------------------------------------------------------------------
(* What a step may never do.                                               *)

\* Only rows that are new or active are ever written.
LEMMA DecidedStep ==
    ASSUME TypeOK, RuntimeNext
    PROVE  DecidedKept
<1>1. CASE RuntimeEnvironment \/ \E w \in Worker : Acquire(w)
  <2>1. ASSUME NEW k \in ControlCommand, NEW type \in ControlType,
               NEW g \in 0 .. runtime.generation, NEW sameReason \in BOOLEAN,
               SubmitControl(k, type, g, sameReason)
        PROVE  DecidedKept
    BY <2>1 DEF SubmitControl, DecidedKept, TypeOK
  <2>2. ASSUME NEW c \in RunCommand, JoinActiveRun(c) PROVE DecidedKept
    BY <2>2 DEF JoinActiveRun, CommandTransitionAllowed, DecidedKept
  <2>3. ASSUME NEW c \in RunCommand, NEW r \in RunId, RequestRunNow(c, r) PROVE DecidedKept
    BY <2>3 DEF RequestRunNow, RunNowAdmitted, Fresh, DecidedKept, TypeOK, Terminal
  <2>4. CASE runs' = runs /\ commands' = commands
    BY <2>4 DEF DecidedKept
  <2> QED BY <1>1, <2>1, <2>2, <2>3, <2>4
      DEF RuntimeEnvironment, LeaseExpires, ConfigurationExpires, SynchronizeConfiguration, Acquire
<1>2. ASSUME NEW w \in Worker, NEW f \in 0 .. lease.fence, WorkerTransaction(w, f)
      PROVE  DecidedKept
  <2>1. ASSUME NEW c \in RunCommand, NEW r \in RunId, NEW v \in Config, Start(w, f, c, r, v)
        PROVE  DecidedKept
    BY <2>1 DEF Start, StartAllowed, DecidedKept, TypeOK, Terminal
  <2>2. ASSUME NEW r \in RunId, RecoverIneligible(w, f, r) PROVE DecidedKept
    BY <2>2 DEF RecoverIneligible, DecidedKept, TypeOK, Terminal
  <2>3. ASSUME NEW r \in RunId, NEW n \in RunId, Recover(w, f, r, n) PROVE DecidedKept
    BY <2>3 DEF Recover, Fresh, DecidedKept, TypeOK, Terminal
  <2>4. ASSUME NEW r \in RunId, NEW outcome \in Terminal, Finish(w, f, r, outcome)
        PROVE  DecidedKept
    BY <2>4 DEF Finish, FinishAllowed, DecidedKept, TypeOK, Terminal
  <2>5. ASSUME NEW p, p.run \in RunId, CommitPage(w, f, p) PROVE DecidedKept
    BY <2>5 DEF CommitPage, CommitAllowed, DecidedKept, TypeOK, Terminal
  <2>6. CASE runs' = runs /\ commands' = commands
    BY <2>6 DEF DecidedKept
  <2>7. ASSUME NEW r \in RunId, NEW v \in Config, NEW from \in Cursor \cup {None},
               NEW to \in Cursor \cup {None}, NEW head \in BOOLEAN,
               CommitPage(w, f, [run |-> r, config |-> v, number |-> runs[r].pages + 1,
                                 from |-> from, to |-> to, head |-> head])
        PROVE  DecidedKept
    <3> DEFINE p == [run |-> r, config |-> v, number |-> runs[r].pages + 1,
                     from |-> from, to |-> to, head |-> head]
    <3>1. p.run \in RunId /\ CommitPage(w, f, p)
      BY <2>7
    <3> HIDE DEF p
    <3> QED BY <2>5, <3>1
  <2> QED BY VersionInConfig, <1>2, <2>1, <2>2, <2>3, <2>4, <2>6, <2>7 DEF WorkerTransaction, Release, HeadStep
<1> QED BY <1>1, <1>2 DEF RuntimeNext

\* A finished attempt and a decided command are never written again.
THEOREM DecidedIsFinalAlways == RuntimeSpec => DecidedIsFinal
<1>1. TypeOK /\ [RuntimeNext]_rvars => [DecidedKept]_rvars
  BY DecidedStep
<1> QED BY <1>1, TypeCorrect, PTL DEF RuntimeSpec, DecidedIsFinal

\* The operating state moves along the matrix, as the actor that moves it.
LEMMA MatrixStep ==
    ASSUME TypeOK, RuntimeNext
    PROVE  MatrixFollowed
<1>k. (\A k \in ControlCommand : commands'[k] = commands[k]) => Actor = "runner"
  BY DEF Actor
<1>r. runtime.state \in OperatingState
  BY DEF TypeOK, Runtime
<1>0. ASSUME runtime'.state = runtime.state, runtime'.generation = runtime.generation
      PROVE  MatrixFollowed
  BY <1>0 DEF MatrixFollowed
<1>1. CASE RuntimeEnvironment \/ \E w \in Worker : Acquire(w)
  <2>1. ASSUME NEW k \in ControlCommand, NEW type \in ControlType,
               NEW g \in 0 .. runtime.generation, NEW sameReason \in BOOLEAN,
               SubmitControl(k, type, g, sameReason)
        PROVE  MatrixFollowed
    <3>1. CASE ControlApplies(type, g)
      <4>1. ControlTarget[type] \in OperatingState
        BY DEF ControlTarget, ControlType, OperatingState
      <4>2. runtime'.state = ControlTarget[type] /\ runtime'.generation = NextGeneration
        BY <2>1, <3>1, <4>1, MoveToRow DEF SubmitControl
      <4>3. commands'[k] # commands[k]
        <5>1. ControlState(type, g, sameReason) # "none"
          BY DEF ControlState
        <5>2. commands'[k].state = ControlState(type, g, sameReason)
          BY <2>1 DEF SubmitControl, TypeOK, Command
        <5> QED BY <2>1, <5>1, <5>2 DEF SubmitControl
      <4>4. Actor = "operator"
        BY <4>3 DEF Actor
      <4>5. runtime.state # ControlTarget[type]
        BY <3>1 DEF ControlApplies, TransitionMatrix
      <4> QED BY <3>1, <4>2, <4>4, <4>5 DEF MatrixFollowed, ControlApplies
    <3>2. CASE ~ControlApplies(type, g)
      BY <1>0, <2>1, <3>2 DEF SubmitControl
    <3> QED BY <3>1, <3>2
  <2>2. CASE runtime' = runtime
    BY <1>0, <2>2
  <2>3. CASE ConfigurationExpires
    BY <1>0, <2>3 DEF ConfigurationExpires, TypeOK, Runtime
  <2>4. ASSUME NEW v \in Config, SynchronizeConfiguration(v) PROVE MatrixFollowed
    BY <1>0, <2>4 DEF SynchronizeConfiguration, TypeOK, Runtime
  <2> QED BY <1>1, <2>1, <2>2, <2>3, <2>4
      DEF RuntimeEnvironment, LeaseExpires, JoinActiveRun, RequestRunNow, Acquire
<1>2. ASSUME NEW w \in Worker, NEW f \in 0 .. lease.fence, WorkerTransaction(w, f)
      PROVE  MatrixFollowed
  <2>1. ASSUME NEW c \in RunCommand, NEW r \in RunId, NEW v \in Config, Start(w, f, c, r, v)
        PROVE  MatrixFollowed
    <3>1. \A k \in ControlCommand : commands'[k] = commands[k]
      BY <2>1, CommandAssumption DEF Start, TypeOK, Command
    <3>2. runtime.state = "idle" /\ runtime'.state = "running"
          /\ runtime'.generation = NextGeneration
      BY <2>1, MoveToRow DEF Start, StartAllowed, OperatingState
    <3> QED BY <1>k, <3>1, <3>2 DEF MatrixFollowed, TransitionMatrix
  <2>2. ASSUME NEW s \in {"idle", "error"}, commands' = commands,
               runtime' = (IF runtime.state = "running" THEN MoveTo(s) ELSE runtime)
        PROVE  MatrixFollowed
    <3>1. CASE runtime.state = "running"
      <4>1. runtime'.state = s /\ runtime'.generation = NextGeneration
        BY <2>2, <3>1, MoveToRow DEF OperatingState
      <4> QED BY <1>k, <2>2, <3>1, <4>1 DEF MatrixFollowed, TransitionMatrix
    <3>2. CASE runtime.state # "running"
      BY <1>0, <2>2, <3>2
    <3> QED BY <3>1, <3>2
  <2>3. ASSUME NEW r \in RunId, RecoverIneligible(w, f, r) PROVE MatrixFollowed
    BY <2>2, <2>3 DEF RecoverIneligible
  <2>4. ASSUME NEW r \in RunId, NEW outcome \in Terminal, Finish(w, f, r, outcome)
        PROVE  MatrixFollowed
    BY <2>2, <2>4 DEF Finish
  <2>5. ASSUME NEW p, CommitPage(w, f, p) PROVE MatrixFollowed
    BY <1>0, <2>5 DEF CommitPage, TypeOK, Runtime
  <2>6. CASE runtime' = runtime
    BY <1>0, <2>6
  <2>7. ASSUME NEW r \in RunId, NEW v \in Config, NEW from \in Cursor \cup {None},
               NEW to \in Cursor \cup {None}, NEW head \in BOOLEAN,
               CommitPage(w, f, [run |-> r, config |-> v, number |-> runs[r].pages + 1,
                                 from |-> from, to |-> to, head |-> head])
        PROVE  MatrixFollowed
    <3> DEFINE p == [run |-> r, config |-> v, number |-> runs[r].pages + 1,
                     from |-> from, to |-> to, head |-> head]
    <3>1. CommitPage(w, f, p)
      BY <2>7
    <3> HIDE DEF p
    <3> QED BY <2>5, <3>1
  <2> QED BY VersionInConfig, <1>2, <2>1, <2>3, <2>4, <2>6, <2>7 DEF WorkerTransaction, Release, Recover, HeadStep
<1> QED BY <1>1, <1>2 DEF RuntimeNext

\* Every change of the operating state is an edge of the matrix for the actor that
\* makes it, under the next generation; nothing else touches the generation.
THEOREM TransitionsFollowMatrixAlways == RuntimeSpec => TransitionsFollowMatrix
<1>1. TypeOK /\ [RuntimeNext]_rvars => [MatrixFollowed]_rvars
  BY MatrixStep
<1> QED BY <1>1, TypeCorrect, PTL DEF RuntimeSpec, TransitionsFollowMatrix
=============================================================================

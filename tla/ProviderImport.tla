--------------------------- MODULE ProviderImport ---------------------------
(***************************************************************************)
(* The manual import executors of the workers over one provider database.  *)
(*                                                                         *)
(* An execution is a sequence of transactions of ProviderRuntime with      *)
(* reads and source requests between them: everything a worker holds in    *)
(* between (the command and configuration it read before it had the lease, *)
(* its fence, checkpoint and fetched page) may be stale when it is used.   *)
(* A worker may crash and restart under the same identity, and any         *)
(* transaction may throw, before it commits or after.                      *)
(***************************************************************************)
EXTENDS ProviderRuntime

CONSTANTS Capable,     \* version -> workers whose build has the adapter it names
          MaxPages,    \* PROVIDER_MANUAL_IMPORT_MAXIMUM_PAGES
          MaxPolls,    \* fence up to which polls without work are explored
          MaxFaults    \* bound on expiries, crashes, exceptions and aborts

ASSUME ImportAssumption == /\ Capable \in [1 .. MaxConfig -> SUBSET Worker]
                           /\ MaxPages \in Nat /\ MaxPolls \in Nat /\ MaxFaults \in Nat

VARIABLES worker,  \* the local state of each executor
          faults   \* disturbances so far

vars == <<rvars, worker, faults>>

-----------------------------------------------------------------------------
Location == {"idle", "snapshot", "incapable", "acquire", "recover", "start",
             "renew", "fetch", "commit", "match", "head", "reconcile", "confirm",
             "finish", "fail", "release", "progress", "terminalize"}

\* `run` is what the execution works on, once known; `number` the next page's.
IdleWorker == [at |-> "idle", command |-> None, config |-> 0, fence |-> 0,
               run |-> None, cursor |-> None, number |-> 0, to |-> None, head |-> FALSE]

WorkerType == [at : Location, command : RunCommand \cup {None}, config : Config,
               fence : Nat, run : RunId \cup {None}, cursor : Cursor \cup {None},
               number : 0 .. MaxPages + 1, to : Cursor \cup {None}, head : BOOLEAN]

\* The executors' variables have their types, and no execution works on a page
\* beyond the page limit.
ImportTypeOK ==
    /\ worker \in [Worker -> WorkerType]
    /\ faults \in Nat

Init == RuntimeInit /\ worker = [w \in Worker |-> IdleWorker] /\ faults = 0

Return(w) == worker' = [worker EXCEPT ![w] = IdleWorker]

\* The local variables `s` of an execution that are still read after it moves to
\* `at`: on the ways out only the fence, the run and the page count.
Live(s, at) ==
    IF at \in {"head", "reconcile", "confirm", "progress"}
    THEN [IdleWorker EXCEPT !.at = at, !.fence = s.fence, !.run = s.run, !.number = s.number]
    ELSE IF at \in {"finish", "fail"}
    THEN [IdleWorker EXCEPT !.at = at, !.fence = s.fence, !.run = s.run]
    ELSE IF at = "release"
    THEN [IdleWorker EXCEPT !.at = at, !.fence = s.fence]
    ELSE [s EXCEPT !.at = at]

Continue(w, s, at) == worker' = [worker EXCEPT ![w] = Live(s, at)]
Goto(w, at) == Continue(w, worker[w], at)

\* A step that only moves the worker.
Local == UNCHANGED <<rvars, faults>>

-----------------------------------------------------------------------------
(* Reads before the lease.                                                 *)

Claimable == /\ \E r \in RunId : runs[r].state = "queued"
             /\ runtime.state = "idle" /\ ~runtime.expired
             /\ runtime.config # 0 /\ Capable[runtime.config] # {}
Attempted == \E r \in RunId : runs[r].state = "running"

\* nextAccepted.  MaxPolls bounds the polls that would find neither a run to
\* claim nor an attempt to continue: each of them takes a fence.
ReadCommand(w) ==
    /\ worker[w].at \in {"idle", "progress"}
    /\ lease.fence < MaxPolls \/ Claimable \/ Attempted
    /\ \E c \in RunCommand \cup {None} :
         /\ IF c = None THEN \A d \in RunCommand : commands[d].state # "accepted"
                        ELSE commands[c].state = "accepted"
         /\ worker' = [worker EXCEPT ![w] = [IdleWorker EXCEPT !.at = "snapshot", !.command = c]]
    /\ Local

\* capabilityFailure is null: there is a configuration and an adapter for it.
Supports(w, v) == v # 0 /\ w \in Capable[v]

\* The runtime snapshot, and the capability check on the configuration in it.
ReadRuntime(w) ==
    /\ worker[w].at = "snapshot"
    /\ worker' = [worker EXCEPT ![w].config = runtime.config,
                    ![w].at = IF Supports(w, runtime.config) THEN "acquire" ELSE "incapable"]
    /\ Local

\* Without an adapter only a running attempt justifies taking the lease.
ReadActive(w) ==
    /\ worker[w].at = "incapable"
    /\ IF Attempted THEN Goto(w, "acquire") ELSE Return(w)
    /\ Local

AcquireHeld(w) ==
    /\ worker[w].at = "acquire" /\ Held(w)
    /\ Return(w)
    /\ Local

\* Variant: another owner's live lease is taken over as well.
AcquireStolen(w) ==
    /\ worker[w].at = "acquire"
    /\ lease.fence < MaxFence
    /\ lease' = [owner |-> w, fence |-> lease.fence + 1, live |-> TRUE]
    /\ worker' = [worker EXCEPT ![w].fence = lease.fence + 1, ![w].at = "recover"]
    /\ UNCHANGED <<runtime, runs, commands, pages, receipts, reply, faults>>

AcquireGranted(w) ==
    /\ worker[w].at = "acquire"
    /\ Acquire(w)
    /\ worker' = [worker EXCEPT ![w].fence = GrantedFence, ![w].at = "recover"]
    /\ UNCHANGED faults

-----------------------------------------------------------------------------
(* Recovery and start.                                                     *)

\* Where an execution goes with run r, whose row is `row`, in hand.
Enter(row) == IF row.state # "running" THEN "release"
              ELSE IF row.head THEN "head" ELSE "renew"

\* Where it goes after recoverActive returned an attempt to continue: without an
\* adapter the attempt is failed; a command read earlier is still started.
AfterRecovery(w, row) ==
    IF ~Supports(w, worker[w].config) THEN "fail"
    ELSE IF worker[w].command # None THEN "start" ELSE Enter(row)

\* recoverActive finds no running attempt, or the lease is gone.
RecoverNothing(w) ==
    /\ worker[w].at = "recover"
    /\ ~IsLive(w, worker[w].fence) \/ ~Attempted
    /\ Goto(w, IF /\ IsLive(w, worker[w].fence)
                  /\ Supports(w, worker[w].config)
                  /\ worker[w].command # None
               THEN "start" ELSE "release")
    /\ Local

\* Variant: the attempt is taken on from the cursor it was requested with.
TakeAttemptFromRequest(w, r, row) ==
    Continue(w, [worker[w] EXCEPT !.run = r, !.cursor = row.requested,
                                  !.number = row.pages + 1],
             AfterRecovery(w, row))

\* The worker takes run r, whose row is `row`, on from the committed cursor.
TakeAttempt(w, r, row) ==
    Continue(w, [worker[w] EXCEPT !.run = r, !.cursor = runtime.cursor,
                                  !.number = row.pages + 1],
             AfterRecovery(w, row))

\* "resumed": the attempt already carries this fence.
RecoverResumed(w) ==
    /\ worker[w].at = "recover"
    /\ IsLive(w, worker[w].fence)
    /\ \E r \in RunId :
         /\ runs[r].state = "running" /\ Eligible(r) /\ runs[r].fence = worker[w].fence
         /\ TakeAttempt(w, r, runs[r])
    /\ Local

\* "recovered": a new attempt under this fence.
RecoverAttempt(w) ==
    /\ worker[w].at = "recover"
    /\ \E r, n \in RunId :
         Recover(w, worker[w].fence, r, n) /\ TakeAttempt(w, n, runs'[n])
    /\ UNCHANGED faults

\* Variant: an attempt that may not go on is left as it is.
RecoverIgnored(w) ==
    /\ worker[w].at = "recover"
    /\ IsLive(w, worker[w].fence)
    /\ \E r \in RunId : runs[r].state = "running" /\ ~Eligible(r)
    /\ Goto(w, "release")
    /\ Local

\* runtime_unavailable, config_mismatch or config_expired.
RecoverRefused(w) ==
    /\ worker[w].at = "recover"
    /\ \E r \in RunId : RecoverIneligible(w, worker[w].fence, r)
    /\ Goto(w, "release")
    /\ UNCHANGED faults

\* The queued run that a started command names, with the snapshot's configuration.
CommandRun(w) == commands[worker[w].command].run

\* The execution goes on with the run that start returned: from its requested
\* cursor, or, after a recovery, still from the recovery's checkpoint.
TakeStarted(w, r, row) ==
    Continue(w, [worker[w] EXCEPT !.run = r, !.number = row.pages + 1, !.command = None,
                                  !.cursor = IF worker[w].run = None THEN row.requested ELSE @],
             Enter(row))

\* "started": the queued run is claimed.
StartRun(w) ==
    LET r == CommandRun(w) IN
    /\ worker[w].at = "start"
    /\ Start(w, worker[w].fence, worker[w].command, r, worker[w].config)
    /\ TakeStarted(w, r, runs'[r])
    /\ UNCHANGED faults

\* "deduplicated": another execution has already claimed the run this command
\* queued; the execution goes on with that run, whatever its state.
StartDeduplicated(w) ==
    LET r == CommandRun(w) IN
    /\ worker[w].at = "start"
    /\ IsLive(w, worker[w].fence)
    /\ runs[r].config = worker[w].config /\ runs[r].state # "queued"
    /\ TakeStarted(w, r, runs[r])
    /\ Local

\* lease_lost, idempotency_conflict, runtime_unavailable, config_mismatch and
\* config_expired all end the execution.
StartRefused(w) ==
    LET r == CommandRun(w) IN
    /\ worker[w].at = "start"
    /\ \/ ~IsLive(w, worker[w].fence)
       \/ runs[r].config # worker[w].config
       \/ /\ runs[r].state = "queued"
          /\ ~StartAllowed(worker[w].command, r, worker[w].config)
    /\ Goto(w, "release")
    /\ Local

-----------------------------------------------------------------------------
(* The page loop.                                                          *)

\* Renewal before each source request; the page limit ends the run.
RenewForPage(w) ==
    /\ worker[w].at = "renew"
    /\ Goto(w, IF worker[w].number > MaxPages THEN "fail"
               ELSE IF IsLive(w, worker[w].fence) THEN "fetch" ELSE "release")
    /\ Local

\* The source answers the checkpoint with any valid page.
FetchPage(w) ==
    /\ worker[w].at = "fetch"
    /\ \E to \in Cursor \cup {None}, head \in BOOLEAN :
         /\ ValidPage([from |-> worker[w].cursor, to |-> to, head |-> head])
         /\ worker' = [worker EXCEPT ![w].to = to, ![w].head = head, ![w].at = "commit"]
    /\ Local

FetchedPage(w) ==
    [run |-> worker[w].run, config |-> worker[w].config, number |-> worker[w].number,
     from |-> worker[w].cursor, to |-> worker[w].to, head |-> worker[w].head]

\* After a committed head page comes the head work, or, when the page's time
\* is almost up, a return that keeps the lease for the next call ("progress").
CommitFetched(w) ==
    /\ worker[w].at = "commit"
    /\ CommitPage(w, worker[w].fence, FetchedPage(w))
    /\ \E at \in IF worker[w].head THEN {"head", "progress"} ELSE {"match"} :
         Continue(w, [worker[w] EXCEPT !.cursor = worker[w].to, !.number = @ + 1,
                                       !.to = None, !.head = FALSE], at)
    /\ UNCHANGED faults

\* Any other answer fails the run.
CommitRefused(w) ==
    /\ worker[w].at = "commit"
    /\ ~CommitAllowed(w, worker[w].fence, FetchedPage(w))
    /\ Goto(w, "fail")
    /\ Local

\* The opportunistic reference batch after a page renews the lease (unless the
\* page has nothing to match).  executeNext then goes on; executeNextPage
\* returns with the lease kept, or fails at the page limit.
MatchReferences(w) ==
    /\ worker[w].at = "match"
    /\ \E at \in {"renew"}
                 \cup (IF worker[w].number <= MaxPages THEN {"progress"} ELSE {})
                 \cup (IF IsLive(w, worker[w].fence) THEN {} ELSE {"release"}) : Goto(w, at)
    /\ Local

-----------------------------------------------------------------------------
(* Head work, failure and the end of an execution.                         *)

RenewForHead(w) ==
    /\ worker[w].at = "head"
    /\ Goto(w, IF IsLive(w, worker[w].fence) THEN "reconcile" ELSE "release")
    /\ Local

\* A batch ran; "complete" leads to finish, "progress" to a check of the run.
ReconcileBatch(w) ==
    /\ worker[w].at = "reconcile"
    /\ \E phase \in Phase :
         /\ HeadStep(w, worker[w].fence, worker[w].run, phase)
         /\ Goto(w, IF phase = "complete" THEN "finish" ELSE "confirm")
    /\ UNCHANGED faults

\* Nothing to do (an inherited receipt is complete), not ready, or no proof,
\* which throws and fails the run.
ReconcileWithoutBatch(w) ==
    LET r == worker[w].run IN
    /\ worker[w].at = "reconcile"
    /\ \/ /\ ~IsLive(w, worker[w].fence) \/ ~HeadReady(worker[w].fence, r)
          /\ Goto(w, "release")
       \/ /\ IsLive(w, worker[w].fence) /\ HeadReady(worker[w].fence, r)
          /\ HeadSource(r) = None \/ ReconciliationComplete(r)
          /\ Goto(w, IF HeadSource(r) = None THEN "fail" ELSE "finish")
    /\ Local

ConfirmProgress(w) ==
    /\ worker[w].at = "confirm"
    /\ Goto(w, IF worker[w].run \in Active THEN "progress" ELSE "release")
    /\ Local

\* finish, from the head path or from failRun; a refusal changes nothing.
Conclude(w) ==
    /\ worker[w].at \in {"finish", "fail"}
    /\ LET outcome == IF worker[w].at = "finish" THEN "succeeded" ELSE "failed" IN
         \/ Finish(w, worker[w].fence, worker[w].run, outcome)
         \/ /\ ~FinishAllowed(w, worker[w].fence, worker[w].run, outcome)
            /\ UNCHANGED rvars
    /\ Goto(w, "release")
    /\ UNCHANGED faults

\* The finally block.
ReleaseLease(w) ==
    /\ worker[w].at = "release"
    /\ \/ Release(w, worker[w].fence)
       \/ ~(lease.owner = w /\ lease.fence = worker[w].fence) /\ UNCHANGED rvars
    /\ Return(w)
    /\ UNCHANGED faults

\* terminalizeProgress, first half: the run must be as the progress result left
\* it; the fence used is the run's own.
TerminalizeProgress(w) ==
    LET r == worker[w].run IN
    /\ worker[w].at = "progress"
    /\ IF runs[r].state = "running" /\ runs[r].pages = worker[w].number - 1
       THEN worker' = [worker EXCEPT ![w].at = "terminalize", ![w].fence = runs[r].fence]
       ELSE Return(w)
    /\ Local

\* Second half: finish as failed, and only then release.
TerminalizeFinish(w) ==
    /\ worker[w].at = "terminalize"
    /\ \/ Finish(w, worker[w].fence, worker[w].run, "failed") /\ Goto(w, "release")
       \/ /\ ~FinishAllowed(w, worker[w].fence, worker[w].run, "failed")
          /\ UNCHANGED rvars /\ Return(w)
    /\ UNCHANGED faults

-----------------------------------------------------------------------------
(* Disturbances.                                                           *)

Disturbed == faults < MaxFaults /\ faults' = faults + 1

\* Where an exception leads: with a run in hand the run is failed, before that
\* (also after a recovery, until start has returned) the execution just ends.
CatchAt(at) == IF at \in {"recover", "start"} THEN {"release"}
               ELSE IF at = "fail" THEN {"fail", "release"} ELSE {"fail"}

\* A transaction, a read or the source throws, the signal aborts, or a commit with
\* a long budget finds the lease too close to its expiry.
Throw(w) ==
    /\ worker[w].at \in {"recover", "start", "renew", "fetch", "commit", "match", "head",
                         "reconcile", "confirm", "finish", "fail"}
    /\ Disturbed
    /\ \E at \in CatchAt(worker[w].at) : Goto(w, at)
    /\ UNCHANGED rvars

\* A transaction commits and its caller sees an exception.
OutcomeLost(w) ==
    LET at == worker[w].at
        f == worker[w].fence
        r == worker[w].run
    IN
    /\ Disturbed
    /\ \/ at = "recover" /\ \E q \in RunId : \/ RecoverIneligible(w, f, q)
                                            \/ \E n \in RunId : Recover(w, f, q, n)
       \/ at = "start" /\ Start(w, f, worker[w].command, CommandRun(w), worker[w].config)
       \/ at = "commit" /\ CommitPage(w, f, FetchedPage(w))
       \/ at = "reconcile" /\ \E phase \in Phase : HeadStep(w, f, r, phase)
       \/ at = "finish" /\ Finish(w, f, r, "succeeded")
    /\ \E to \in CatchAt(at) : Goto(w, to)

\* An abort on the head path leaves the run as it is.
AbortHead(w) ==
    /\ worker[w].at \in {"head", "finish"}
    /\ Disturbed
    /\ Goto(w, "release")
    /\ UNCHANGED rvars

\* The process dies; the lease row stays as it is.
Crash(w) ==
    /\ worker[w].at # "idle"
    /\ Disturbed
    /\ Return(w)
    /\ UNCHANGED rvars

Expire ==
    /\ Disturbed
    /\ LeaseExpires
    /\ UNCHANGED worker

\* The cached configuration's time runs out.
ConfigurationLapses ==
    /\ Disturbed
    /\ ConfigurationExpires
    /\ UNCHANGED worker

\* Operators and the centre.
Operate ==
    /\ \/ \E v \in Config : SynchronizeConfiguration(v)
       \/ \E k \in ControlCommand, type \in ControlType,
             g \in 0 .. runtime.generation, sameReason \in BOOLEAN :
                SubmitControl(k, type, g, sameReason)
       \/ \E c \in RunCommand : JoinActiveRun(c) \/ \E r \in RunId : RequestRunNow(c, r)
    /\ UNCHANGED <<worker, faults>>

-----------------------------------------------------------------------------
\* A step of the executor itself.
Execute(w) ==
    \/ ReadCommand(w) \/ ReadRuntime(w) \/ ReadActive(w)
    \/ AcquireHeld(w) \/ AcquireGranted(w)
    \/ RecoverNothing(w) \/ RecoverResumed(w) \/ RecoverAttempt(w) \/ RecoverRefused(w)
    \/ StartRun(w) \/ StartDeduplicated(w) \/ StartRefused(w)
    \/ RenewForPage(w) \/ FetchPage(w) \/ CommitFetched(w) \/ CommitRefused(w)
    \/ MatchReferences(w)
    \/ RenewForHead(w) \/ ReconcileBatch(w) \/ ReconcileWithoutBatch(w) \/ ConfirmProgress(w)
    \/ Conclude(w) \/ ReleaseLease(w) \/ TerminalizeProgress(w) \/ TerminalizeFinish(w)

Next ==
    \/ Operate \/ ConfigurationLapses \/ Expire
    \/ \E w \in Worker : Execute(w) \/ Throw(w) \/ OutcomeLost(w) \/ AbortHead(w) \/ Crash(w)

Spec == Init /\ [][Next]_vars

\* A batch that reaches the end of a scan.
ScanEnds(w) == ReconcileBatch(w) /\ receipts'[worker[w].run] # receipts[worker[w].run]

\* The supervisor calls every worker again and again, an undisturbed worker goes
\* on, and a scan, which moves forward through a finite table, comes to its end.
FairSpec == Spec /\ \A w \in Worker : WF_vars(Execute(w)) /\ SF_vars(ScanEnds(w))

-----------------------------------------------------------------------------
(* Properties.                                                             *)

\* An execution that still has the lease works on the database's state: the run
\* is its attempt, its page count and cursor are the ones it carries, so nobody
\* else can come between its pages.  The configuration it carries was read
\* before it had the lease and is never newer than the run's; it may be older,
\* when the attempt was recovered, and then the page is refused.
HolderIsCurrent ==
    \A w \in Worker :
        LET s == worker[w] IN
        s.at \in {"renew", "fetch", "commit", "match"} /\ IsLive(w, s.fence) =>
            /\ runs[s.run].state = "running" /\ runs[s.run].fence = s.fence
            /\ runs[s.run].config >= s.config /\ runs[s.run].pages + 1 = s.number
            /\ runtime.cursor = s.cursor

\* Attempts from r up its ancestry that committed no page.
Barren(r) ==
    LET barren[q \in RunId] ==
          IF runs[q].pages > 0 \/ runs[q].recoveryOf = None THEN 0
          ELSE 1 + barren[runs[q].recoveryOf]
    IN barren[r]

\* Reaching the source head is not lost by a recovery: whenever head reconciliation
\* may run, the proof readProviderRunHeadProof needs is found, in the run itself or
\* behind fewer than MaxAncestry attempts that were recovered after the head and
\* committed no page of their own.
HeadProofAvailable ==
    \A r \in RunId :
        HeadReady(runs[r].fence, r) /\ Barren(r) < MaxAncestry => HeadSource(r) # None

\* finish only asks whether the source head was reached; that a succeeded run has
\* also completed its reconciliation is the executor's doing: a reconciliation
\* interrupted after a batch is finished by the attempt that recovers it, from the
\* receipt it inherits, and only then may that attempt succeed.
SucceededIsReconciled ==
    \A r \in RunId : runs[r].state = "succeeded" => Receipt(r) = "complete"

\* No running attempt stays running for ever, whatever dies or expires: "an old
\* fence can never leave it permanently active".
NoAttemptStuck == \A r \in RunId : runs[r].state = "running" ~> runs[r].state # "running"

=============================================================================

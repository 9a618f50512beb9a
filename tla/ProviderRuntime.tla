--------------------------- MODULE ProviderRuntime ---------------------------
(***************************************************************************)
(* One provider database of PackScout: the import worker lease, the        *)
(* provider_runtime singleton, provider_runs, control_commands,            *)
(* provider_run_pages and the head-reconciliation receipts, with every     *)
(* transaction the admin server and the import workers run on them.        *)
(*                                                                         *)
(* Each repository method is one transaction that locks the rows it        *)
(* decides on (lease, then run, then runtime), so each is one action.  A   *)
(* call that is refused (a conflict, a lost lease, a replay) writes        *)
(* nothing, so only the branches that write are actions here.  The caller  *)
(* is unconstrained: any worker may call any transaction at any time with  *)
(* any arguments.  ProviderImport constrains the callers to the real       *)
(* executor; what is proved here holds whatever the executor does.         *)
(*                                                                         *)
(* Time is abstracted: the lease and the cached configuration may expire   *)
(* at any moment.  Cursors are opaque; None is the null cursor.            *)
(***************************************************************************)
EXTENDS Integers, Sequences, FiniteSets

CONSTANTS Worker,          \* import worker identities (lease owners)
          RunId,           \* provider_runs ids, allocated in increasing order
          RunCommand,      \* ids of Run now commands
          ControlCommand,  \* ids of pause, stop and resume commands
          Cursor,          \* non-null source cursors
          MaxConfig,       \* highest configuration version the centre issues
          MaxFence,        \* bound on lease take-overs
          MaxAncestry,     \* runs readProviderRunHeadProof looks at (128)
          None             \* SQL NULL

ASSUME RunIdAssumption == RunId \subseteq Nat \ {0}
ASSUME ConfigAssumption == MaxConfig \in Nat
ASSUME AncestryAssumption == MaxAncestry \in Nat \ {0}
ASSUME NoneAssumption == None \notin Worker /\ None \notin RunId /\ None \notin Cursor
ASSUME CommandAssumption == RunCommand \cap ControlCommand = {} /\ None \notin RunCommand

VARIABLES lease,     \* provider_worker_states row of role "import"
          runtime,   \* provider_runtime singleton
          runs,      \* provider_runs
          commands,  \* control_commands
          pages,     \* provider_run_pages in commit order
          receipts,  \* newest provider.run.head_reconciliation audit row per run
          reply      \* what the admin caller of Run now was told

rvars == <<lease, runtime, runs, commands, pages, receipts, reply>>

-----------------------------------------------------------------------------
Command == RunCommand \cup ControlCommand
Config == 0 .. MaxConfig                     \* 0: nothing synchronised yet
OperatingState == {"idle", "running", "paused", "stopped", "error"}
Terminal == {"succeeded", "incomplete", "failed"}
ActiveState == {"queued", "running"}
RunState == {"none"} \cup ActiveState \cup Terminal
Phase == {"none", "facts", "quarantines", "complete"}

Lease == [owner : Worker \cup {None}, fence : Nat, live : BOOLEAN]
Runtime == [state : OperatingState, generation : Nat, config : Config,
            expired : BOOLEAN, cursor : Cursor \cup {None}]

\* `generation` is history: the runtime generation in which the attempt's
\* lineage was started.  `cause` abstracts failure_code: "lease_expired" and
\* "ineligible" come from recoverActive, "failed" from finish.
Run == [state : RunState, command : RunCommand \cup {None},
        recoveryOf : RunId \cup {None}, config : Config, fence : Nat,
        requested : Cursor \cup {None}, final : Cursor \cup {None},
        head : BOOLEAN, pages : Nat, generation : Nat,
        cause : {"none", "lease_expired", "ineligible", "failed"}]
CommandRow == [type : {"none", "run", "pause", "resume", "stop"},
               state : {"none", "accepted", "rejected", "completed"},
               run : RunId \cup {None}]

\* `fence`, `config` and `generation` of a page are history: the lease fence,
\* configuration and runtime generation it was committed under.
Page == [run : RunId, number : Nat, from : Cursor \cup {None},
         to : Cursor \cup {None}, head : BOOLEAN,
         fence : Nat, config : Config, generation : Nat]

NoRun == [state |-> "none", command |-> None, recoveryOf |-> None, config |-> 0,
          fence |-> 0, requested |-> None, final |-> None, head |-> FALSE,
          pages |-> 0, generation |-> 0, cause |-> "none"]
NoCommand == [type |-> "none", state |-> "none", run |-> None]

TypeOK ==
    /\ lease \in Lease
    /\ runtime \in Runtime
    /\ runs \in [RunId -> Run]
    /\ commands \in [Command -> CommandRow]
    /\ pages \in Seq(Page)
    /\ receipts \in [RunId -> Phase]
    /\ reply \in [RunCommand -> {"none", "created", "coalesced", "aborted"}]

RuntimeInit ==
    /\ lease = [owner |-> None, fence |-> 0, live |-> FALSE]
    /\ runtime = [state |-> "idle", generation |-> 0, config |-> 0,
                  expired |-> FALSE, cursor |-> None]
    /\ runs = [r \in RunId |-> NoRun]
    /\ commands = [c \in Command |-> NoCommand]
    /\ pages = <<>>
    /\ receipts = [r \in RunId |-> "none"]
    /\ reply = [c \in RunCommand |-> "none"]

-----------------------------------------------------------------------------
(* The import lease.                                                       *)

\* providerWorkerLeaseIsLive: the caller's owner and fence are the row's and
\* the row has not expired.
IsLive(w, f) == lease.live /\ lease.owner = w /\ lease.fence = f

\* acquire is refused ("held") only by another owner's unexpired lease.
Held(w) == lease.live /\ lease.owner # w

\* The fence a successful acquire returns: a renewal keeps it, a take-over of
\* a free or expired row (also by its former owner) increments it.
GrantedFence == IF lease.live THEN lease.fence ELSE lease.fence + 1

\* The fence is a bigint; MaxFence bounds it here.
Acquire(w) ==
    /\ ~Held(w)
    /\ GrantedFence <= MaxFence
    /\ lease' = [owner |-> w, fence |-> GrantedFence, live |-> TRUE]
    /\ UNCHANGED <<runtime, runs, commands, pages, receipts, reply>>

\* release clears owner and expiry, keeps the fence, and does not ask whether
\* the lease has expired.
Release(w, f) ==
    /\ lease.owner = w /\ lease.fence = f
    /\ lease' = [lease EXCEPT !.owner = None, !.live = FALSE]
    /\ UNCHANGED <<runtime, runs, commands, pages, receipts, reply>>

LeaseExpires ==
    /\ lease.live
    /\ lease' = [lease EXCEPT !.live = FALSE]
    /\ UNCHANGED <<runtime, runs, commands, pages, receipts, reply>>

-----------------------------------------------------------------------------
(* Configuration and operator control.                                     *)

Active == {r \in RunId : runs[r].state \in ActiveState}

\* Variants: the cursor survives; an active run does not block.
SynchronizeKeepsCursor(v) ==
    /\ v > runtime.config /\ Active = {}
    /\ runtime' = [runtime EXCEPT !.config = v, !.expired = FALSE]
    /\ UNCHANGED <<lease, runs, commands, pages, receipts, reply>>
\* synchronizeConfiguration that reports "updated": a higher version, and no
\* queued or running run.  The cursor belongs to the old version and is cleared.
SynchronizeConfiguration(v) ==
    /\ v > runtime.config
    /\ Active = {}
    /\ runtime' = [runtime EXCEPT !.config = v, !.expired = FALSE, !.cursor = None]
    /\ UNCHANGED <<lease, runs, commands, pages, receipts, reply>>

ConfigurationExpires ==
    /\ runtime.config # 0 /\ ~runtime.expired
    /\ runtime' = [runtime EXCEPT !.expired = TRUE]
    /\ UNCHANGED <<lease, runs, commands, pages, receipts, reply>>

\* providerRuntimeTransitionMatrix: <<from, to, actor>>.
TransitionMatrix ==
    {<<"idle", "running", "runner">>, <<"idle", "paused", "operator">>,
     <<"idle", "stopped", "operator">>, <<"idle", "error", "runner">>,
     <<"idle", "error", "system">>, <<"running", "idle", "runner">>,
     <<"running", "paused", "operator">>, <<"running", "stopped", "operator">>,
     <<"running", "error", "runner">>, <<"running", "error", "system">>,
     <<"paused", "idle", "operator">>, <<"paused", "stopped", "operator">>,
     <<"paused", "error", "system">>, <<"stopped", "idle", "operator">>,
     <<"stopped", "error", "system">>, <<"error", "idle", "operator">>,
     <<"error", "paused", "operator">>, <<"error", "stopped", "operator">>}

ControlTarget == [pause |-> "paused", stop |-> "stopped", resume |-> "idle"]

\* The two outcomes of a new control command.  g is the generation the
\* operator saw; sameReason says whether a repeated request gives the same reason.
ControlApplies(type, g) ==
    /\ g = runtime.generation
    /\ <<runtime.state, ControlTarget[type], "operator">> \in TransitionMatrix

ControlState(type, g, sameReason) ==
    IF \/ ControlApplies(type, g)
       \/ /\ g = runtime.generation
          /\ runtime.state = ControlTarget[type]
          /\ sameReason
    THEN "completed" ELSE "rejected"

NextGeneration == runtime.generation + 1
MoveTo(s) == [runtime EXCEPT !.state = s, !.generation = NextGeneration]

\* submit of pause, stop or resume.  A resubmission of a known key returns the
\* stored outcome and writes nothing.
SubmitControl(k, type, g, sameReason) ==
    /\ commands[k].state = "none"
    /\ commands' = [commands EXCEPT ![k] =
                      [type |-> type, run |-> None,
                       state |-> ControlState(type, g, sameReason)]]
    /\ runtime' = IF ControlApplies(type, g) THEN MoveTo(ControlTarget[type]) ELSE runtime
    /\ UNCHANGED <<lease, runs, pages, receipts, reply>>

-----------------------------------------------------------------------------
(* Run now.                                                                *)

\* Ids are random in the code; the least unused one is as good as any.
Fresh(r) ==
    /\ runs[r].state = "none"
    /\ \A q \in RunId : q < r => runs[q].state # "none"

\* control_commands trigger: which state changes of a command row are legal.
CommandTransitionAllowed(from, to) ==
    <<from, to>> \in {<<"pending", "accepted">>, <<"pending", "rejected">>,
                      <<"pending", "failed">>, <<"accepted", "completed">>,
                      <<"accepted", "failed">>}

\* Deferred trigger: a command and its resulting run name each other.
CommandRunLinkAllowed(c, r) == runs[r].command = c

\* The checks requestRunNow makes before it looks for active work; a request made
\* for another generation or configuration than the runtime's is refused.
RunNowAdmitted(c) ==
    /\ commands[c].state = "none"
    /\ runtime.config # 0 /\ ~runtime.expired
    /\ runtime.state \in {"idle", "running"}

Queued(c) == [NoRun EXCEPT !.state = "queued", !.command = c, !.config = runtime.config,
                           !.requested = runtime.cursor]

\* No active run: one queued run and its accepted command are written.
RequestRunNow(c, r) ==
    /\ RunNowAdmitted(c)
    /\ Active = {}
    /\ Fresh(r)
    /\ runs' = [runs EXCEPT ![r] = Queued(c)]
    /\ commands' = [commands EXCEPT ![c] =
                      [type |-> "run", state |-> "accepted", run |-> r]]
    /\ reply' = [reply EXCEPT ![c] = "created"]
    /\ UNCHANGED <<lease, runtime, pages, receipts>>

\* An active run exists: the handler creates the command as pending, then
\* updates it to completed with that run as its result, in one transaction
\* which the two triggers accept or abort.
JoinActiveRun(c) ==
    /\ RunNowAdmitted(c)
    /\ \E r \in Active :
         IF CommandTransitionAllowed("pending", "completed") /\ CommandRunLinkAllowed(c, r)
         THEN /\ commands' = [commands EXCEPT ![c] =
                                [type |-> "run", state |-> "completed", run |-> r]]
              /\ reply' = [reply EXCEPT ![c] = "coalesced"]
         ELSE /\ commands' = commands
              /\ reply' = [reply EXCEPT ![c] = "aborted"]
    /\ UNCHANGED <<lease, runtime, runs, pages, receipts>>

-----------------------------------------------------------------------------
(* Transactions of the lease holder.                                       *)

\* start as the executor calls it: the key "command/<id>" finds the run that
\* Run now queued, and the claim succeeds.
StartAllowed(c, r, v) ==
    /\ runs[r].state = "queued" /\ runs[r].command = c /\ runs[r].config = v
    /\ runtime.state = "idle" /\ runtime.config = v /\ ~runtime.expired
    /\ commands[c].state = "accepted" /\ commands[c].run = r

Started(row, f) == [row EXCEPT !.state = "running", !.fence = f,
                               !.generation = NextGeneration]

Start(w, f, c, r, v) ==
    /\ IsLive(w, f)
    /\ StartAllowed(c, r, v)
    /\ runs' = [runs EXCEPT ![r] = Started(@, f)]
    /\ commands' = [commands EXCEPT ![c].state = "completed"]
    /\ runtime' = MoveTo("running")
    /\ UNCHANGED <<lease, pages, receipts, reply>>

\* recoverActive: may the interrupted attempt go on?
Eligible(r) ==
    /\ runtime.state = "running"
    /\ runtime.config = runs[r].config
    /\ ~runtime.expired

Interrupted(row, cause) == [row EXCEPT !.state = "incomplete", !.final = runtime.cursor,
                                       !.cause = cause]

\* The recovery attempt of run r under fence f.
Successor(r, f) == [NoRun EXCEPT !.state = "running", !.recoveryOf = r, !.fence = f,
                      !.config = runs[r].config, !.requested = runtime.cursor,
                      !.head = runs[r].head, !.generation = runs[r].generation]

\* The attempt of an older fence becomes incomplete; a new attempt with this
\* fence goes on from the committed cursor.
Recover(w, f, r, n) ==
    /\ IsLive(w, f)
    /\ runs[r].state = "running" /\ Eligible(r) /\ runs[r].fence # f
    /\ Fresh(n)
    /\ runs' = [runs EXCEPT ![r] = Interrupted(@, "lease_expired"),
                            ![n] = Successor(r, f)]
    /\ UNCHANGED <<lease, runtime, commands, pages, receipts, reply>>

\* Variant: the runtime keeps saying running.
RecoverKeepsRuntime(w, f, r) ==
    /\ IsLive(w, f)
    /\ runs[r].state = "running" /\ ~Eligible(r)
    /\ runs' = [runs EXCEPT ![r] = Interrupted(@, "ineligible")]
    /\ UNCHANGED <<lease, runtime, commands, pages, receipts, reply>>

\* The attempt may not go on: it becomes incomplete, and a runtime that still
\* says running becomes error.
RecoverIneligible(w, f, r) ==
    /\ IsLive(w, f)
    /\ runs[r].state = "running" /\ ~Eligible(r)
    /\ runs' = [runs EXCEPT ![r] = Interrupted(@, "ineligible")]
    /\ runtime' = IF runtime.state = "running" THEN MoveTo("error") ELSE runtime
    /\ UNCHANGED <<lease, commands, pages, receipts, reply>>

\* Deferred trigger on provider_run_pages: the first page starts at the run's
\* requested cursor, a later one where the previous "more" page ended.
PageLineageAllowed(p) ==
    IF p.number = 1
    THEN p.from = runs[p.run].requested
    ELSE \E i \in 1 .. Len(pages) :
            /\ pages[i].run = p.run /\ pages[i].number = p.number - 1
            /\ ~pages[i].head /\ pages[i].to = p.from

\* validateProviderMixedPage: a "more" page has a cursor and it moved.
ValidPage(p) == p.head \/ (p.to # None /\ p.to # p.from)

\* A page of this run was already committed for this input cursor: a replay or
\* an immutable conflict.
PriorPage(r, from) ==
    \E i \in 1 .. Len(pages) : pages[i].run = r /\ pages[i].from = from

\* Variants: a page is accepted in any runtime state; under a fence that is not
\* the run's.
CommitInAnyState(w, f, p) ==
    /\ IsLive(w, f)
    /\ runs[p.run].fence = f
    /\ ~PriorPage(p.run, p.from)
    /\ runs[p.run].state = "running"
    /\ runs[p.run].config = p.config
    /\ p.number = runs[p.run].pages + 1
    /\ runtime.cursor = p.from
    /\ PageLineageAllowed(p)
CommitAnyFence(w, f, p) ==
    /\ IsLive(w, f)
    /\ ~PriorPage(p.run, p.from)
    /\ runs[p.run].state = "running"
    /\ runs[p.run].config = p.config
    /\ p.number = runs[p.run].pages + 1
    /\ runtime.state = "running"
    /\ runtime.cursor = p.from
    /\ PageLineageAllowed(p)

\* When the mixed-page repository answers "committed"; every other answer
\* (lease_lost, run_not_running, immutable_conflict, config_mismatch,
\* page_number_conflict, runtime_not_running, cursor_conflict, a trigger's
\* exception) writes nothing.
CommitAllowed(w, f, p) ==
    /\ IsLive(w, f)
    /\ runs[p.run].fence = f
    /\ ~PriorPage(p.run, p.from)
    /\ runs[p.run].state = "running"
    /\ runs[p.run].config = p.config
    /\ p.number = runs[p.run].pages + 1
    /\ runtime.state = "running"
    /\ runtime.cursor = p.from
    /\ PageLineageAllowed(p)

\* The run's counters after page p.
WithPage(row, p) == [row EXCEPT !.pages = @ + 1, !.head = @ \/ p.head]

\* The page's records, the cursor, the run's counters and the page row commit
\* together.  p is the validated page: run, config, number, from, to, head.
CommitPage(w, f, p) ==
    /\ ValidPage(p)
    /\ CommitAllowed(w, f, p)
    /\ runtime' = [runtime EXCEPT !.cursor = p.to]
    /\ runs' = [runs EXCEPT ![p.run] = WithPage(@, p)]
    /\ pages' = Append(pages,
                  [run |-> p.run, number |-> p.number, from |-> p.from, to |-> p.to,
                   head |-> p.head, fence |-> f, config |-> p.config,
                   generation |-> runtime.generation])
    /\ UNCHANGED <<lease, commands, receipts, reply>>

\* When finish answers "finished"; lease_lost, already_terminal and
\* head_not_reached write nothing.
FinishAllowed(w, f, r, outcome) ==
    /\ IsLive(w, f)
    /\ runs[r].state = "running" /\ runs[r].fence = f
    /\ outcome = "succeeded" => runs[r].head

Finished(row, outcome) ==
    [row EXCEPT !.state = outcome, !.final = runtime.cursor,
                !.cause = IF outcome = "succeeded" THEN "none" ELSE "failed"]

\* Variant: the runtime is moved whatever an operator made of it.
FinishMovesAlways(w, f, r, outcome) ==
    /\ FinishAllowed(w, f, r, outcome)
    /\ runs' = [runs EXCEPT ![r] = Finished(@, outcome)]
    /\ runtime' = MoveTo(IF outcome = "failed" THEN "error" ELSE "idle")
    /\ UNCHANGED <<lease, commands, pages, receipts, reply>>

\* finish moves a runtime that is running to idle, or to error after a failure;
\* a runtime an operator has meanwhile paused or stopped is left alone.
Finish(w, f, r, outcome) ==
    /\ FinishAllowed(w, f, r, outcome)
    /\ runs' = [runs EXCEPT ![r] = Finished(@, outcome)]
    /\ runtime' = IF runtime.state = "running"
                  THEN MoveTo(IF outcome = "failed" THEN "error" ELSE "idle")
                  ELSE runtime
    /\ UNCHANGED <<lease, commands, pages, receipts, reply>>

-----------------------------------------------------------------------------
(* Head reconciliation: bounded batches after the source head, with a      *)
(* receipt per batch that a recovery attempt inherits through its ancestry.*)

HeadReady(f, r) ==
    /\ runs[r].state = "running" /\ runs[r].fence = f /\ runs[r].head
    /\ runtime.state = "running" /\ runtime.config = runs[r].config

\* What readProviderRunHeadProof asks of every run on the way up, q = r first.
HeadProofStep(r, q) ==
    /\ runs[q].head /\ runs[q].config = runtime.config
    /\ IF q = r THEN runs[q].state \in {"running", "succeeded"}
       ELSE /\ runs[q].state = "incomplete" /\ runs[q].cause = "lease_expired"
            /\ runs[q].final = runtime.cursor

\* Mutation: the search for the head page gives up one run early.
CutOffEarly(depth) == depth + 1 >= MaxAncestry

CutOff(depth) == depth = MaxAncestry

\* The run whose last page is the head page, found through at most MaxAncestry
\* recovery attempts that committed no page themselves; None when there is no
\* valid proof.
HeadSource(r) ==
    LET source[q \in RunId, depth \in 0 .. MaxAncestry] ==
          IF CutOff(depth) \/ ~HeadProofStep(r, q) THEN None
          ELSE IF runs[q].pages > 0
          THEN IF \E i \in 1 .. Len(pages) :
                    /\ pages[i].run = q /\ pages[i].number = runs[q].pages
                    /\ pages[i].head /\ pages[i].to = runtime.cursor
               THEN q ELSE None
          ELSE IF runs[q].recoveryOf # None /\ runs[q].requested = runtime.cursor
          THEN source[runs[q].recoveryOf, depth + 1] ELSE None
    IN source[r, 0]

\* The newest receipt of r or of its nearest ancestor that has one.
Receipt(r) ==
    LET newest[q \in RunId] ==
          IF receipts[q] # "none" THEN receipts[q]
          ELSE IF runs[q].pages = 0 /\ runs[q].recoveryOf # None
          THEN newest[runs[q].recoveryOf] ELSE "none"
    IN newest[r]

\* Variant: a receipt inherited from an interrupted attempt counts as complete.
InheritedIsComplete(r) == Receipt(r) = "complete" \/ (receipts[r] = "none" /\ Receipt(r) # "none")

\* reconciliationComplete of the head proof.
ReconciliationComplete(r) == Receipt(r) = "complete"

\* One batch: facts until the scan ends, then, for a run that replayed the
\* source from its origin, quarantines in the same batch; the scans end when
\* the data ends, which is a choice here.
NextPhase(r) ==
    LET replay == runs[HeadSource(r)].requested = None
        afterFacts == IF replay THEN {"quarantines", "complete"} ELSE {"complete"}
    IN  IF Receipt(r) = "quarantines" THEN {"quarantines", "complete"}
        ELSE {"facts"} \cup afterFacts

\* A step that runs a batch and appends its receipt.
HeadStep(w, f, r, phase) ==
    /\ IsLive(w, f)
    /\ HeadReady(f, r)
    /\ HeadSource(r) # None
    /\ ~ReconciliationComplete(r)
    /\ phase \in NextPhase(r)
    /\ receipts' = [receipts EXCEPT ![r] = phase]
    /\ UNCHANGED <<lease, runtime, runs, commands, pages, reply>>

-----------------------------------------------------------------------------
ControlType == {"pause", "stop", "resume"}

\* An environment step: operators, the centre and the passage of time.
RuntimeEnvironment ==
    \/ LeaseExpires
    \/ ConfigurationExpires
    \/ \E v \in Config : SynchronizeConfiguration(v)
    \/ \E k \in ControlCommand, type \in ControlType,
          g \in 0 .. runtime.generation, sameReason \in BOOLEAN :
             SubmitControl(k, type, g, sameReason)
    \/ \E c \in RunCommand : JoinActiveRun(c) \/ \E r \in RunId : RequestRunNow(c, r)

\* A transaction of worker w with fence f.
WorkerTransaction(w, f) ==
    \/ Release(w, f)
    \/ \E c \in RunCommand, r \in RunId, v \in 1 .. MaxConfig : Start(w, f, c, r, v)
    \/ \E r \in RunId :
         \/ RecoverIneligible(w, f, r)
         \/ \E n \in RunId : Recover(w, f, r, n)
         \/ \E outcome \in Terminal : Finish(w, f, r, outcome)
         \/ \E phase \in Phase : HeadStep(w, f, r, phase)
    \/ \E r \in RunId, v \in 1 .. MaxConfig, from, to \in Cursor \cup {None}, head \in BOOLEAN :
         CommitPage(w, f, [run |-> r, config |-> v, number |-> runs[r].pages + 1,
                           from |-> from, to |-> to, head |-> head])

RuntimeNext ==
    \/ RuntimeEnvironment
    \/ \E w \in Worker : Acquire(w)
    \/ \E w \in Worker, f \in 1 .. lease.fence : WorkerTransaction(w, f)

RuntimeSpec == RuntimeInit /\ [][RuntimeNext]_rvars

-----------------------------------------------------------------------------
(* Properties.                                                             *)

\* A page is committed from where the one before it ended: within one
\* configuration version the committed pages form one gap-free chain from the
\* null cursor, across runs, workers, recoveries and pauses, and the runtime's
\* cursor is the end of that chain.
CursorChain ==
    /\ \A i \in 1 .. Len(pages) :
         pages[i].from = IF i > 1 /\ pages[i - 1].config = pages[i].config
                         THEN pages[i - 1].to ELSE None
    /\ runtime.cursor = IF pages # <<>> /\ pages[Len(pages)].config = runtime.config
                        THEN pages[Len(pages)].to ELSE None

\* The active run was admitted for, and is still aligned with, what the runtime
\* holds: same configuration, and, until its first page, the runtime's cursor is
\* the one the run asked for, however long the run was queued.
ActiveRunAligned ==
    \A r \in Active :
        /\ runs[r].config = runtime.config
        /\ runs[r].pages = 0 => runs[r].requested = runtime.cursor

\* A runtime that says running is backed by exactly one running attempt, of the
\* lineage started when the runtime entered running.
RunningIsBacked ==
    runtime.state = "running" =>
        \E r \in RunId : /\ Active = {r} /\ runs[r].state = "running"
                         /\ runs[r].generation = runtime.generation

\* An operator's pause or stop is final for the attempt it interrupts: every page
\* was committed in the very generation in which its lineage started, so no
\* later resume lets the interrupted attempt write again.
PauseIsFinal ==
    \A i \in 1 .. Len(pages) : pages[i].generation = runs[pages[i].run].generation

\* Pages are committed in fence order: after a take-over no page of an older
\* fence is ever committed.
FencedPages ==
    \A i, j \in 1 .. Len(pages) :
        /\ i < j => pages[i].fence <= pages[j].fence
        /\ pages[i].fence = runs[pages[i].run].fence

\* A run command waits (accepted) exactly while the run it queued is queued, and
\* there is never more than one queued or running run.
OneActiveRun ==
    /\ \A r, q \in Active : r = q
    /\ \A c \in RunCommand, r \in RunId :
         commands[c].state = "accepted" /\ commands[c].run = r
            <=> runs[r].state = "queued" /\ runs[r].command = c

\* A source that hands out a cursor again does not loop a run: no input cursor is
\* committed twice by one run, and nothing follows a run's head page.
NoCursorRevisit ==
    \A i, j \in 1 .. Len(pages) :
        i < j /\ pages[i].run = pages[j].run =>
            pages[i].from # pages[j].from /\ ~pages[i].head

\* A finished attempt, and a decided command, never change again.
DecidedKept ==
    /\ \A r \in RunId : runs[r].state \in Terminal => runs'[r] = runs[r]
    /\ \A c \in Command : commands[c].state \in {"completed", "rejected"}
                              => commands'[c] = commands[c]
DecidedIsFinal == [][DecidedKept]_rvars

\* Who wrote the operating state in this step.
Actor == IF \E k \in ControlCommand : commands'[k] # commands[k] THEN "operator" ELSE "runner"

\* Every writer of the operating state, also those that do not consult the
\* matrix (finish, recoverActive, start), follows it as the actor it is and
\* takes the next generation.
MatrixFollowed ==
    IF runtime'.state = runtime.state
    THEN runtime'.generation = runtime.generation
    ELSE /\ runtime'.generation = NextGeneration
         /\ <<runtime.state, runtime'.state, Actor>> \in TransitionMatrix
TransitionsFollowMatrix == [][MatrixFollowed]_rvars

\* A second Run now while work is active joins that work, as the handler intends.
RunNowCoalesces == \A c \in RunCommand : reply[c] # "aborted"
=============================================================================

--------------------------- MODULE WelcomeDispatch ---------------------------
(***************************************************************************)
(* The product-user directory's admission decisions, the welcome marker    *)
(* armed at the first admitted session, and the dispatchers that claim due *)
(* welcomes over HTTP, enqueue them in the email outbox and settle them.   *)
(* convex/productUsers.ts, productUserRecords.ts, productUserWelcome.ts,   *)
(* productUserAccessReview.ts, betaAllowlist.ts, and                       *)
(* packages/services/src/welcome-dispatch/dispatch-service.ts.  A Convex   *)
(* mutation is serializable and is one action.                             *)
(*                                                                         *)
(* Of the timestamps decidedAt and lastSeenAt only their order is kept:    *)
(* "fresh" says that the decision is later than the last recorded contact. *)
(***************************************************************************)
EXTENDS Naturals, Sequences, FiniteSets, SequencesExt

CONSTANTS User, Dispatcher,
          Legacy,       \* users admitted and seen before there were markers
          BatchSize,    \* identities claimed per pass
          MaxDecisions, \* bound: operator and allowlist writes
          MaxFaults,    \* bound: lost requests and answers, crashes, refusals
          MaxPrunes,    \* bound: times an identity's intent ages out of the outbox
          None

Emails == {None, "usable", "unusable"}
Final == {"sent", "no_verified_email", "grandfathered"}
Markers == {None, "due", "claimed", "lapsed"} \cup Final

\* A document of the directory.
Document == [access: {"awaiting_review", "approved", "declined"}, fresh: BOOLEAN,
             standing: {"active", "suspended"}, email: Emails, marker: Markers]

ASSUME WelcomeAssumption ==
    /\ Legacy \subseteq User /\ IsFiniteSet(User) /\ BatchSize \in Nat \ {0}
    /\ None \notin Document
    /\ None \notin {"due", "claimed", "lapsed", "live", "final"} \cup Final

VARIABLES user,       \* [User -> directory record or None]: productUsers
          allowlist,  \* users an allowlist entry names
          admitted,   \* users that have had an admitted session
          dispatcher, \* [Dispatcher -> where its pass stands]
          intent,     \* [User -> None, "live" or "final"]: the outbox row
          inserted,   \* [User -> how often the intent was inserted]
          pruned,     \* [User -> how often the intent aged out, with its key]
          decisions, faults

vars == <<user, allowlist, admitted, dispatcher, intent, inserted, pruned,
          decisions, faults>>
directory == <<user, allowlist, admitted, decisions>>

Record(access, fresh, email, marker) ==
    [access |-> access, fresh |-> fresh, standing |-> "active",
     email |-> email, marker |-> marker]

Idle == [pc |-> "idle", claims |-> <<>>, outcome |-> None]

WelcomeInit ==
    /\ user = [u \in User |-> IF u \in Legacy
                  THEN Record("approved", FALSE, "usable", None) ELSE None]
    /\ allowlist = {}
    /\ admitted = Legacy
    /\ dispatcher = [d \in Dispatcher |-> Idle]
    /\ intent = [u \in User |-> None]
    /\ inserted = [u \in User |-> 0]
    /\ pruned = [u \in User |-> 0] /\ decisions = 0 /\ faults = 0

-----------------------------------------------------------------------------
(* The directory.                                                          *)

IsAdmitted(access, standing) == access = "approved" /\ standing = "active"

\* Mutation: every admitted contact without a marker arms one.
MarkerAlwaysArmed(marker, access, standing, byThis, fresh, email) ==
    IF marker \in {"due", "claimed"} \/ ~IsAdmitted(access, standing)
      THEN marker
      ELSE IF email = None THEN "no_verified_email" ELSE "due"

\* The marker after a contact: the first admitted session arms it, an earlier
\* contact under the same approval makes it grandfathered, and once present
\* it stays.
WelcomeMarkerAtEstablishment(marker, access, standing, byThis, fresh, email) ==
    IF marker # None \/ ~IsAdmitted(access, standing) THEN marker
    ELSE IF ~byThis /\ ~fresh THEN "grandfathered"
    ELSE IF email = None THEN "no_verified_email" ELSE "due"

\* The first contact of an identity inserts its record.
EstablishNew(u, email) ==
    LET invited == u \in allowlist
        access == IF invited THEN "approved" ELSE "awaiting_review"
        marker == WelcomeMarkerAtEstablishment(None, access, "active", TRUE,
                                               FALSE, email)
    IN /\ user[u] = None
       /\ user' = [user EXCEPT ![u] = Record(access, FALSE, email, marker)]
       /\ admitted' = IF invited THEN admitted \cup {u} ELSE admitted

\* A later contact.  An awaiting identity is matched with the allowlist; the
\* record is patched when an attribute, the decision or the marker changed,
\* or lastSeenAt is stale.
EstablishAgain(u, verified) ==
    LET old == user[u]
        email == IF verified = None THEN old.email ELSE verified
        invited == old.access = "awaiting_review" /\ u \in allowlist
        access == IF invited THEN "approved" ELSE old.access
        marker == WelcomeMarkerAtEstablishment(old.marker, access,
                      old.standing, invited, old.fresh, email)
    IN /\ old # None
       /\ \/ user' = [user EXCEPT ![u].email = email, ![u].access = access,
                        ![u].marker = marker, ![u].fresh = FALSE]
          \/ /\ email = old.email /\ ~invited /\ marker = old.marker
             /\ UNCHANGED user
       /\ admitted' = IF IsAdmitted(access, old.standing)
                        THEN admitted \cup {u} ELSE admitted

EstablishProductUserRecord(u) ==
    /\ \E e \in Emails : EstablishNew(u, e) \/ EstablishAgain(u, e)
    /\ UNCHANGED <<allowlist, dispatcher, intent, inserted, pruned, decisions,
                   faults>>

Deciding ==
    /\ decisions < MaxDecisions /\ decisions' = decisions + 1
    /\ UNCHANGED <<admitted, dispatcher, intent, inserted, pruned, faults>>

\* Approve, decline or revoke; the target state held already changes nothing.
DecideProductUserAccess(u, target) ==
    /\ user[u] # None /\ user[u].access # target
    /\ user' = [user EXCEPT ![u].access = target, ![u].fresh = TRUE]
    /\ UNCHANGED allowlist /\ Deciding

SetStanding(u, standing) ==
    /\ user[u] # None /\ user[u].standing # standing
    /\ user' = [user EXCEPT ![u].standing = standing]
    /\ UNCHANGED allowlist /\ Deciding

\* A new or edited entry admits a matching identity that awaits review.
AllowlistEntry(u) ==
    /\ u \notin allowlist
    /\ allowlist' = allowlist \cup {u}
    /\ IF user[u] # None /\ user[u].access = "awaiting_review"
         THEN user' = [user EXCEPT ![u].access = "approved", ![u].fresh = TRUE]
         ELSE UNCHANGED user
    /\ Deciding

RemoveEntry(u) == /\ u \in allowlist /\ allowlist' = allowlist \ {u}
                  /\ UNCHANGED user /\ Deciding

-----------------------------------------------------------------------------
(* The dispatchers.                                                        *)

Marked(u, markers) == user[u] # None /\ user[u].marker \in markers

\* Mutation: expired claims are not offered again.
ClaimableDueOnly ==
    {b \in SUBSET {u \in User : Marked(u, {"due"})} : Cardinality(b) <= BatchSize}

\* Due identities first, then lapsed claims, up to the batch.
Claimable ==
    LET due == {u \in User : Marked(u, {"due"})}
        lapsed == {u \in User : Marked(u, {"lapsed"})}
    IN {b \in SUBSET (due \cup lapsed) :
          /\ Cardinality(b) <= BatchSize
          /\ \A u \in (due \cup lapsed) \ b : Cardinality(b) = BatchSize
          /\ b \cap lapsed # {} => due \subseteq b}

\* The mutation, and its answer that may be lost on the way.
ClaimDueWelcomes(d) ==
    /\ dispatcher[d].pc = "idle"
    /\ \E b \in Claimable :
         /\ b # {}
         /\ user' = [u \in User |-> IF u \in b
                       THEN [user[u] EXCEPT !.marker = "claimed"] ELSE user[u]]
         /\ \/ /\ \E order \in SetToSeqs(b) :
                    dispatcher' = [dispatcher EXCEPT ![d].pc = "dispatch",
                      ![d].claims = [i \in DOMAIN order |->
                         [user |-> order[i], email |-> user[order[i]].email]]]
               /\ UNCHANGED faults
            \/ /\ faults < MaxFaults /\ faults' = faults + 1
               /\ UNCHANGED dispatcher
    /\ UNCHANGED <<allowlist, admitted, intent, inserted, pruned, decisions>>

Current(d) == Head(dispatcher[d].claims)

NextIdentity(d) ==
    LET rest == Tail(dispatcher[d].claims)
    IN dispatcher' = [dispatcher EXCEPT ![d].claims = rest,
                        ![d].outcome = None,
                        ![d].pc = IF rest = <<>> THEN "idle" ELSE "dispatch"]

\* Mutation: the key depends on the claim, not on the subject alone.
DispatchOneKeyed(d) ==
    /\ dispatcher[d].pc = "dispatch"
    /\ intent' = [intent EXCEPT ![Current(d).user] = "live"]
    /\ inserted' = [inserted EXCEPT ![Current(d).user] = @ + 1]
    /\ dispatcher' = [dispatcher EXCEPT ![d].pc = "settle",
                                        ![d].outcome = "sent"]
    /\ UNCHANGED <<directory, pruned, faults>>

\* No usable address is settled at once; otherwise the enqueue converges on
\* the subject's key, is refused by the source's backlog, or fails.
DispatchOne(d) ==
    LET u == Current(d).user
        Settle(o) == dispatcher' = [dispatcher EXCEPT ![d].pc = "settle",
                                                      ![d].outcome = o]
    IN /\ dispatcher[d].pc = "dispatch"
       /\ \/ /\ Current(d).email # "usable" /\ Settle("no_verified_email")
             /\ UNCHANGED <<intent, inserted, faults>>
          \/ /\ Current(d).email = "usable" /\ Settle("sent")
             /\ IF intent[u] = None
                  THEN /\ intent' = [intent EXCEPT ![u] = "live"]
                       /\ inserted' = [inserted EXCEPT ![u] = @ + 1]
                  ELSE UNCHANGED <<intent, inserted>>
             /\ UNCHANGED faults
          \/ /\ Current(d).email = "usable" /\ NextIdentity(d)
             /\ intent[u] = None
             /\ faults < MaxFaults /\ faults' = faults + 1
             /\ UNCHANGED <<intent, inserted>>
       /\ UNCHANGED directory /\ UNCHANGED pruned

\* The settlement of a marker by whoever asks: final markers stay.
Settled(marker, outcome) ==
    IF marker \in {"due", "claimed", "lapsed"} THEN outcome ELSE marker

\* Settling, a settlement whose answer is lost, and one that never arrives.
SettleWelcome(d) ==
    LET u == Current(d).user
    IN /\ dispatcher[d].pc = "settle"
       /\ \/ /\ user' = [user EXCEPT ![u].marker =
                           Settled(@, dispatcher[d].outcome)]
             /\ UNCHANGED faults
          \/ /\ faults < MaxFaults /\ faults' = faults + 1
             /\ UNCHANGED user
       /\ NextIdentity(d)
       /\ UNCHANGED <<allowlist, admitted, intent, inserted, pruned, decisions>>

Crash(d) ==
    /\ faults < MaxFaults /\ faults' = faults + 1
    /\ dispatcher[d] # Idle
    /\ dispatcher' = [dispatcher EXCEPT ![d] = Idle]
    /\ UNCHANGED <<intent, inserted, pruned>> /\ UNCHANGED directory

\* claimExpiresAt passes.
ClaimLapses(u) ==
    /\ Marked(u, {"claimed"})
    /\ user' = [user EXCEPT ![u].marker = "lapsed"]
    /\ UNCHANGED <<allowlist, admitted, dispatcher, intent, inserted, pruned,
                   decisions, faults>>

\* The outbox delivers the intent, and later pruned it with its key.
IntentEnds(u) ==
    /\ \/ /\ intent[u] = "live" /\ intent' = [intent EXCEPT ![u] = "final"]
          /\ UNCHANGED pruned
       \/ /\ intent[u] = "final" /\ intent' = [intent EXCEPT ![u] = None]
          /\ pruned[u] < MaxPrunes /\ pruned' = [pruned EXCEPT ![u] = @ + 1]
    /\ UNCHANGED <<dispatcher, inserted, faults>> /\ UNCHANGED directory

WelcomeNext ==
    \/ \E u \in User :
         \/ EstablishProductUserRecord(u)
         \/ \E t \in {"approved", "declined", "awaiting_review"} :
              DecideProductUserAccess(u, t)
         \/ \E s \in {"active", "suspended"} : SetStanding(u, s)
         \/ AllowlistEntry(u) \/ RemoveEntry(u)
         \/ ClaimLapses(u) \/ IntentEnds(u)
    \/ \E d \in Dispatcher : ClaimDueWelcomes(d) \/ DispatchOne(d)
                               \/ SettleWelcome(d) \/ Crash(d)

WelcomeSpec == WelcomeInit /\ [][WelcomeNext]_vars

\* Dispatch is enabled: the worker polls, a pass goes on, claims lapse.
WelcomeFairSpec ==
    /\ WelcomeSpec
    /\ \A d \in Dispatcher : /\ WF_vars(ClaimDueWelcomes(d))
                             /\ WF_vars(DispatchOne(d))
                             /\ WF_vars(SettleWelcome(d))
    /\ \A u \in User : WF_vars(ClaimLapses(u))

-----------------------------------------------------------------------------
(* Properties.                                                             *)

\* What a pass holds, and where it stands.
Claim == [user: User, email: Emails]
Pass == [pc: {"idle", "dispatch", "settle"}, claims: Seq(Claim),
         outcome: {None, "sent", "no_verified_email"}]

WelcomeTypeOK ==
    /\ user \in [User -> Document \cup {None}]
    /\ allowlist \subseteq User /\ admitted \subseteq User
    /\ dispatcher \in [Dispatcher -> Pass]
    /\ intent \in [User -> {None, "live", "final"}] /\ inserted \in [User -> Nat]
    /\ pruned \in [User -> Nat] /\ decisions \in Nat /\ faults \in Nat

\* A final marker outlives every later contact, decision and settlement, and
\* a marker is never taken back.
MarkerMovesForward ==
    [][\A u \in User : user[u] # None =>
         /\ Marked(u, Final) => user'[u].marker = user[u].marker
         /\ user[u].marker # None => user'[u].marker # None]_vars

\* The comment on the arming rule: a welcome is due only at the first session
\* an identity has while admitted.  (An identity of before there were markers
\* that is revoked and approved again is welcomed too: see the README.)
ArmedAtFirstAdmission ==
    [][\A u \in User \ Legacy :
         user'[u] # None /\ user'[u].marker = "due" /\ ~Marked(u, {"due"})
           => u \notin admitted]_vars

\* "sent" means durably enqueued.
SentWasEnqueued == \A u \in User : Marked(u, {"sent"}) => inserted[u] > 0

\* However claims lapse, passes overlap and settlements are lost, an identity gets
\* one intent, and one more at most for each of its own that the outbox's retention
\* has pruned: no repeat by the dispatchers alone, and none because of another
\* identity's intent.
OneIntentAtATime == \A u \in User : inserted[u] <= 1 + pruned[u]

\* An identity whose welcome is settled as sent was given an intent, and only one,
\* by all the passes that tried.  The exception the code has, against its comments
\* at dispatch-service.ts:28 and productUserWelcome.ts:32: the key goes with the
\* pruned row, so a claim that is dispatched (again) after its identity's own intent
\* was pruned enqueues anew.
EnqueuedOnce == SentWasEnqueued /\ OneIntentAtATime

\* A due welcome is settled in the end.
DueIsSettled == \A u \in User : Marked(u, {"due"}) ~> Marked(u, Final)
=============================================================================

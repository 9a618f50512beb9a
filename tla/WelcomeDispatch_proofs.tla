------------------------ MODULE WelcomeDispatch_proofs ------------------------
(***************************************************************************)
(* Theorems about WelcomeDispatch, for every finite set of users, every    *)
(* set of dispatchers and every batch, however claims lapse, settlements   *)
(* are lost and the outbox prunes.                                         *)
(***************************************************************************)
EXTENDS WelcomeDispatch, FiniteSetTheorems, SequenceTheorems, TLAPS

-----------------------------------------------------------------------------
(* The invariant, in the parts its proof needs.                            *)

\* A pass holds claims until it is idle, of identities the directory knows;
\* what it settles it has an answer for.
PassesInStep ==
    \A d \in Dispatcher :
        /\ dispatcher[d].pc = "idle" <=> dispatcher[d].claims = <<>>
        /\ dispatcher[d].pc = "settle" => dispatcher[d].outcome # None
        /\ \A n \in DOMAIN dispatcher[d].claims : user[dispatcher[d].claims[n].user] # None

\* A pass says "sent" only of an intent that was inserted.
SentIsEnqueued ==
    \A d \in Dispatcher :
        dispatcher[d].pc = "settle" /\ dispatcher[d].outcome = "sent" =>
            inserted[Current(d).user] > 0

\* The intent that is in the outbox now, and one for each that was pruned.
InsertedIsAccounted ==
    \A u \in User : /\ inserted[u] <= pruned[u] + (IF intent[u] = None THEN 0 ELSE 1)
                    /\ intent[u] # None => inserted[u] > 0

\* An admitted session leaves a marker behind.
AdmittedIsMarked ==
    \A u \in admitted : user[u] # None /\ (u \notin Legacy => user[u].marker # None)

WelcomeInv ==
    /\ WelcomeTypeOK /\ PassesInStep /\ SentIsEnqueued /\ SentWasEnqueued
    /\ InsertedIsAccounted /\ AdmittedIsMarked

-----------------------------------------------------------------------------
(* Passes.                                                                 *)

\* The claim a pass is at.
LEMMA HeadClaim ==
    ASSUME dispatcher \in [Dispatcher -> Pass], PassesInStep,
           NEW d \in Dispatcher, dispatcher[d].pc # "idle"
    PROVE  /\ Current(d) \in Claim /\ Current(d) = dispatcher[d].claims[1]
           /\ dispatcher[d].claims # <<>> /\ 1 \in DOMAIN dispatcher[d].claims
           /\ Current(d).user \in User /\ user[Current(d).user] # None
<1>1. dispatcher[d].claims \in Seq(Claim) /\ dispatcher[d].claims # <<>>
  BY DEF Pass, PassesInStep
<1>2. /\ Current(d) \in Claim /\ Current(d) = dispatcher[d].claims[1]
      /\ 1 \in DOMAIN dispatcher[d].claims
  BY <1>1, HeadTailProperties, LenProperties, EmptySeq DEF Current
<1> QED BY <1>1, <1>2 DEF Claim, PassesInStep

\* Passing on to the next claim, or coming to rest after the last.
LEMMA PassedOn ==
    ASSUME dispatcher \in [Dispatcher -> Pass], PassesInStep, NEW d \in Dispatcher,
           dispatcher[d].pc # "idle", NextIdentity(d)
    PROVE  /\ dispatcher' \in [Dispatcher -> Pass]
           /\ \A e \in Dispatcher : e # d => dispatcher'[e] = dispatcher[e]
           /\ dispatcher'[d].pc \in {"idle", "dispatch"}
           /\ dispatcher'[d].pc = "idle" <=> dispatcher'[d].claims = <<>>
           /\ \A n \in DOMAIN dispatcher'[d].claims :
                /\ n + 1 \in DOMAIN dispatcher[d].claims
                /\ dispatcher'[d].claims[n] = dispatcher[d].claims[n + 1]
<1> DEFINE rest == Tail(dispatcher[d].claims)
<1>1. dispatcher[d] \in Pass /\ dispatcher[d].claims \in Seq(Claim) /\ dispatcher[d].claims # <<>>
  BY DEF Pass, PassesInStep
<1>2. rest \in Seq(Claim) /\ Len(rest) = Len(dispatcher[d].claims) - 1
      /\ \A n \in 1 .. Len(rest) : rest[n] = dispatcher[d].claims[n + 1]
  BY <1>1, HeadTailProperties
<1>3. /\ DOMAIN rest = 1 .. Len(rest) /\ Len(rest) \in Nat
      /\ DOMAIN dispatcher[d].claims = 1 .. Len(dispatcher[d].claims)
      /\ Len(dispatcher[d].claims) \in Nat
  BY <1>1, <1>2, LenProperties
<1> DEFINE new == [dispatcher[d] EXCEPT !.claims = rest, !.outcome = None,
                     !.pc = IF rest = <<>> THEN "idle" ELSE "dispatch"]
<1>4. dispatcher' = [dispatcher EXCEPT ![d] = new]
  BY DEF NextIdentity
<1> HIDE DEF rest
<1>5. /\ new \in Pass /\ new.claims = rest
      /\ new.pc \in {"idle", "dispatch"} /\ (new.pc = "idle" <=> rest = <<>>)
  BY <1>1, <1>2 DEF Pass
<1> HIDE DEF new
<1>6. dispatcher' \in [Dispatcher -> Pass] /\ dispatcher'[d] = new
      /\ \A e \in Dispatcher : e # d => dispatcher'[e] = dispatcher[e]
  BY <1>4, <1>5
<1>7. dispatcher'[d].claims = rest /\ dispatcher'[d].pc \in {"idle", "dispatch"}
      /\ (dispatcher'[d].pc = "idle" <=> dispatcher'[d].claims = <<>>)
  BY <1>5, <1>6
<1>8. \A n \in DOMAIN rest : /\ n + 1 \in DOMAIN dispatcher[d].claims
                             /\ rest[n] = dispatcher[d].claims[n + 1]
  BY <1>2, <1>3
<1> QED BY <1>6, <1>7, <1>8

\* An answer about the claim a pass is at.
LEMMA Answered ==
    ASSUME dispatcher \in [Dispatcher -> Pass], PassesInStep, NEW d \in Dispatcher,
           dispatcher[d].pc # "idle", NEW o \in {"sent", "no_verified_email"},
           dispatcher' = [dispatcher EXCEPT ![d].pc = "settle", ![d].outcome = o]
    PROVE  /\ dispatcher' \in [Dispatcher -> Pass]
           /\ \A e \in Dispatcher : e # d => dispatcher'[e] = dispatcher[e]
           /\ dispatcher'[d].pc = "settle" /\ dispatcher'[d].outcome = o
           /\ dispatcher'[d].claims = dispatcher[d].claims
           /\ dispatcher[d].claims # <<>>
  BY DEF Pass, PassesInStep

\* What a claiming mutation hands to the pass: every claim once, none absent.
LEMMA Claimed ==
    ASSUME WelcomeTypeOK, NEW d \in Dispatcher, NEW b \in Claimable, b # {},
           NEW order \in SetToSeqs(b),
           dispatcher' = [dispatcher EXCEPT ![d].pc = "dispatch",
               ![d].claims = [i \in DOMAIN order |->
                   [user |-> order[i], email |-> user[order[i]].email]]]
    PROVE  /\ dispatcher' \in [Dispatcher -> Pass]
           /\ \A e \in Dispatcher : e # d => dispatcher'[e] = dispatcher[e]
           /\ dispatcher'[d].pc = "dispatch" /\ dispatcher'[d].claims # <<>>
           /\ \A n \in DOMAIN dispatcher'[d].claims : dispatcher'[d].claims[n].user \in b
<1> DEFINE claims == [i \in DOMAIN order |->
                        [user |-> order[i], email |-> user[order[i]].email]]
           new == [dispatcher[d] EXCEPT !.pc = "dispatch", !.claims = claims]
<1>1. b \subseteq User /\ \A u \in b : user[u] \in Document
  BY DEF Claimable, Marked, WelcomeTypeOK
<1>2. IsFiniteSet(b) /\ Cardinality(b) \in Nat /\ Cardinality(b) # 0
  BY <1>1, WelcomeAssumption, FS_Subset, FS_CardinalityType, FS_EmptySet
<1>3. order \in [1 .. Cardinality(b) -> b]
  BY DEF SetToSeqs
<1>4. /\ DOMAIN claims = 1 .. Cardinality(b)
      /\ \A i \in 1 .. Cardinality(b) : claims[i].user \in b /\ claims[i] \in Claim
  BY <1>1, <1>3 DEF Claim, Document
<1>5. claims \in Seq(Claim)
  <2>1. claims \in [1 .. Cardinality(b) -> Claim]
    BY <1>4
  <2> QED BY <2>1, <1>2
<1>6. claims # <<>>
  BY <1>2, <1>4, <1>5, EmptySeq, LenProperties
<1>7. dispatcher' = [dispatcher EXCEPT ![d] = new]
  OBVIOUS
<1> HIDE DEF claims
<1>8. new \in Pass /\ new.claims = claims /\ new.pc = "dispatch"
  BY <1>5 DEF WelcomeTypeOK, Pass
<1> HIDE DEF new
<1>9. dispatcher' \in [Dispatcher -> Pass] /\ dispatcher'[d] = new
      /\ \A e \in Dispatcher : e # d => dispatcher'[e] = dispatcher[e]
  BY <1>7, <1>8 DEF WelcomeTypeOK
<1> QED BY <1>4, <1>6, <1>8, <1>9

-----------------------------------------------------------------------------
(* What a step does to one identity.                                       *)

\* The arming rule: it says one of the markers, keeps one that is there, and
\* says one to whoever is admitted.
Armed(marker, access, standing, new) ==
    /\ new \in Markers
    /\ marker # None => new = marker
    /\ new # marker => new \in {"due", "grandfathered", "no_verified_email"}
    /\ IsAdmitted(access, standing) => new # None

LEMMA ArmingRule ==
    ASSUME NEW marker \in Markers, NEW access, NEW standing, NEW byThis, NEW fresh, NEW email
    PROVE  Armed(marker, access, standing,
                 WelcomeMarkerAtEstablishment(marker, access, standing, byThis, fresh, email))
<1> DEFINE new == WelcomeMarkerAtEstablishment(marker, access, standing, byThis, fresh, email)
<1> DEFINE kept == marker # None \/ ~IsAdmitted(access, standing)
<1>1. CASE kept
  <2>1. new = marker
    BY <1>1 DEF WelcomeMarkerAtEstablishment
  <2> QED BY <1>1, <2>1 DEF Armed
<1>2. CASE ~kept
  <2>1. new \in {"due", "grandfathered", "no_verified_email"}
    BY <1>2, Zenon DEF WelcomeMarkerAtEstablishment
  <2>2. new \in Markers /\ new # None
    BY <2>1, WelcomeAssumption DEF Markers, Final
  <2> QED BY <1>2, <2>1, <2>2 DEF Armed
<1> QED BY <1>1, <1>2

\* The moves of one identity's document and of its place among the admitted:
\* nothing, a contact, a decision, a claim or its end, or a settlement.
Contacted(u) ==
    /\ user'[u] \in Document
    /\ user[u] # None /\ user[u].marker # None => user'[u].marker = user[u].marker
    /\ user'[u].marker \in {None, "due", "grandfathered", "no_verified_email"}
         \/ (user[u] # None /\ user'[u].marker = user[u].marker)
    /\ u \in admitted' => u \in admitted \/ user'[u].marker # None

Decided(u) == /\ user[u] # None /\ user'[u] \in Document
              /\ user'[u].marker = user[u].marker
              /\ u \in admitted' => u \in admitted

Claiming(u) == /\ user[u] # None /\ user'[u] \in Document
               /\ user[u].marker \in {"due", "claimed", "lapsed"}
               /\ user'[u].marker \in {"claimed", "lapsed"}
               /\ u \in admitted' => u \in admitted

Settling(u) ==
    /\ user[u] # None /\ user'[u] \in Document
    /\ u \in admitted' => u \in admitted
    /\ \E d \in Dispatcher :
         /\ dispatcher[d].pc = "settle" /\ Current(d).user = u
         /\ user'[u].marker = Settled(user[u].marker, dispatcher[d].outcome)

\* A contact that wrote nothing was one of a marked identity, or of one that
\* is not admitted.
Untouched(u) ==
    /\ user'[u] = user[u]
    /\ u \in admitted' => u \in admitted \/ (user[u] # None /\ user[u].marker # None)

Moved(u) == Contacted(u) \/ Decided(u) \/ Claiming(u) \/ Settling(u) \/ Untouched(u)

LEMMA EstablishMoves ==
    ASSUME WelcomeTypeOK, NEW v \in User, EstablishProductUserRecord(v), NEW u \in User
    PROVE  /\ user' \in [User -> Document \cup {None}] /\ admitted' \subseteq User
           /\ Contacted(u) \/ Untouched(u)
<1>1. user \in [User -> Document \cup {None}] /\ admitted \subseteq User
  BY DEF WelcomeTypeOK
<1>2. PICK e \in Emails : EstablishNew(v, e) \/ EstablishAgain(v, e)
  BY DEF EstablishProductUserRecord
<1>3. CASE EstablishNew(v, e)
  <2> DEFINE access == IF v \in allowlist THEN "approved" ELSE "awaiting_review"
             marker == WelcomeMarkerAtEstablishment(None, access, "active", TRUE, FALSE, e)
             new == Record(access, FALSE, e, marker)
  <2>1. /\ user[v] = None /\ user' = [user EXCEPT ![v] = new]
        /\ admitted' = IF v \in allowlist THEN admitted \cup {v} ELSE admitted
    BY <1>3 DEF EstablishNew
  <2>2. /\ marker \in Markers
        /\ marker # None => marker \in {"due", "grandfathered", "no_verified_email"}
        /\ v \in allowlist => marker # None
    <3> HIDE DEF access
    <3>1. None \in Markers
      BY DEF Markers
    <3>2. v \in allowlist => IsAdmitted(access, "active")
      BY DEF IsAdmitted, access
    <3>3. Armed(None, access, "active", marker)
      BY <3>1, ArmingRule
    <3> HIDE DEF marker
    <3> QED BY <3>2, <3>3 DEF Armed
  <2> HIDE DEF marker
  <2>3. new \in Document /\ new.marker = marker
    BY <2>2 DEF Record, Document
  <2> HIDE DEF new
  <2>4. user'[v] = new /\ (u # v => user'[u] = user[u])
    BY <1>1, <2>1
  <2>5. user' \in [User -> Document \cup {None}] /\ admitted' \subseteq User
    BY <1>1, <2>1, <2>3
  <2>6. CASE u = v
    BY <2>1, <2>2, <2>3, <2>4, <2>5, <2>6 DEF Contacted
  <2>7. CASE u # v
    BY <2>1, <2>4, <2>5, <2>7 DEF Untouched
  <2> QED BY <2>5, <2>6, <2>7
<1>4. CASE EstablishAgain(v, e)
  <2> DEFINE old == user[v]
             email == IF e = None THEN old.email ELSE e
             invited == old.access = "awaiting_review" /\ v \in allowlist
             access == IF invited THEN "approved" ELSE old.access
             marker == WelcomeMarkerAtEstablishment(old.marker, access, old.standing,
                                                    invited, old.fresh, email)
             new == [old EXCEPT !.email = email, !.access = access,
                       !.marker = marker, !.fresh = FALSE]
  <2>1. /\ old # None
        /\ user' = [user EXCEPT ![v] = new] \/ (marker = old.marker /\ user' = user)
        /\ admitted' = IF IsAdmitted(access, old.standing) THEN admitted \cup {v} ELSE admitted
    BY <1>4 DEF EstablishAgain
  <2>2. old \in Document
    BY <1>1, <2>1
  <2>3. old.marker \in Markers /\ old.fresh \in BOOLEAN /\ email \in Emails /\ invited \in BOOLEAN
    BY <2>2 DEF Document
  <2>4. /\ marker \in Markers /\ (old.marker # None => marker = old.marker)
        /\ marker # old.marker => marker \in {"due", "grandfathered", "no_verified_email"}
        /\ IsAdmitted(access, old.standing) => marker # None
    <3> HIDE DEF email, invited, access
    <3>1. Armed(old.marker, access, old.standing, marker)
      BY <2>3, ArmingRule
    <3> HIDE DEF marker
    <3> QED BY <3>1 DEF Armed
  <2>5. access \in {"awaiting_review", "approved", "declined"}
    BY <2>2 DEF Document
  <2> HIDE DEF marker, email, access, invited
  <2>6. new \in Document /\ new.marker = marker
    BY <2>2, <2>3, <2>4, <2>5 DEF Document
  <2> HIDE DEF new
  <2>7. user' \in [User -> Document \cup {None}] /\ admitted' \subseteq User
    BY <1>1, <2>1, <2>6
  <2>8. u \in admitted' => u \in admitted \/ (u = v /\ marker # None)
    BY <2>1, <2>4
  <2>9. CASE user' = [user EXCEPT ![v] = new] /\ u = v
    <3>1. user'[u] = new
      BY <1>1, <2>9
    <3> QED BY <2>1, <2>4, <2>6, <2>7, <2>8, <2>9, <3>1 DEF Contacted
  <2>10. CASE user' = [user EXCEPT ![v] = new] /\ u # v
    BY <1>1, <2>7, <2>8, <2>10 DEF Untouched
  <2>11. CASE marker = old.marker /\ user' = user
    BY <2>1, <2>7, <2>8, <2>11 DEF Untouched
  <2> QED BY <2>1, <2>9, <2>10, <2>11
<1> QED BY <1>2, <1>3, <1>4

\* A document with other values in it.
LEMMA Patched ==
    ASSUME user \in [User -> Document \cup {None}], NEW v \in User, NEW new \in Document,
           user' = [user EXCEPT ![v] = new], NEW u \in User
    PROVE  /\ user' \in [User -> Document \cup {None}]
           /\ user'[v] = new /\ (u # v => user'[u] = user[u])
  OBVIOUS

LEMMA DecisionMoves ==
    ASSUME WelcomeTypeOK, NEW v \in User, NEW u \in User,
           \/ \E t \in {"approved", "declined", "awaiting_review"} : DecideProductUserAccess(v, t)
           \/ \E t \in {"active", "suspended"} : SetStanding(v, t)
           \/ AllowlistEntry(v) \/ RemoveEntry(v)
    PROVE  /\ user' \in [User -> Document \cup {None}] /\ allowlist' \subseteq User
           /\ admitted' = admitted
           /\ Decided(u) \/ Untouched(u)
<1>1. user \in [User -> Document \cup {None}] /\ admitted \subseteq User /\ allowlist \subseteq User
  BY DEF WelcomeTypeOK
<1>2. ASSUME NEW new \in Document, user[v] # None, user' = [user EXCEPT ![v] = new],
             new.marker = user[v].marker, admitted' = admitted
      PROVE  user' \in [User -> Document \cup {None}] /\ (Decided(u) \/ Untouched(u))
  BY <1>1, <1>2, Patched DEF Decided, Untouched
<1>3. ASSUME user' = user, admitted' = admitted
      PROVE  user' \in [User -> Document \cup {None}] /\ (Decided(u) \/ Untouched(u))
  BY <1>1, <1>3 DEF Untouched
<1>4. CASE \E t \in {"approved", "declined", "awaiting_review"} : DecideProductUserAccess(v, t)
  <2>1. PICK t \in {"approved", "declined", "awaiting_review"} : DecideProductUserAccess(v, t)
    BY <1>4
  <2> DEFINE new == [user[v] EXCEPT !.access = t, !.fresh = TRUE]
  <2>2. /\ user[v] # None /\ user' = [user EXCEPT ![v] = new]
        /\ admitted' = admitted /\ allowlist' = allowlist
    BY <2>1 DEF DecideProductUserAccess, Deciding
  <2>3. new \in Document /\ new.marker = user[v].marker
    BY <1>1, <2>2 DEF Document
  <2> HIDE DEF new
  <2> QED BY <1>1, <1>2, <2>2, <2>3
<1>5. CASE \E t \in {"active", "suspended"} : SetStanding(v, t)
  <2>1. PICK t \in {"active", "suspended"} : SetStanding(v, t)
    BY <1>5
  <2> DEFINE new == [user[v] EXCEPT !.standing = t]
  <2>2. /\ user[v] # None /\ user' = [user EXCEPT ![v] = new]
        /\ admitted' = admitted /\ allowlist' = allowlist
    BY <2>1 DEF SetStanding, Deciding
  <2>3. new \in Document /\ new.marker = user[v].marker
    BY <1>1, <2>2 DEF Document
  <2> HIDE DEF new
  <2> QED BY <1>1, <1>2, <2>2, <2>3
<1>6. CASE AllowlistEntry(v)
  <2> DEFINE new == [user[v] EXCEPT !.access = "approved", !.fresh = TRUE]
  <2>1. /\ admitted' = admitted /\ allowlist' = allowlist \cup {v}
        /\ (user[v] # None /\ user' = [user EXCEPT ![v] = new]) \/ user' = user
    BY <1>6 DEF AllowlistEntry, Deciding
  <2>2. user[v] # None => new \in Document /\ new.marker = user[v].marker
    BY <1>1 DEF Document
  <2> HIDE DEF new
  <2> QED BY <1>1, <1>2, <1>3, <2>1, <2>2
<1>7. CASE RemoveEntry(v)
  BY <1>1, <1>3, <1>7 DEF RemoveEntry, Deciding
<1> QED BY <1>4, <1>5, <1>6, <1>7

LEMMA ClaimMoves ==
    ASSUME WelcomeTypeOK, NEW d \in Dispatcher, ClaimDueWelcomes(d), NEW u \in User
    PROVE  /\ user' \in [User -> Document \cup {None}]
           /\ Claiming(u) \/ Untouched(u)
<1>1. user \in [User -> Document \cup {None}]
  BY DEF WelcomeTypeOK
<1>2. PICK b \in Claimable :
         user' = [w \in User |-> IF w \in b THEN [user[w] EXCEPT !.marker = "claimed"] ELSE user[w]]
  BY DEF ClaimDueWelcomes
<1>3. \A w \in b : w \in User /\ user[w] \in Document /\ user[w].marker \in {"due", "lapsed"}
  BY <1>1, <1>2 DEF Claimable, Marked
<1>4. \A w \in User : w \in b => /\ [user[w] EXCEPT !.marker = "claimed"] \in Document
                                /\ [user[w] EXCEPT !.marker = "claimed"].marker = "claimed"
  BY <1>3 DEF Document, Markers
<1>5. user' \in [User -> Document \cup {None}]
  BY <1>1, <1>2, <1>4
<1>6. admitted' = admitted
  BY DEF ClaimDueWelcomes
<1>7. CASE u \in b
  <2>1. user'[u] = [user[u] EXCEPT !.marker = "claimed"]
    BY <1>2, <1>7
  <2> QED BY <1>3, <1>4, <1>5, <1>6, <1>7, <2>1, WelcomeAssumption DEF Claiming
<1>8. CASE u \notin b
  BY <1>2, <1>5, <1>6, <1>8 DEF Untouched
<1> QED BY <1>7, <1>8

LEMMA SettleMoves ==
    ASSUME WelcomeTypeOK, PassesInStep, NEW d \in Dispatcher, SettleWelcome(d), NEW u \in User
    PROVE  /\ user' \in [User -> Document \cup {None}]
           /\ Settling(u) \/ Untouched(u)
<1>1. /\ user \in [User -> Document \cup {None}] /\ dispatcher[d] \in Pass
      /\ dispatcher[d].pc = "settle" /\ admitted' = admitted
      /\ Current(d).user \in User /\ user[Current(d).user] \in Document
  BY HeadClaim DEF WelcomeTypeOK, SettleWelcome
<1> DEFINE v == Current(d).user
           marker == Settled(user[v].marker, dispatcher[d].outcome)
           new == [user[v] EXCEPT !.marker = marker]
<1>2. user' = [user EXCEPT ![v] = new] \/ user' = user
  BY DEF SettleWelcome
<1>3. dispatcher[d].outcome \in {"sent", "no_verified_email"}
  BY <1>1 DEF PassesInStep, Pass
<1>4. marker \in Markers
  BY <1>1, <1>3 DEF Settled, Document, Markers, Final
<1> HIDE DEF marker
<1>5. new \in Document /\ new.marker = marker
  BY <1>1, <1>4 DEF Document
<1> HIDE DEF new
<1>6. PICK w \in User : w = v
  BY <1>1
<1>7. CASE user' = [user EXCEPT ![v] = new]
  <2>1. /\ user' \in [User -> Document \cup {None}] /\ user'[w] = new
        /\ u # w => user'[u] = user[u]
    BY <1>1, <1>5, <1>6, <1>7
  <2>2. CASE u = w
    <3>1. user[u] # None
      BY <1>1, <1>6, <2>2, WelcomeAssumption
    <3>2. user'[u].marker = Settled(user[u].marker, dispatcher[d].outcome)
      BY <1>5, <1>6, <2>1, <2>2 DEF marker
    <3> QED BY <1>1, <1>5, <1>6, <2>1, <2>2, <3>1, <3>2 DEF Settling
  <2>3. CASE u # w
    BY <1>1, <2>1, <2>3 DEF Untouched
  <2> QED BY <2>1, <2>2, <2>3
<1>8. CASE user' = user
  BY <1>1, <1>8 DEF Untouched
<1> QED BY <1>2, <1>7, <1>8

\* Every step moves every identity in one of the five ways.
LEMMA Moves ==
    ASSUME WelcomeTypeOK, PassesInStep, [WelcomeNext]_vars, NEW u \in User
    PROVE  Moved(u)
<1>1. ASSUME UNCHANGED <<user, admitted>> PROVE Untouched(u)
  BY <1>1 DEF Untouched
<1>2. CASE UNCHANGED vars
  BY <1>1, <1>2 DEF Moved, vars
<1>3. ASSUME NEW v \in User, EstablishProductUserRecord(v) PROVE Moved(u)
  BY <1>3, EstablishMoves DEF Moved
<1>4. ASSUME NEW v \in User,
             \/ \E t \in {"approved", "declined", "awaiting_review"} : DecideProductUserAccess(v, t)
             \/ \E t \in {"active", "suspended"} : SetStanding(v, t)
             \/ AllowlistEntry(v) \/ RemoveEntry(v)
      PROVE  Moved(u)
  BY <1>4, DecisionMoves DEF Moved
<1>5. ASSUME NEW v \in User, ClaimLapses(v) PROVE Moved(u)
  <2> DEFINE new == [user[v] EXCEPT !.marker = "lapsed"]
  <2>1. /\ user \in [User -> Document \cup {None}] /\ user[v] \in Document
        /\ user[v] # None /\ user[v].marker = "claimed"
    BY <1>5 DEF WelcomeTypeOK, ClaimLapses, Marked
  <2>2. user' = [user EXCEPT ![v] = new] /\ admitted' = admitted
    BY <1>5 DEF ClaimLapses
  <2>3. new \in Document /\ new.marker = "lapsed"
    BY <2>1 DEF Document, Markers
  <2> HIDE DEF new
  <2> QED BY <2>1, <2>2, <2>3, Patched DEF Moved, Claiming, Untouched
<1>6. ASSUME NEW v \in User, IntentEnds(v) PROVE Moved(u)
  BY <1>1, <1>6 DEF IntentEnds, directory, Moved
<1>7. ASSUME NEW d \in Dispatcher, ClaimDueWelcomes(d) PROVE Moved(u)
  BY <1>7, ClaimMoves DEF Moved
<1>8. ASSUME NEW d \in Dispatcher, DispatchOne(d) PROVE Moved(u)
  BY <1>1, <1>8 DEF DispatchOne, directory, Moved
<1>9. ASSUME NEW d \in Dispatcher, SettleWelcome(d) PROVE Moved(u)
  BY <1>9, SettleMoves DEF Moved
<1>10. ASSUME NEW d \in Dispatcher, Crash(d) PROVE Moved(u)
  BY <1>1, <1>10 DEF Crash, directory, Moved
<1> QED BY <1>2, <1>3, <1>4, <1>5, <1>6, <1>7, <1>8, <1>9, <1>10 DEF WelcomeNext

-----------------------------------------------------------------------------
(* What a step does to a pass, and to the outbox.                          *)

\* A pass stays as it is, is handed claims, answers the claim it is at, drops
\* it, or ends.
Kept(d) == dispatcher'[d] = dispatcher[d]
Handed(d) == dispatcher'[d].pc = "dispatch" /\ dispatcher'[d].claims # <<>>
             /\ \A n \in DOMAIN dispatcher'[d].claims : user[dispatcher'[d].claims[n].user] # None
Answers(d) == /\ dispatcher[d].pc = "dispatch" /\ dispatcher'[d].pc = "settle"
              /\ dispatcher'[d].claims = dispatcher[d].claims /\ dispatcher'[d].claims # <<>>
              /\ dispatcher'[d].outcome \in {"sent", "no_verified_email"}
              /\ dispatcher'[d].outcome = "sent" => inserted'[Current(d).user] > 0
Drops(d) == /\ dispatcher'[d].pc \in {"idle", "dispatch"}
            /\ dispatcher'[d].pc = "idle" <=> dispatcher'[d].claims = <<>>
            /\ \A n \in DOMAIN dispatcher'[d].claims :
                 /\ n + 1 \in DOMAIN dispatcher[d].claims
                 /\ dispatcher'[d].claims[n] = dispatcher[d].claims[n + 1]
Ends(d) == dispatcher'[d] = Idle

\* The outbox inserts an intent only where there is none.
OutboxGrows(u) ==
    /\ inserted'[u] \in Nat /\ inserted'[u] >= inserted[u] /\ pruned'[u] >= pruned[u]
    /\ inserted[u] <= pruned[u] + (IF intent[u] = None THEN 0 ELSE 1) =>
         inserted'[u] <= pruned'[u] + (IF intent'[u] = None THEN 0 ELSE 1)
    /\ intent'[u] # None => inserted'[u] > 0

PassMoved(d) == Kept(d) \/ Handed(d) \/ Answers(d) \/ Drops(d) \/ Ends(d)

Typed == /\ dispatcher' \in [Dispatcher -> Pass] /\ intent' \in [User -> {None, "live", "final"}]
         /\ inserted' \in [User -> Nat] /\ pruned' \in [User -> Nat]

LEMMA DispatchPass ==
    ASSUME WelcomeTypeOK, PassesInStep, NEW d \in Dispatcher, DispatchOne(d),
           InsertedIsAccounted
    PROVE  /\ Typed
           /\ \A e \in Dispatcher : PassMoved(e)
           /\ \A u \in User : OutboxGrows(u)
<1>1. /\ dispatcher \in [Dispatcher -> Pass] /\ intent \in [User -> {None, "live", "final"}]
      /\ inserted \in [User -> Nat] /\ pruned \in [User -> Nat] /\ pruned' = pruned
  BY DEF WelcomeTypeOK, DispatchOne
<1>2. dispatcher[d].pc = "dispatch" /\ Current(d).user \in User
  BY <1>1, HeadClaim DEF DispatchOne
<1>3. PICK v \in User : v = Current(d).user
  BY <1>2
<1>4. ASSUME UNCHANGED <<intent, inserted>>
      PROVE  /\ intent' \in [User -> {None, "live", "final"}] /\ inserted' \in [User -> Nat]
             /\ \A u \in User : OutboxGrows(u)
  BY <1>1, <1>4 DEF OutboxGrows, InsertedIsAccounted
<1>5. ASSUME NEW o \in {"sent", "no_verified_email"},
             dispatcher' = [dispatcher EXCEPT ![d].pc = "settle", ![d].outcome = o],
             o = "sent" => inserted'[v] > 0
      PROVE  dispatcher' \in [Dispatcher -> Pass] /\ \A e \in Dispatcher : PassMoved(e)
  <2>1. /\ dispatcher' \in [Dispatcher -> Pass]
        /\ \A e \in Dispatcher : e # d => dispatcher'[e] = dispatcher[e]
        /\ dispatcher'[d].pc = "settle" /\ dispatcher'[d].outcome = o
        /\ dispatcher'[d].claims = dispatcher[d].claims /\ dispatcher[d].claims # <<>>
    BY <1>1, <1>2, <1>5, Answered
  <2>2. Answers(d)
    BY <1>2, <1>3, <1>5, <2>1 DEF Answers
  <2> QED BY <2>1, <2>2 DEF PassMoved, Kept
<1>6. CASE /\ Current(d).email # "usable" /\ UNCHANGED <<intent, inserted>>
           /\ dispatcher' = [dispatcher EXCEPT ![d].pc = "settle", ![d].outcome = "no_verified_email"]
  BY <1>1, <1>4, <1>5, <1>6 DEF Typed
<1>7. CASE /\ dispatcher' = [dispatcher EXCEPT ![d].pc = "settle", ![d].outcome = "sent"]
           /\ intent[v] = None
           /\ intent' = [intent EXCEPT ![v] = "live"]
           /\ inserted' = [inserted EXCEPT ![v] = @ + 1]
  <2>1. /\ intent' \in [User -> {None, "live", "final"}] /\ inserted' \in [User -> Nat]
        /\ inserted'[v] = inserted[v] + 1 /\ intent'[v] = "live"
        /\ \A u \in User : u # v => inserted'[u] = inserted[u] /\ intent'[u] = intent[u]
        /\ inserted[v] \in Nat
    BY <1>1, <1>7
  <2>2. \A u \in User : OutboxGrows(u)
    BY <1>1, <1>7, <2>1, WelcomeAssumption DEF OutboxGrows, InsertedIsAccounted
  <2> QED BY <1>1, <1>5, <1>7, <2>1, <2>2 DEF Typed
<1>8. CASE /\ dispatcher' = [dispatcher EXCEPT ![d].pc = "settle", ![d].outcome = "sent"]
           /\ intent[v] # None /\ UNCHANGED <<intent, inserted>>
  BY <1>1, <1>4, <1>5, <1>8 DEF Typed, InsertedIsAccounted
<1>9. CASE NextIdentity(d) /\ UNCHANGED <<intent, inserted>>
  <2>1. /\ dispatcher' \in [Dispatcher -> Pass]
        /\ \A e \in Dispatcher : e # d => Kept(e)
        /\ Drops(d)
    BY <1>1, <1>2, <1>9, PassedOn DEF Kept, Drops
  <2> QED BY <1>1, <1>4, <1>9, <2>1 DEF Typed, PassMoved
<1> QED BY <1>3, <1>6, <1>7, <1>8, <1>9 DEF DispatchOne

\* Every step types the passes and the outbox, and moves them in these ways.
LEMMA PassMoves ==
    ASSUME WelcomeTypeOK, PassesInStep, [WelcomeNext]_vars,
           InsertedIsAccounted
    PROVE  /\ Typed
           /\ \A d \in Dispatcher : PassMoved(d)
           /\ \A u \in User : OutboxGrows(u)
<1>1. /\ dispatcher \in [Dispatcher -> Pass] /\ intent \in [User -> {None, "live", "final"}]
      /\ inserted \in [User -> Nat] /\ pruned \in [User -> Nat]
  BY DEF WelcomeTypeOK
<1>2. ASSUME UNCHANGED <<intent, inserted, pruned>>
      PROVE  /\ intent' \in [User -> {None, "live", "final"}] /\ inserted' \in [User -> Nat]
             /\ pruned' \in [User -> Nat] /\ \A u \in User : OutboxGrows(u)
  BY <1>1, <1>2 DEF OutboxGrows, InsertedIsAccounted
<1>3. ASSUME UNCHANGED <<dispatcher, intent, inserted, pruned>>
      PROVE  Typed /\ (\A d \in Dispatcher : PassMoved(d)) /\ (\A u \in User : OutboxGrows(u))
  BY <1>1, <1>2, <1>3 DEF Typed, PassMoved, Kept
<1>4. CASE UNCHANGED vars
  BY <1>3, <1>4 DEF vars
<1>5. CASE \E u \in User :
             \/ EstablishProductUserRecord(u)
             \/ \E t \in {"approved", "declined", "awaiting_review"} : DecideProductUserAccess(u, t)
             \/ \E s \in {"active", "suspended"} : SetStanding(u, s)
             \/ AllowlistEntry(u) \/ RemoveEntry(u) \/ ClaimLapses(u)
  <2>1. UNCHANGED <<dispatcher, intent, inserted, pruned>>
    BY <1>5 DEF EstablishProductUserRecord, DecideProductUserAccess, SetStanding, AllowlistEntry,
                RemoveEntry, ClaimLapses, Deciding
  <2> QED BY <1>3, <2>1
<1>6. ASSUME NEW v \in User, IntentEnds(v)
      PROVE  Typed /\ (\A d \in Dispatcher : PassMoved(d)) /\ (\A u \in User : OutboxGrows(u))
  <2>1. dispatcher' = dispatcher /\ inserted' = inserted
    BY <1>6 DEF IntentEnds
  <2>2. CASE intent[v] = "live" /\ intent' = [intent EXCEPT ![v] = "final"] /\ pruned' = pruned
    BY <1>1, <2>1, <2>2, WelcomeAssumption
    DEF Typed, PassMoved, Kept, OutboxGrows, InsertedIsAccounted
  <2>3. CASE intent[v] = "final" /\ intent' = [intent EXCEPT ![v] = None]
             /\ pruned' = [pruned EXCEPT ![v] = @ + 1]
    BY <1>1, <2>1, <2>3, WelcomeAssumption
    DEF Typed, PassMoved, Kept, OutboxGrows, InsertedIsAccounted
  <2> QED BY <1>6, <2>2, <2>3 DEF IntentEnds
<1>7. ASSUME NEW d \in Dispatcher, ClaimDueWelcomes(d)
      PROVE  Typed /\ (\A e \in Dispatcher : PassMoved(e)) /\ (\A u \in User : OutboxGrows(u))
  <2>1. UNCHANGED <<intent, inserted, pruned>>
    BY <1>7 DEF ClaimDueWelcomes
  <2>2. PICK b \in Claimable : b # {} /\
           \/ \E order \in SetToSeqs(b) :
                dispatcher' = [dispatcher EXCEPT ![d].pc = "dispatch",
                  ![d].claims = [i \in DOMAIN order |->
                     [user |-> order[i], email |-> user[order[i]].email]]]
           \/ dispatcher' = dispatcher
    BY <1>7 DEF ClaimDueWelcomes
  <2>3. \A u \in b : user[u] # None
    BY <2>2 DEF Claimable, Marked
  <2>4. CASE dispatcher' = dispatcher
    BY <1>3, <2>1, <2>4
  <2>5. ASSUME NEW order \in SetToSeqs(b),
               dispatcher' = [dispatcher EXCEPT ![d].pc = "dispatch",
                  ![d].claims = [i \in DOMAIN order |->
                     [user |-> order[i], email |-> user[order[i]].email]]]
        PROVE  dispatcher' \in [Dispatcher -> Pass] /\ \A e \in Dispatcher : PassMoved(e)
    <3>1. /\ dispatcher' \in [Dispatcher -> Pass]
          /\ \A e \in Dispatcher : e # d => dispatcher'[e] = dispatcher[e]
          /\ dispatcher'[d].pc = "dispatch" /\ dispatcher'[d].claims # <<>>
          /\ \A n \in DOMAIN dispatcher'[d].claims : dispatcher'[d].claims[n].user \in b
      BY <2>2, <2>5, Claimed
    <3> QED BY <2>3, <3>1 DEF PassMoved, Kept, Handed
  <2> QED BY <1>2, <2>1, <2>2, <2>4, <2>5 DEF Typed
<1>8. ASSUME NEW d \in Dispatcher, DispatchOne(d)
      PROVE  Typed /\ (\A e \in Dispatcher : PassMoved(e)) /\ (\A u \in User : OutboxGrows(u))
  BY <1>8, DispatchPass
<1>9. ASSUME NEW d \in Dispatcher, SettleWelcome(d)
      PROVE  Typed /\ (\A e \in Dispatcher : PassMoved(e)) /\ (\A u \in User : OutboxGrows(u))
  <2>1. /\ UNCHANGED <<intent, inserted, pruned>> /\ NextIdentity(d)
        /\ dispatcher[d].pc # "idle"
    BY <1>9 DEF SettleWelcome
  <2>2. /\ dispatcher' \in [Dispatcher -> Pass]
        /\ \A e \in Dispatcher : e # d => Kept(e)
        /\ Drops(d)
    BY <1>1, <2>1, PassedOn DEF Kept, Drops
  <2> QED BY <1>2, <2>1, <2>2 DEF Typed, PassMoved
<1>10. ASSUME NEW d \in Dispatcher, Crash(d)
       PROVE  Typed /\ (\A e \in Dispatcher : PassMoved(e)) /\ (\A u \in User : OutboxGrows(u))
  <2>1. UNCHANGED <<intent, inserted, pruned>> /\ dispatcher' = [dispatcher EXCEPT ![d] = Idle]
    BY <1>10 DEF Crash
  <2>2. Idle \in Pass
    BY DEF Idle, Pass
  <2>3. dispatcher' \in [Dispatcher -> Pass] /\ \A e \in Dispatcher : PassMoved(e)
    BY <1>1, <2>1, <2>2 DEF PassMoved, Kept, Ends
  <2> QED BY <1>2, <2>1, <2>3 DEF Typed
<1> QED BY <1>4, <1>5, <1>6, <1>7, <1>8, <1>9, <1>10 DEF WelcomeNext

-----------------------------------------------------------------------------
(* The invariant.                                                          *)

LEMMA DirectoryTyped ==
    ASSUME WelcomeTypeOK, PassesInStep, [WelcomeNext]_vars
    PROVE  /\ user' \in [User -> Document \cup {None}]
           /\ allowlist' \subseteq User /\ admitted' \subseteq User
           /\ decisions' \in Nat /\ faults' \in Nat
<1>1. /\ user \in [User -> Document \cup {None}] /\ allowlist \subseteq User
      /\ admitted \subseteq User /\ decisions \in Nat /\ faults \in Nat
  BY DEF WelcomeTypeOK
<1>2. CASE UNCHANGED vars
  BY <1>1, <1>2 DEF vars
<1>3. CASE \E v \in User : EstablishProductUserRecord(v)
  BY <1>1, <1>3, EstablishMoves DEF EstablishProductUserRecord
<1>4. CASE \E v \in User :
             \/ \E t \in {"approved", "declined", "awaiting_review"} : DecideProductUserAccess(v, t)
             \/ \E t \in {"active", "suspended"} : SetStanding(v, t)
             \/ AllowlistEntry(v) \/ RemoveEntry(v)
  <2>1. /\ user' \in [User -> Document \cup {None}] /\ allowlist' \subseteq User
        /\ admitted' = admitted
    BY <1>4, DecisionMoves
  <2>2. decisions' = decisions + 1 /\ faults' = faults
    BY <1>4 DEF DecideProductUserAccess, SetStanding, AllowlistEntry, RemoveEntry, Deciding
  <2> QED BY <1>1, <2>1, <2>2
<1>5. ASSUME NEW v \in User, ClaimLapses(v)
      PROVE  user' \in [User -> Document \cup {None}] /\ UNCHANGED <<allowlist, admitted, decisions, faults>>
  <2> DEFINE new == [user[v] EXCEPT !.marker = "lapsed"]
  <2>1. user[v] \in Document /\ user' = [user EXCEPT ![v] = new]
    BY <1>1, <1>5 DEF ClaimLapses, Marked
  <2>2. new \in Document
    BY <2>1 DEF Document, Markers
  <2> HIDE DEF new
  <2> QED BY <1>1, <1>5, <2>1, <2>2 DEF ClaimLapses
<1>6. CASE \E v \in User : IntentEnds(v)
  BY <1>1, <1>6 DEF IntentEnds, directory
<1>7. CASE \E d \in Dispatcher : ClaimDueWelcomes(d)
  BY <1>1, <1>7, ClaimMoves DEF ClaimDueWelcomes
<1>8. CASE \E d \in Dispatcher : DispatchOne(d)
  BY <1>1, <1>8 DEF DispatchOne, directory
<1>9. CASE \E d \in Dispatcher : SettleWelcome(d)
  BY <1>1, <1>9, SettleMoves DEF SettleWelcome
<1>10. CASE \E d \in Dispatcher : Crash(d)
  BY <1>1, <1>10 DEF Crash, directory
<1> QED BY <1>1, <1>2, <1>3, <1>4, <1>5, <1>6, <1>7, <1>8, <1>9, <1>10 DEF WelcomeNext

LEMMA InitialInv ==
    ASSUME WelcomeInit
    PROVE  WelcomeInv
<1> USE WelcomeAssumption DEF WelcomeInit
<1>1. WelcomeTypeOK
  <2>1. Record("approved", FALSE, "usable", None) \in Document /\ Idle \in Pass
    BY DEF Record, Document, Emails, Markers, Idle, Pass
  <2> QED BY <2>1 DEF WelcomeTypeOK
<1>2. PassesInStep /\ SentIsEnqueued
  <2>1. \A d \in Dispatcher : dispatcher[d].pc = "idle" /\ dispatcher[d].claims = <<>>
    BY DEF Idle
  <2>2. DOMAIN <<>> = {}
    OBVIOUS
  <2> QED BY <2>1, <2>2 DEF PassesInStep, SentIsEnqueued
<1>3. SentWasEnqueued
  BY DEF SentWasEnqueued, Marked, Record, Final
<1>4. InsertedIsAccounted
  BY DEF InsertedIsAccounted
<1>5. AdmittedIsMarked
  <2>1. \A u \in Legacy : user[u] = Record("approved", FALSE, "usable", None)
    OBVIOUS
  <2>2. Record("approved", FALSE, "usable", None) # None
    <3>1. Record("approved", FALSE, "usable", None) \in Document
      BY DEF Record, Document, Emails, Markers
    <3> QED BY <3>1
  <2> QED BY <2>1, <2>2 DEF AdmittedIsMarked
<1> QED BY <1>1, <1>2, <1>3, <1>4, <1>5 DEF WelcomeInv

LEMMA InvariantStep ==
    ASSUME WelcomeInv, [WelcomeNext]_vars
    PROVE  WelcomeInv'
<1>1. /\ WelcomeTypeOK /\ PassesInStep /\ SentIsEnqueued /\ SentWasEnqueued
      /\ InsertedIsAccounted /\ AdmittedIsMarked
  BY DEF WelcomeInv
<1>2. /\ Typed
      /\ \A d \in Dispatcher : PassMoved(d)
      /\ \A u \in User : OutboxGrows(u)
  BY <1>1, PassMoves
<1>3. \A u \in User : Moved(u)
  BY <1>1, Moves
<1>4. WelcomeTypeOK'
  BY <1>1, <1>2, DirectoryTyped DEF WelcomeTypeOK, Typed
<1>5. \A u \in User : user[u] # None => user'[u] # None
  BY <1>3, WelcomeAssumption DEF Moved, Contacted, Decided, Claiming, Settling, Untouched
<1>6. ASSUME NEW d \in Dispatcher
      PROVE  /\ dispatcher'[d].pc = "idle" <=> dispatcher'[d].claims = <<>>
             /\ dispatcher'[d].pc = "settle" => dispatcher'[d].outcome # None
             /\ \A n \in DOMAIN dispatcher'[d].claims : user'[dispatcher'[d].claims[n].user] # None
  <2>1. dispatcher[d] \in Pass /\ dispatcher'[d] \in Pass
    BY <1>1, <1>2 DEF WelcomeTypeOK, Typed
  <2>2. /\ \A n \in DOMAIN dispatcher[d].claims : dispatcher[d].claims[n].user \in User
        /\ \A n \in DOMAIN dispatcher'[d].claims : dispatcher'[d].claims[n].user \in User
    <3>1. dispatcher[d].claims \in Seq(Claim) /\ dispatcher'[d].claims \in Seq(Claim)
      BY <2>1 DEF Pass
    <3>2. \A c \in Claim : c.user \in User
      BY DEF Claim
    <3> QED BY <3>1, <3>2, ElementOfSeq, LenProperties
  <2>3. CASE Kept(d)
    BY <1>1, <1>5, <2>2, <2>3 DEF Kept, PassesInStep
  <2>4. CASE Handed(d)
    BY <1>5, <2>2, <2>4 DEF Handed
  <2>5. CASE Answers(d)
    BY <1>1, <1>5, <2>2, <2>5, WelcomeAssumption DEF Answers, PassesInStep, Final
  <2>6. CASE Drops(d)
    BY <1>1, <1>5, <2>2, <2>6 DEF Drops, PassesInStep
  <2>7. CASE Ends(d)
    BY <2>7 DEF Ends, Idle
  <2> QED BY <1>2, <2>3, <2>4, <2>5, <2>6, <2>7 DEF PassMoved
<1>7. PassesInStep'
  BY <1>6 DEF PassesInStep
<1>8. ASSUME NEW d \in Dispatcher, dispatcher'[d].pc = "settle", dispatcher'[d].outcome = "sent"
      PROVE  inserted'[Head(dispatcher'[d].claims).user] > 0
  <2>1. CASE Kept(d)
    <3>1. Current(d).user \in User /\ inserted[Current(d).user] > 0
      BY <1>1, <1>8, <2>1, HeadClaim DEF Kept, WelcomeTypeOK, SentIsEnqueued
    <3>2. PICK u \in User : u = Current(d).user
      BY <3>1
    <3>3. inserted'[u] > 0
      BY <1>1, <1>2, <3>1, <3>2 DEF OutboxGrows, WelcomeTypeOK
    <3> QED BY <2>1, <3>2, <3>3 DEF Kept, Current
  <2>2. CASE Answers(d)
    BY <1>8, <2>2 DEF Answers, Current
  <2> QED BY <1>2, <1>8, <2>1, <2>2 DEF PassMoved, Handed, Drops, Ends, Idle
<1>9. SentIsEnqueued'
  BY <1>8 DEF SentIsEnqueued, Current
<1>10. ASSUME NEW u \in User, user'[u] # None, user'[u].marker = "sent"
       PROVE  inserted'[u] > 0
  <2>1. inserted[u] \in Nat /\ inserted'[u] \in Nat /\ inserted'[u] >= inserted[u]
    BY <1>1, <1>2 DEF OutboxGrows, WelcomeTypeOK
  <2>2. CASE user[u] # None /\ user[u].marker = "sent"
    BY <1>1, <2>1, <2>2 DEF SentWasEnqueued, Marked
  <2>3. CASE ~(user[u] # None /\ user[u].marker = "sent")
    <3>1. Settling(u)
      BY <1>3, <1>10, <2>3, WelcomeAssumption
      DEF Moved, Contacted, Decided, Claiming, Untouched, Final
    <3>2. PICK d \in Dispatcher :
             /\ dispatcher[d].pc = "settle" /\ Current(d).user = u
             /\ user'[u].marker = Settled(user[u].marker, dispatcher[d].outcome)
      BY <3>1 DEF Settling
    <3>3. dispatcher[d].outcome = "sent"
      BY <1>10, <2>3, <3>1, <3>2 DEF Settled, Settling
    <3> QED BY <1>1, <2>1, <3>2, <3>3 DEF SentIsEnqueued
  <2> QED BY <2>2, <2>3
<1>11. SentWasEnqueued'
  BY <1>10 DEF SentWasEnqueued, Marked
<1>12. InsertedIsAccounted'
  BY <1>1, <1>2 DEF InsertedIsAccounted, OutboxGrows
<1>13. ASSUME NEW u \in User, u \in admitted'
       PROVE  user'[u] # None /\ (u \notin Legacy => user'[u].marker # None)
  <2>1. u \in admitted => user[u] # None /\ (u \notin Legacy => user[u].marker # None)
    BY <1>1 DEF AdmittedIsMarked
  <2>2. CASE Contacted(u)
    BY <1>13, <2>1, <2>2, WelcomeAssumption DEF Contacted
  <2>3. CASE Decided(u)
    BY <1>13, <2>1, <2>3, WelcomeAssumption DEF Decided
  <2>4. CASE Claiming(u)
    BY <1>13, <2>1, <2>4, WelcomeAssumption DEF Claiming
  <2>5. CASE Settling(u)
    <3>1. PICK d \in Dispatcher :
             /\ dispatcher[d].pc = "settle"
             /\ user'[u].marker = Settled(user[u].marker, dispatcher[d].outcome)
      BY <2>5 DEF Settling
    <3>2. dispatcher[d].outcome # None
      BY <1>1, <3>1 DEF PassesInStep
    <3> QED BY <1>13, <2>1, <2>5, <3>1, <3>2, WelcomeAssumption DEF Settling, Settled
  <2>6. CASE Untouched(u)
    BY <1>13, <2>1, <2>6 DEF Untouched
  <2> QED BY <1>3, <2>2, <2>3, <2>4, <2>5, <2>6 DEF Moved
<1>14. AdmittedIsMarked'
  BY <1>4, <1>13 DEF AdmittedIsMarked, WelcomeTypeOK
<1> QED BY <1>4, <1>7, <1>9, <1>11, <1>12, <1>14 DEF WelcomeInv

THEOREM WelcomeInvAlways == WelcomeSpec => []WelcomeInv
  BY InitialInv, InvariantStep, PTL DEF WelcomeSpec

-----------------------------------------------------------------------------
(* The theorems.                                                           *)

\* Documents, passes and the outbox keep their shapes.
THEOREM WelcomeTypeCorrect == WelcomeSpec => []WelcomeTypeOK
<1>1. WelcomeInv => WelcomeTypeOK
  BY DEF WelcomeInv
<1> QED BY <1>1, WelcomeInvAlways, PTL

\* An identity whose welcome is settled as sent was given an intent, and another
\* only for each of its own that was pruned from the outbox, though claims lapse,
\* settlements are lost and passes die between the enqueue and the settlement
\* (dispatch-service.ts, productUserWelcome.ts).
THEOREM EnqueuedOnceAlways == WelcomeSpec => []EnqueuedOnce
<1>1. ASSUME WelcomeInv PROVE EnqueuedOnce
  <2>1. \A u \in User : inserted[u] <= 1 + pruned[u]
    <3>1. \A u \in User : /\ inserted[u] \in Nat /\ pruned[u] \in Nat
                          /\ inserted[u] <= pruned[u] + (IF intent[u] = None THEN 0 ELSE 1)
      BY <1>1 DEF WelcomeInv, WelcomeTypeOK, InsertedIsAccounted
    <3> QED BY <3>1
  <2> QED BY <1>1, <2>1 DEF EnqueuedOnce, OneIntentAtATime, WelcomeInv
<1> QED BY <1>1, WelcomeInvAlways, PTL

\* A welcome becomes due only at the first session an identity has while
\* admitted, in whatever order it signs in and is approved, declined, revoked,
\* suspended and listed (welcomeMarkerAtEstablishment).
THEOREM ArmedAtFirstAdmissionAlways == WelcomeSpec => ArmedAtFirstAdmission
<1>1. ASSUME WelcomeInv, [WelcomeNext]_vars, NEW u \in User \ Legacy,
             user'[u] # None, user'[u].marker = "due", ~Marked(u, {"due"})
      PROVE  u \notin admitted
  <2>1. Moved(u)
    BY <1>1, Moves DEF WelcomeInv
  <2>2. user[u] = None \/ user[u].marker = None
    <3>1. CASE Contacted(u)
      BY <1>1, <3>1 DEF Contacted, Marked
    <3>2. CASE Decided(u)
      BY <1>1, <3>2 DEF Decided, Marked
    <3>3. CASE Claiming(u)
      BY <1>1, <3>3 DEF Claiming
    <3>4. CASE Settling(u)
      <4>1. PICK d \in Dispatcher :
               /\ dispatcher[d].pc = "settle"
               /\ user'[u].marker = Settled(user[u].marker, dispatcher[d].outcome)
        BY <3>4 DEF Settling
      <4>2. dispatcher[d].outcome \in {"sent", "no_verified_email"}
        BY <1>1, <4>1 DEF WelcomeInv, WelcomeTypeOK, Pass, PassesInStep
      <4> QED BY <1>1, <3>4, <4>1, <4>2 DEF Settled, Settling, Marked
    <3>5. CASE Untouched(u)
      BY <1>1, <3>5 DEF Untouched, Marked
    <3> QED BY <2>1, <3>1, <3>2, <3>3, <3>4, <3>5 DEF Moved
  <2> QED BY <1>1, <2>2 DEF WelcomeInv, AdmittedIsMarked
<1>2. ASSUME WelcomeInv, [WelcomeNext]_vars
      PROVE  [\A u \in User \ Legacy :
                user'[u] # None /\ user'[u].marker = "due" /\ ~Marked(u, {"due"})
                  => u \notin admitted]_vars
  BY <1>1, <1>2
<1> QED BY <1>2, WelcomeInvAlways, PTL DEF WelcomeSpec, ArmedAtFirstAdmission

\* A final marker outlives every later contact, decision and settlement, and
\* no marker is taken back (productUserRecords.ts, productUserWelcome.ts).
THEOREM MarkerMovesForwardAlways == WelcomeSpec => MarkerMovesForward
<1>1. ASSUME WelcomeInv, [WelcomeNext]_vars, NEW u \in User, user[u] # None
      PROVE  /\ Marked(u, Final) => user'[u].marker = user[u].marker
             /\ user[u].marker # None => user'[u].marker # None
  <2>1. Moved(u)
    BY <1>1, Moves DEF WelcomeInv
  <2>2. CASE Contacted(u)
    BY <1>1, <2>2, WelcomeAssumption DEF Contacted, Marked
  <2>3. CASE Decided(u)
    BY <2>3 DEF Decided
  <2>4. CASE Claiming(u)
    BY <1>1, <2>4, WelcomeAssumption DEF Claiming, Marked, Final
  <2>5. CASE Settling(u)
    <3>1. PICK d \in Dispatcher :
             /\ dispatcher[d].pc = "settle"
             /\ user'[u].marker = Settled(user[u].marker, dispatcher[d].outcome)
      BY <2>5 DEF Settling
    <3>2. dispatcher[d].outcome # None
      BY <1>1, <3>1 DEF WelcomeInv, PassesInStep
    <3> QED BY <1>1, <3>1, <3>2, WelcomeAssumption DEF Settled, Marked, Final
  <2>6. CASE Untouched(u)
    BY <2>6 DEF Untouched
  <2> QED BY <2>1, <2>2, <2>3, <2>4, <2>5, <2>6 DEF Moved
<1>2. ASSUME WelcomeInv, [WelcomeNext]_vars
      PROVE  [\A u \in User : user[u] # None =>
                /\ Marked(u, Final) => user'[u].marker = user[u].marker
                /\ user[u].marker # None => user'[u].marker # None]_vars
  BY <1>1, <1>2
<1> QED BY <1>2, WelcomeInvAlways, PTL DEF WelcomeSpec, MarkerMovesForward
=============================================================================

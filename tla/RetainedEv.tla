------------------------------ MODULE RetainedEv ------------------------------
(***************************************************************************)
(* The rules by which the last valid expected value of a pack outlives the *)
(* release that published it (src/convex/dataReleaseV3RetainedEv.ts).      *)
(*                                                                         *)
(* A retained value names the calculation it keeps (its time `at' and its  *)
(* source release `src') and the time of the newest failed calculation     *)
(* after it (`failed', NoFailure when there is none).  An observation is   *)
(* what one release says of one pack: a valid calculation or a failed one. *)
(* Metrics, prices and reasons travel with the calculation they belong to  *)
(* and are not told apart.                                                 *)
(***************************************************************************)
EXTENDS Naturals

CONSTANTS Sources,   \* release identities
          NoValue    \* a pack that never had a valid calculation

ASSUME NoValueAssumption ==
  NoValue \notin [at : Nat, src : Sources, failed : Nat]

\* Calculation times start at 1.
NoFailure == 0

Value == [at : Nat \ {0}, src : Sources, failed : Nat]

\* A stored failure is always newer than the calculation it follows
\* (validValue refuses anything else).
ValidValue == {v \in Value : v.failed = NoFailure \/ v.failed > v.at}

preferRetainedEv(current, candidate) ==
  IF candidate = NoValue \/ current = NoValue
  THEN IF candidate = NoValue THEN current ELSE candidate
  ELSE IF candidate.at <= current.at \/ candidate.at = current.failed
       THEN current
       ELSE [candidate EXCEPT !.failed =
               IF candidate.at <= current.failed THEN current.failed
                                                 ELSE NoFailure]

\* valueFromFacts: the candidate a valid observation offers.
valueFromFacts(o) ==
  IF o.valid THEN [at |-> o.at, src |-> o.src, failed |-> NoFailure]
             ELSE NoValue

applyObservation(current, o) ==
  LET value == preferRetainedEv(current, valueFromFacts(o))
  IN  IF o.valid \/ value = NoValue
      THEN value
      ELSE IF o.at <= value.at \/ o.at < value.failed
           THEN value
           ELSE [value EXCEPT !.failed = o.at]
=============================================================================

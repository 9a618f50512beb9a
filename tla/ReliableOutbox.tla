--------------------------- MODULE ReliableOutbox ---------------------------
(***************************************************************************)
(* What an outbox promises, without saying how: an item is emitted by the  *)
(* transaction that made it true, its effect appears at the other side     *)
(* only after that, and the sender forgets it only after the effect is     *)
(* there.  Crashes, lost answers and competing senders of an implementation*)
(* must all be stuttering steps or one of these three.                     *)
(***************************************************************************)
CONSTANT Item

VARIABLES emitted,       \* items whose emitting transaction committed
          applied,       \* items whose effect the other side holds
          acknowledged   \* items the sender will not send again

ovars == <<emitted, applied, acknowledged>>

Init == emitted = {} /\ applied = {} /\ acknowledged = {}

Emit(i) == /\ i \notin emitted
           /\ emitted' = emitted \cup {i}
           /\ UNCHANGED <<applied, acknowledged>>

Apply(i) == /\ i \in emitted
            /\ applied' = applied \cup {i}
            /\ UNCHANGED <<emitted, acknowledged>>

Acknowledge(i) == /\ i \in applied
                  /\ acknowledged' = acknowledged \cup {i}
                  /\ UNCHANGED <<emitted, applied>>

Next == \E i \in Item : Emit(i) \/ Apply(i) \/ Acknowledge(i)

Spec == Init /\ [][Next]_ovars
=============================================================================

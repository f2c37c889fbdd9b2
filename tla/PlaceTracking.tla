--------------------------- MODULE PlaceTracking ---------------------------
(***************************************************************************)
(* Places and the unbroken run of tracked ones: Values::advance_track      *)
(* (boojum/src/dag/primitives.rs), by which the registrar of the           *)
(* multi-threaded resolver decides what has to wait.                       *)
(***************************************************************************)
EXTENDS Integers, FiniteSets, FiniteSetsExt

CONSTANT PlaceCnt           \* variables of a circuit

ASSUME PlaceCntAssumption == PlaceCnt \in Nat

Places == 0 .. PlaceCnt - 1

NoResolver == [ins |-> {}, outs |-> {}]

(* Values.max_tracked once `places` are tracked: the end of the unbroken run. *)
MaxTracked(places) ==
    Max({-1} \cup {p \in Places : 0 .. p \subseteq places})

MaxIx(places) == Max({-1} \cup places)
=============================================================================

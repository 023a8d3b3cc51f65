------------------------------ MODULE MCLevels ------------------------------
(***************************************************************************)
(* LevelStore for TLC, in two kinds of behaviours: with a snapshot held and *)
(* outputs uncut, and without snapshots when outputs are cut into files and *)
(* manual compactions take any range.                                       *)
(***************************************************************************)
EXTENDS LevelStore

VARIABLE part

Held == INSTANCE LevelStore WITH
  Keys <- {1, 2}, Manual <- FALSE, MaxSequence <- 3, MaxCuts <- 0
Split == INSTANCE LevelStore WITH
  Types <- {"value"}, kNumLevels <- 3, kMaxMemCompactLevel <- 1, MaxSnapshots <- 0

LevelsInit == part \in {"held", "split"} /\ Init
LevelsNext == \/ part = "held" /\ Held!Next /\ UNCHANGED part
              \/ part = "split" /\ Split!Next /\ UNCHANGED part
LevelsSpec == LevelsInit /\ [][LevelsNext]_<<part, vars>>

(* Bound: where outputs are cut a key is written twice at most, elsewhere   *)
(* there is one deletion at most.                                           *)
FewWrites ==
  IF part = "split" THEN \A k \in Keys : Cardinality({e \in history : e.key = k}) <= 2
  ELSE Cardinality({e \in history : e.type = "deletion"}) <= 1
=============================================================================

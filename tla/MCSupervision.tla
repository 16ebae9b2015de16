--------------------------- MODULE MCSupervision ---------------------------
(* An account session of a debounced class with a recycle line, on a        *)
(* footprint axis where every zone of the watchdog is one value, and a      *)
(* non-account session of a class whose lines are out of reach, so that no  *)
(* sample stands for all of its samples.                                    *)
EXTENDS Supervision, TLC

MCWarnAt == [s \in Sessions |-> IF s \in Account THEN 2 ELSE 8]
MCRecycleAt == [s \in Sessions |-> IF s \in Account THEN 4 ELSE NoLine]
MCSustain == [s \in Sessions |-> IF s \in Account THEN 1 ELSE 0]

TickSymmetry == Permutations(Ticks)
=============================================================================

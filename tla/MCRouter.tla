-------------------------------- MODULE MCRouter --------------------------------
(* Model-checking instance of Router: four interfaces, one cheaper than the   *)
(* rest, which tie.                                                           *)
EXTENDS Router

CONSTANTS i1, i2, i3, i4

FourCosts == [i \in {i1, i2, i3, i4} |-> IF i = i1 THEN 0 ELSE 10]
===============================================================================

--------------------------- MODULE MCImpactHistory ---------------------------
(* A window whose fit fails the gate in one way or the other, has no       *)
(* slope, or scales, at either of two depths.                              *)
EXTENDS ImpactHistory

Shape(n, varies, beta, depth) == [n |-> n, varies |-> varies, beta |-> beta, depth |-> depth]
MCShapes ==
    {Shape(1, FALSE, 0, 1), Shape(29, TRUE, 1, 1), Shape(70, FALSE, 0, 1),
     Shape(40, TRUE, 0, 1), Shape(40, TRUE, 1, 1), Shape(70, TRUE, 1, 2)}
=============================================================================

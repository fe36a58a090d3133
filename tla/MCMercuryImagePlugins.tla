----------------------- MODULE MCMercuryImagePlugins -----------------------
(***************************************************************************)
(* All images of 3 by 3 pixels with up to four hits of value 1 or 2: every *)
(* shape of cluster of that size that fits.                                *)
(***************************************************************************)
EXTENDS MercuryImagePlugins, FiniteSetsExt

CONSTANT MaxHits    \* bound: hits in a frame that arrives

MCImages ==
  UNION {{[p \in Pixels |-> IF p \in hits THEN value[p] ELSE 0] :
            value \in [hits -> {1, 2}]} :
         hits \in UNION {kSubset(n, Pixels) : n \in 0 .. MaxHits}}

\* Negative values wrap to thresholds above every pixel.
MCThresholdValues == {2, -1}

\* A table that differs from pixel to pixel.
MCThresholdTables == {[p \in Pixels |-> 1 + (p % 3)]}

\* A calibration that moves every hit above zero, one that sinks some.
MCCalibrations ==
  {[gradient |-> [p \in Pixels |-> 2], intercept |-> [p \in Pixels |-> 1]],
   [gradient |-> [p \in Pixels |-> 1], intercept |-> [p \in Pixels |-> p - 4]]}
=============================================================================

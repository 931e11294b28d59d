--------------------------- MODULE MCHeaderBinding ---------------------------
(***************************************************************************)
(* Shasta starts at 1 and Unzen at 3; fork times of taiko-geth that agree, *)
(* that are missing, and that disagree in one fork.                        *)
(***************************************************************************)
EXTENDS HeaderBinding

MCZkGas == [n \in 0..MaxNumber |-> n % 2]

MCUpstreams ==
  LET missing == [fork \in ForkNames |-> None]
  IN  {missing, [missing EXCEPT !["Cancun"] = UnzenTime],
       [missing EXCEPT !["Unzen"] = UnzenTime + 1], [missing EXCEPT !["Prague"] = UnzenTime - 1]}

==============================================================================

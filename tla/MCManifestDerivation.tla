------------------------- MODULE MCManifestDerivation -------------------------
(***************************************************************************)
(* Small clocks and gas limits; manifests of up to two blocks, and one     *)
(* that exceeds the block limit.                                           *)
(***************************************************************************)
EXTENDS ManifestDerivation

MCBlock == [timestamp : 0..3, anchor : 0..4, gas : {3, 4, 6}]

MCManifests ==
  LET One == {<<b>> : b \in MCBlock}
      Two == {m \in [1..2 -> {b \in MCBlock : b.timestamp > 0 /\ b.anchor > 1}] :
                /\ m[2].timestamp - m[1].timestamp \in {0, 1}
                /\ m[1].gas = 4 /\ m[2].gas # 6 /\ m[1].anchor <= m[2].anchor}
  IN  {<<>>, defaultSourceManifest} \cup One \cup Two
      \cup {[i \in 1..3 |-> [timestamp |-> i, anchor |-> 1, gas |-> 4]]}

===============================================================================

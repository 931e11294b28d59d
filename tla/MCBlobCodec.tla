----------------------------- MODULE MCBlobCodec -----------------------------
(***************************************************************************)
(* Field elements of six bytes, two rounds (42 bytes of data): lengths at  *)
(* the boundaries of elements, rounds and blob, and data with all bits     *)
(* set, with distinct bytes and with bits in the upper and lower halves.   *)
(***************************************************************************)
EXTENDS BlobCodec

MCLengths == {0, 1, 2, 18, 19, 20, 41, 42}

MCPayloads ==
  UNION {{[p \in 1..n |-> 255], [p \in 1..n |-> (p * 37) % 256], [p \in 1..n |-> 64 + (p % 3)]} :
         n \in MCLengths}

==============================================================================

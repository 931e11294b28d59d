-------------------------- MODULE MCRequestDecoding --------------------------
(* Widths that keep their order; the edges of each lie below the next one.   *)
EXTENDS RequestDecoding

MCWidth == [u8 |-> 4, u24 |-> 8, u48 |-> 16, u64 |-> 32, u128 |-> 64, u256 |-> 128]

==============================================================================

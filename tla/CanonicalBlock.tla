----------------------------- MODULE CanonicalBlock -----------------------------
(***************************************************************************)
(* What the transaction filter promises: the block that canonical block    *)
(* building makes of a list of candidates, on the complete parent state.   *)
(* A transaction is executed or it is not there at all; nothing here can   *)
(* be undone, half done, or unknown.                                       *)
(*                                                                         *)
(* The state is what candidates can get into each other's way with: their  *)
(* senders' nonces, the block's gas and, from the Unzen fork, its zk gas.  *)
(***************************************************************************)
EXTENDS Naturals, Sequences

CONSTANTS
  Txs,        \* [sender, nonce, gas, zk, fault, ...]
  PreNonce,   \* sender |-> its nonce in the parent state
  GasLimit, ZkLimit

VARIABLES
  stage,      \* "idle", "building", "built"
  zkMetered,  \* the block is an Unzen block
  todo,       \* the candidates that are left
  block       \* what is built: txs, nonce, gas (left), zk (used)

vars == <<stage, zkMetered, todo, block>>

Fresh == [txs |-> <<>>, nonce |-> PreNonce, gas |-> GasLimit, zk |-> 0]

Init == stage = "idle" /\ zkMetered = FALSE /\ todo = <<>> /\ block = Fresh

\* t can be executed next.
Executable(t) ==
  /\ t.fault = "none"
  /\ t.nonce = block.nonce[t.sender]
  /\ t.gas <= block.gas

FitsZk(t) == zkMetered => block.zk + t.zk <= ZkLimit

Begin ==
  /\ stage = "idle" /\ stage' = "building"
  /\ zkMetered' \in BOOLEAN
  /\ todo' \in Seq(Txs) /\ todo' # <<>>
  /\ block' = Fresh

Commit ==
  /\ stage = "building" /\ todo # <<>>
  /\ LET t == Head(todo)
     IN  /\ Executable(t) /\ FitsZk(t)
         /\ block' = [txs |-> Append(block.txs, t),
                      nonce |-> [block.nonce EXCEPT ![t.sender] = @ + 1],
                      gas |-> block.gas - t.gas,
                      zk |-> IF zkMetered THEN block.zk + t.zk ELSE 0]
  /\ todo' = Tail(todo)
  /\ UNCHANGED <<stage, zkMetered>>

\* Only after the first transaction, the anchor.
Skip ==
  /\ stage = "building" /\ todo # <<>>
  /\ block.txs # <<>> /\ ~Executable(Head(todo))
  /\ todo' = Tail(todo)
  /\ UNCHANGED <<stage, zkMetered, block>>

\* The first transaction beyond the zk gas limit ends the block.
Full ==
  /\ stage = "building" /\ todo # <<>>
  /\ block.txs # <<>> /\ Executable(Head(todo)) /\ ~FitsZk(Head(todo))
  /\ todo' = <<>>
  /\ UNCHANGED <<stage, zkMetered, block>>

Seal ==
  /\ stage = "building" /\ todo = <<>> /\ stage' = "built"
  /\ UNCHANGED <<zkMetered, todo, block>>

\* The request fails, or is done.
Abandon ==
  /\ stage # "idle"
  /\ stage' = "idle" /\ zkMetered' = FALSE /\ todo' = <<>> /\ block' = Fresh

Next == Begin \/ Commit \/ Skip \/ Full \/ Seal \/ Abandon

Spec == Init /\ [][Next]_vars

=============================================================================

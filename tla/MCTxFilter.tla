------------------------------- MODULE MCTxFilter -------------------------------
(***************************************************************************)
(* Two users, one of them with an earlier nonce, and transactions that are *)
(* good, dear, late to fail, fatal, without a message, unsigned or blobs.  *)
(***************************************************************************)
EXTENDS TxFilter

MCPreNonce == [golden |-> 1, alice |-> 0, bob |-> 1]

Good(sender, nonce, gas, zk) ==
  [sender |-> sender, nonce |-> nonce, gas |-> gas, zk |-> zk, fault |-> "none",
   zkSeen |-> "run", reverts |-> FALSE, type |-> "dynamic", signed |-> TRUE]

GoodAnchor == Good("golden", 1, 1, 1)

MCAnchors == {GoodAnchor, [GoodAnchor EXCEPT !.reverts = TRUE], [GoodAnchor EXCEPT !.zk = 9]}

MCTxs ==
  MCAnchors
  \cup {Good("alice", 0, 2, 1), Good("alice", 0, 1, 4), Good("alice", 1, 1, 1),
        Good("bob", 1, 3, 1), Good("bob", 0, 1, 1),
        [Good("bob", 1, 1, 4) EXCEPT !.zkSeen = "commit"]}
  \cup {[Good("alice", 0, 2, 1) EXCEPT !.fault = f] : f \in {"message", "late", "fatal"}}
  \cup {[Good("alice", 0, 1, 1) EXCEPT !.type = "blob"],
        [Good("alice", 0, 1, 1) EXCEPT !.signed = FALSE]}

===============================================================================

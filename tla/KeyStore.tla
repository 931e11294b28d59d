------------------------------ MODULE KeyStore ------------------------------
(***************************************************************************)
(* What the directories of a release promise to those who only run the     *)
(* bootstrap command, without --force: a key is made where there is none   *)
(* and then stays, and metadata is written for the key that is there.      *)
(*                                                                         *)
(* TeeBootstrap keeps this promise at every system call of its runs;       *)
(* Deployment, which has the command as one step, relies on no more.       *)
(***************************************************************************)
CONSTANT Absent

VARIABLES
  key,       \* the sealed key, or Absent
  described  \* the key that the metadata describes, or Absent

store == <<key, described>>

Init == key = Absent /\ described = Absent

\* A key is made; a command that runs on describes it as well.
Create ==
  /\ key = Absent /\ key' # Absent
  /\ described' \in {described, key'}

Describe ==
  /\ key # Absent
  /\ described' = key
  /\ UNCHANGED key

Next == Create \/ Describe

Spec == Init /\ [][Next]_store

=============================================================================

----------------------------- MODULE MCDeployment -----------------------------
(* Two releases of different forks, on one project or on two. *)
EXTENDS Deployment

MCForkOf == [r \in Releases |-> IF r = "a" THEN "unzen" ELSE "shasta"]

==============================================================================

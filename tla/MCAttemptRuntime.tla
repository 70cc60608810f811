-------------------------- MODULE MCAttemptRuntime --------------------------
EXTENDS AttemptFinality, TLC

(* The request needs the repository and a second workspace; a lease of its   *)
(* own competes for the repository.                                          *)
CONSTANTS repoA, repoB, other, p, repository, product, attempt, rival

MCWorkspace == repoA :> repository @@ repoB :> repository @@ other :> product
MCOwnerOf == repoA :> attempt @@ repoB :> rival @@ other :> attempt
MCResources == [l \in Leases |-> {}]
MCLeasesOf == p :> {repoA, other}
=============================================================================

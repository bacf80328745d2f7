---------------------------- MODULE MCWorkspace ----------------------------
(* Workspace on two base builds of one distro that share some of their     *)
(* files: two architectures of a release have one ISO and two base disks,  *)
(* two releases for one architecture have two ISOs and one base disk.      *)
EXTENDS Workspace, TLC

CONSTANTS Distro, Versions, Archs

MCBuilds ==
  {[distro |-> <<Distro>>, version |-> <<v>>, release |-> <<v>>,
    variant |-> <<"server">>, layer |-> <<>>, arch |-> a] : v \in Versions, a \in Archs}

(* Architectures differ in name only. *)
Interchangeable == Permutations(Archs)
=============================================================================

----------------------------- MODULE GoldenImage -----------------------------
(***************************************************************************)
(* What building a golden image promises about its two files, whoever runs *)
(* which command: an instance disk goes from clone to boot, provisioning,  *)
(* wipe and power-off in that order, an artifact is packed from a sealed   *)
(* disk -- or, by mistake or by hand, from one that was taken for sealed -- *)
(* that nothing touches meanwhile, and the disk is given up for an         *)
(* artifact that holds all of it.  SealPipeline implements this.           *)
(***************************************************************************)
CONSTANTS Builds, Absent

VARIABLES
  disk,       \* the instance disk of each build
  art,        \* its artifact
  loose       \* the builds one of whose disks was taken for sealed, and was not

files == <<disk, art, loose>>

Exists(b) == disk[b] # Absent

Become(b, stage) ==
  /\ disk' = [disk EXCEPT ![b].stage = stage]
  /\ UNCHANGED <<art, loose>>

Init ==
  /\ disk = [b \in Builds |-> Absent]
  /\ art = [b \in Builds |-> Absent]
  /\ loose = [b \in Builds |-> FALSE]

Clone(b) ==
  /\ disk[b] = Absent
  /\ \E w \in BOOLEAN : disk' = [disk EXCEPT ![b] = [stage |-> "fresh", whole |-> w]]
  /\ UNCHANGED <<art, loose>>

(* A disk may be booted again at any stage, and then is not sealed. *)
Boot(b) == Exists(b) /\ Become(b, "booted")

Provision(b) == Exists(b) /\ disk[b].stage = "booted" /\ Become(b, "provisioned")

(* The wipe is the user's own risk before provisioning has ended. *)
Wipe(b) == Exists(b) /\ disk[b].stage \in {"booted", "provisioned"} /\ Become(b, "wiping")

Seal(b) == Exists(b) /\ disk[b].stage = "wiping" /\ Become(b, "sealed")

(* An end of qemu passes for the power-off, or `build` is run by hand. *)
Mistake(b) ==
  /\ Exists(b) /\ disk[b].stage # "sealed"
  /\ loose' = [loose EXCEPT ![b] = TRUE]
  /\ UNCHANGED <<disk, art>>

(* Packing begins, whatever artifact was there, and ends well or not. *)
Pack(b) ==
  /\ Exists(b) /\ (disk[b].stage = "sealed" \/ loose[b])
  /\ art' = [art EXCEPT ![b] = [stage |-> disk[b].stage, whole |-> FALSE]]
  /\ UNCHANGED <<disk, loose>>

Packed(b) ==
  /\ Exists(b) /\ art[b] = [stage |-> disk[b].stage, whole |-> FALSE]
  /\ art' = [art EXCEPT ![b] = disk[b]]
  /\ UNCHANGED <<disk, loose>>

PackFails(b) ==
  /\ art[b] # Absent /\ ~art[b].whole
  /\ art' = [art EXCEPT ![b] = Absent]
  /\ UNCHANGED <<disk, loose>>

GiveUp(b) ==
  /\ Exists(b) /\ art[b] = disk[b]
  /\ disk' = [disk EXCEPT ![b] = Absent]
  /\ UNCHANGED <<art, loose>>

Clean == disk' = [b \in Builds |-> Absent] /\ UNCHANGED <<art, loose>>

Next ==
  \/ \E b \in Builds :
       \/ Clone(b) \/ Boot(b) \/ Provision(b) \/ Wipe(b) \/ Seal(b)
       \/ Mistake(b) \/ Pack(b) \/ Packed(b) \/ PackFails(b) \/ GiveUp(b)
  \/ Clean

Spec == Init /\ [][Next]_files
=============================================================================

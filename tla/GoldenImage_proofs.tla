------------------------- MODULE GoldenImage_proofs -------------------------
(***************************************************************************)
(* SealPipeline implements GoldenImage, for every set of builds and every  *)
(* choice of commands, overlap and qemu failures.                          *)
(***************************************************************************)
EXTENDS SealPipeline_proofs

(* A guest's step that changes its disk is a step in the life of that disk. *)
LEMMA GuestIsGolden ==
  ASSUME IInv, GuestFits, UNCHANGED <<art, loose>>, vm.guest # "off",
         NEW s \in {"provisioned", "wiping", "sealed"},
         disk' = [disk EXCEPT ![vm.of].stage = s], disk' # disk,
         \/ s = "provisioned" /\ vm.guest = "up"
         \/ s = "wiping" /\ vm.guest \in Guests \ {"off", "boot"}
         \/ s = "sealed" /\ vm.guest = "wiping"
  PROVE  Golden!Next
<1>1. vm.of \in Builds /\ disk[vm.of] # Absent /\ disk[vm.of] \in Disk
  BY GuestHasDisk DEF IInv, TypeOK
<1>2. disk[vm.of].stage # s
  BY <1>1 DEF Disk, IInv, TypeOK
<1>3. ~(s = "wiping" /\ vm.guest \in {"wiping", "wedged"})
  BY <1>2 DEF GuestFits
<1> QED
  BY <1>1, <1>3 DEF GuestFits, Guests, Golden!Next, Golden!Provision, Golden!Wipe,
     Golden!Seal, Golden!Become, Golden!Exists

(* Every step of SealPipeline is a step of GoldenImage, or leaves the files *)
(* as they are.                                                            *)
LEMMA StepIsGolden == Fits /\ [Next]_vars => [Golden!Next]_(Golden!files)
<1> SUFFICES ASSUME IInv, GuestFits, [Next]_vars,
                    ~UNCHANGED <<disk, art, loose>>
             PROVE  Golden!Next
  BY DEF Fits, Golden!files
<1>t. TypeOK /\ FilesFit /\ SealKept
  BY DEF IInv
<1>1. ASSUME NEW b \in Builds, CloneOk(b) \/ CloneFailed(b) PROVE Golden!Next
  <2>1. Golden!Clone(b)
    BY <1>1, <1>t DEF CloneOk, CloneFailed, Go, FilesFit, Golden!Clone
  <2> QED BY <2>1 DEF Golden!Next
<1>2. ASSUME NEW b \in Builds, StartVM(b) PROVE Golden!Next
  <2>1. Golden!Boot(b)
    BY <1>2, <1>t DEF StartVM, Go, FilesFit, Golden!Boot, Golden!Become, Golden!Exists
  <2> QED BY <2>1 DEF Golden!Next
<1>3. ASSUME SysprepByHand \/ \E b \in Builds : Sysprep(b) PROVE Golden!Next
  <2>1. CanLogIn /\ disk' = [disk EXCEPT ![vm.of].stage = "wiping"] /\ UNCHANGED <<art, loose>>
    BY <1>3 DEF Sysprep, SysprepByHand
  <2> QED BY <2>1, GuestIsGolden DEF CanLogIn, Listening
<1>4. ASSUME NEW b \in Builds, BeginBuild(b) \/ Exited(b) PROVE Golden!Next
  <2>1. /\ UNCHANGED store
        /\ \A x \in Builds \ {b} : loose'[x] = loose[x]
        /\ \/ loose'[b] = loose[b]
           \/ loose'[b] = TRUE /\ disk[b] # Absent /\ disk[b].stage # "sealed"
    BY <1>4, <1>t DEF BeginBuild, Exited, FilesFit, TypeOK
  <2>2. loose' \in [Builds -> BOOLEAN]
    BY NextIInv DEF IInv, TypeOK
  <2>3. /\ loose' = [loose EXCEPT ![b] = TRUE]
        /\ disk[b] # Absent /\ disk[b].stage # "sealed"
    BY <2>1, <2>2, <1>t DEF TypeOK, store
  <2>4. Golden!Mistake(b)
    BY <2>1, <2>3 DEF Golden!Mistake, Golden!Exists, store
  <2> QED BY <2>4 DEF Golden!Next
<1>5. ASSUME NEW b \in Builds, StatDisk(b) PROVE Golden!Next
  <2>1. Golden!Pack(b)
    BY <1>5, <1>t DEF StatDisk, Go, SealKept, Golden!Pack, Golden!Exists
  <2> QED BY <2>1 DEF Golden!Next
<1>6. ASSUME NEW b \in Builds, ConvertOk(b) PROVE Golden!Next
  <2>1. Golden!Packed(b)
    BY <1>6, <1>t DEF ConvertOk, Go, FilesFit, GuestFits, Golden!Packed, Golden!Exists
  <2> QED BY <2>1 DEF Golden!Next
<1>7. ASSUME NEW b \in Builds, ConvertFailed(b) PROVE Golden!Next
  <2>1. art[b] = [stage |-> disk[b].stage, whole |-> FALSE] /\ disk[b] # Absent
    BY <1>7, <1>t DEF ConvertFailed, GuestFits, FilesFit
  <2>2. disk[b].stage \in Stages
    BY <2>1, <1>t DEF TypeOK, Disk
  <2>3. art[b] # Absent
    BY <2>1, <2>2, WrittenDisk
  <2>4. Golden!PackFails(b)
    BY <1>7, <2>1, <2>3 DEF ConvertFailed, Golden!PackFails
  <2> QED BY <2>4 DEF Golden!Next
<1>8. ASSUME NEW b \in Builds, Remove(b) PROVE Golden!Next
  <2>1. Golden!GiveUp(b)
    BY <1>8, <1>t DEF Remove, FilesFit, Golden!GiveUp, Golden!Exists
  <2> QED BY <2>1 DEF Golden!Next
<1>9. CASE Clean
  BY <1>9 DEF Clean, Golden!Clean, Golden!Next
<1>10. CASE Guest
  <2>1. ~(SshdUp \/ CloudInitFails \/ ChainBreaks \/ QemuExits)
    BY DEF SshdUp, CloudInitFails, ChainBreaks, QemuExits, GuestMoves, store
  <2>2. CASE CloudInitEnds
    BY <2>2, GuestIsGolden DEF CloudInitEnds, GuestMoves
  <2>3. CASE PowersOff
    BY <2>3, GuestIsGolden DEF PowersOff
  <2> QED BY <1>10, <2>1, <2>2, <2>3 DEF Guest
<1>11. ASSUME NEW b \in Builds,
              \/ RunEnds(b) \/ SessionEnds(b) \/ Cancel(b) \/ KillOnCancel(b)
              \/ Killed(b) \/ StartFailed(b) \/ PinOk(b) \/ PinGaveUp(b)
              \/ CloudInitDone(b) \/ WaitFailed(b) \/ SysprepUnsent(b)
              \/ ShutdownTimeout(b)
       PROVE  FALSE
  BY <1>11 DEF RunEnds, SessionEnds, Cancel, KillOnCancel, Killed, StartFailed,
     PinOk, PinGaveUp, CloudInitDone, WaitFailed, SysprepUnsent, ShutdownTimeout, store
<1>12. ASSUME NEW b \in Builds, NEW c \in Commands, Begin(b, c) PROVE FALSE
  BY <1>12 DEF Begin, store
<1>13. ~(OrphanKilled \/ UNCHANGED vars)
  BY DEF OrphanKilled, vars, store
<1> QED
  BY <1>1, <1>2, <1>3, <1>4, <1>5, <1>6, <1>7, <1>8, <1>9, <1>10, <1>11, <1>12,
     <1>13 DEF Next, Prompt

(* Whatever commands run, fail, are cancelled or killed, on however many    *)
(* builds at once, and whatever the guests do: disks and artifacts live the *)
(* life GoldenImage allows.                                                *)
THEOREM Refinement == Spec => Implements
<1>1. Init => Golden!Init
  BY DEF Init, Golden!Init
<1> QED
  BY <1>1, StepIsGolden, FitsHolds, PTL DEF Spec, Implements, Golden!Spec
=============================================================================

------------------------- MODULE SealPipeline_proofs -------------------------
(* Safety of SealPipeline for every set of builds and every choice of      *)
(* commands, overlap and qemu failures.                                    *)
EXTENDS SealPipeline, TLAPS

USE BuildsAssumption, CommandsAssumption, SwitchAssumption, AbsentAssumption

(* A VM whose guest runs belongs to a build. *)
LEMMA RunningVM ==
  ASSUME TypeOK, vm # NoVM
  PROVE  vm.of \in Builds /\ vm.guest \in Guests \ {"off"} /\ vm = [of |-> vm.of, guest |-> vm.guest]
BY DEF TypeOK, NoVM

LEMMA InitIInv == Init => IInv
BY DEF Init, IInv, TypeOK, FilesFit, SealKept, NoVM, Labels, Disk

(* The types of the process variables after a process step that goes on,   *)
(* and after one that ends the process.                                    *)
LEMMA GoTypes ==
  ASSUME NEW b \in Builds, NEW from \in Labels, NEW to \in Labels,
         TypeOK, Go(b, from, to)
  PROVE  /\ pc' \in [Builds -> Labels]
         /\ cmd' \in [Builds -> Commands \cup {"none"}]
         /\ cancelled' \in [Builds -> BOOLEAN]
BY DEF TypeOK, Go

LEMMA LeaveTypes ==
  ASSUME NEW b \in Builds, TypeOK, Leave(b)
  PROVE  /\ pc' \in [Builds -> Labels]
         /\ cmd' \in [Builds -> Commands \cup {"none"}]
         /\ cancelled' \in [Builds -> BOOLEAN]
         /\ mine' \in [Builds -> BOOLEAN]
BY DEF TypeOK, Leave, Labels

LEMMA BeginStep ==
  ASSUME NEW b \in Builds, NEW c \in Commands, IInv, Begin(b, c)
  PROVE  IInv'
BY DEF IInv, TypeOK, FilesFit, SealKept, Begin, host, store, Labels

(* A build of a disk that is not sealed is loose from then on. *)
LEMMA BeginBuildStep ==
  ASSUME NEW b \in Builds, IInv, BeginBuild(b)
  PROVE  IInv'
<1>1. /\ loose' \in [Builds -> BOOLEAN]
      /\ ~loose'[b] => ~loose[b] /\ (disk[b] # Absent => disk[b].stage = "sealed")
      /\ \A x \in Builds \ {b} : loose'[x] = loose[x]
  BY DEF BeginBuild, IInv, TypeOK
<1>2. TypeOK' /\ FilesFit'
  BY <1>1 DEF IInv, TypeOK, FilesFit, BeginBuild, host, store, Labels
<1>3. SealKept'
  BY <1>1 DEF IInv, TypeOK, SealKept, BeginBuild, store
<1>4. QED BY <1>2, <1>3 DEF IInv

(* A disk that was written is not "no disk". *)
LEMMA WrittenDisk ==
  ASSUME NEW s \in Stages, NEW w \in BOOLEAN
  PROVE  /\ [stage |-> s, whole |-> w] \in Disk
         /\ [stage |-> s, whole |-> w] # Absent
BY DEF Disk

LEMMA CloneOkStep ==
  ASSUME NEW b \in Builds, IInv, CloneOk(b)
  PROVE  IInv'
<1>d. /\ [stage |-> "fresh", whole |-> TRUE] \in Disk
      /\ [stage |-> "fresh", whole |-> TRUE] # Absent
  BY WrittenDisk DEF Stages
<1>1. TypeOK'
  BY <1>d DEF IInv, TypeOK, CloneOk, Go, host, Labels
<1>2. FilesFit'
  BY <1>d DEF IInv, TypeOK, FilesFit, CloneOk, Go, host
<1>3. SealKept'
  BY <1>d DEF IInv, TypeOK, FilesFit, SealKept, CloneOk, Go, host
<1>4. QED BY <1>1, <1>2, <1>3 DEF IInv

LEMMA CloneFailedStep ==
  ASSUME NEW b \in Builds, IInv, CloneFailed(b)
  PROVE  IInv'
<1>d. /\ [stage |-> "fresh", whole |-> FALSE] \in Disk
      /\ [stage |-> "fresh", whole |-> FALSE] # Absent
  BY WrittenDisk DEF Stages
<1>k. [disk EXCEPT ![b] = [stage |-> "fresh", whole |-> FALSE]]
        \in [Builds -> Disk \cup {Absent}]
  BY <1>d DEF IInv, TypeOK
<1>t. disk' \in [Builds -> Disk \cup {Absent}]
  BY <1>k DEF IInv, TypeOK, CloneFailed
<1>1. TypeOK'
  BY <1>t, LeaveTypes DEF IInv, TypeOK, CloneFailed, host
<1>2. FilesFit'
  BY <1>d DEF IInv, TypeOK, FilesFit, CloneFailed, Leave, host
<1>3. SealKept'
  BY <1>d DEF IInv, TypeOK, FilesFit, SealKept, CloneFailed, Leave, host
<1>4. QED BY <1>1, <1>2, <1>3 DEF IInv

(* Changing the stage of a disk that exists leaves a disk. *)
LEMMA Restaged ==
  ASSUME NEW b \in Builds, NEW s \in Stages, TypeOK, disk[b] # Absent,
         disk' = [disk EXCEPT ![b].stage = s]
  PROVE  /\ disk' \in [Builds -> Disk \cup {Absent}]
         /\ disk'[b] # Absent /\ disk'[b].stage = s
         /\ \A x \in Builds \ {b} : disk'[x] = disk[x]
<1>1. disk[b] \in Disk
  BY DEF TypeOK
<1>2. [disk[b] EXCEPT !.stage = s] \in Disk /\ [disk[b] EXCEPT !.stage = s].stage = s
  BY <1>1 DEF Disk
<1>3. disk' = [disk EXCEPT ![b] = [disk[b] EXCEPT !.stage = s]]
  OBVIOUS
<1>4. QED BY <1>2, <1>3 DEF TypeOK

LEMMA StartVMStep ==
  ASSUME NEW b \in Builds, IInv, StartVM(b)
  PROVE  IInv'
<1>1. CASE vm = NoVM
  <2>1. /\ vm' = [of |-> b, guest |-> "boot"] /\ mine' = [mine EXCEPT ![b] = TRUE]
        /\ disk' = [disk EXCEPT ![b].stage = "booted"]
        /\ pc[b] = "start" /\ disk[b] # Absent /\ TypeOK
    BY <1>1 DEF StartVM, Go, IInv, FilesFit
  <2>2. /\ disk' \in [Builds -> Disk \cup {Absent}]
        /\ disk'[b] # Absent /\ disk'[b].stage = "booted"
        /\ \A x \in Builds \ {b} : disk'[x] = disk[x]
    BY <2>1, Restaged DEF Stages
  <2>3. TypeOK'
    BY <2>1, <2>2 DEF TypeOK, StartVM, Go, Labels, Guests
  <2>4. FilesFit'
    BY <2>1, <2>2 DEF IInv, TypeOK, FilesFit, StartVM, Go
  <2>5. SealKept'
    BY <2>1, <2>2 DEF IInv, TypeOK, FilesFit, SealKept, StartVM, Go
  <2>6. QED BY <2>3, <2>4, <2>5 DEF IInv
<1>2. CASE vm # NoVM
  BY <1>2 DEF IInv, TypeOK, FilesFit, SealKept, StartVM, Go, Labels
<1>3. QED BY <1>1, <1>2

LEMMA StartFailedStep ==
  ASSUME NEW b \in Builds, IInv, StartFailed(b)
  PROVE  IInv'
BY DEF IInv, TypeOK, FilesFit, SealKept, StartFailed, Leave, store, Labels

LEMMA PinOkStep ==
  ASSUME NEW b \in Builds, IInv, PinOk(b)
  PROVE  IInv'
<1>1. vm.of \in Builds
  BY DEF PinOk, Listening, IInv, TypeOK, NoVM
<1>2. QED
  BY <1>1 DEF IInv, TypeOK, FilesFit, SealKept, PinOk, AfterStart, Go, store, Labels

LEMMA PinGaveUpStep ==
  ASSUME NEW b \in Builds, IInv, PinGaveUp(b)
  PROVE  IInv'
BY DEF IInv, TypeOK, FilesFit, SealKept, PinGaveUp, AfterStart, Go, host, store,
       Labels

LEMMA CloudInitDoneStep ==
  ASSUME NEW b \in Builds, IInv, CloudInitDone(b)
  PROVE  IInv'
BY DEF IInv, TypeOK, FilesFit, SealKept, CloudInitDone, Go, host, store, Labels

LEMMA WaitFailedStep ==
  ASSUME NEW b \in Builds, IInv, WaitFailed(b)
  PROVE  IInv'
BY DEF IInv, TypeOK, FilesFit, SealKept, WaitFailed, Leave, host, store, Labels

LEMMA SysprepStep ==
  ASSUME NEW b \in Builds, IInv, Sysprep(b)
  PROVE  IInv'
<1>1. /\ vm.of \in Builds /\ disk[vm.of] # Absent /\ TypeOK
      /\ vm' = [vm EXCEPT !.guest = "wiping"]
      /\ disk' = [disk EXCEPT ![vm.of].stage = "wiping"]
  BY DEF Sysprep, CanLogIn, Listening, IInv, TypeOK, NoVM, FilesFit
<1>2. /\ disk' \in [Builds -> Disk \cup {Absent}]
      /\ disk'[vm.of] # Absent /\ disk'[vm.of].stage = "wiping"
      /\ \A x \in Builds \ {vm.of} : disk'[x] = disk[x]
  BY <1>1, Restaged DEF Stages
<1>3. vm'.of = vm.of /\ vm' \in [of : Builds, guest : Guests \ {"off"}]
  BY <1>1 DEF TypeOK, NoVM, Guests
<1>4. TypeOK'
  BY <1>1, <1>2, <1>3 DEF TypeOK, Sysprep, Go, Labels
<1>5. FilesFit'
  BY <1>1, <1>2, <1>3 DEF IInv, TypeOK, FilesFit, Sysprep, Go
<1>6. SealKept'
  BY <1>1, <1>2, <1>3 DEF IInv, TypeOK, FilesFit, SealKept, Sysprep, Go
<1>7. QED BY <1>4, <1>5, <1>6 DEF IInv

LEMMA SysprepByHandStep ==
  ASSUME IInv, SysprepByHand
  PROVE  IInv'
<1>1. /\ vm.of \in Builds /\ disk[vm.of] # Absent /\ TypeOK
      /\ vm' = [vm EXCEPT !.guest = "wiping"]
      /\ disk' = [disk EXCEPT ![vm.of].stage = "wiping"]
      /\ UNCHANGED <<cli, pinned, art, loose>>
  BY DEF SysprepByHand, CanLogIn, Listening, IInv, TypeOK, NoVM, FilesFit
<1>2. /\ disk' \in [Builds -> Disk \cup {Absent}]
      /\ disk'[vm.of] # Absent /\ disk'[vm.of].stage = "wiping"
      /\ \A x \in Builds \ {vm.of} : disk'[x] = disk[x]
  BY <1>1, Restaged DEF Stages
<1>3. vm'.of = vm.of /\ vm' \in [of : Builds, guest : Guests \ {"off"}]
  BY <1>1 DEF TypeOK, NoVM, Guests
<1>4. TypeOK'
  BY <1>1, <1>2, <1>3 DEF TypeOK, cli
<1>5. FilesFit'
  BY <1>1, <1>2, <1>3 DEF IInv, FilesFit, cli
<1>6. SealKept'
  BY <1>1, <1>2, <1>3 DEF IInv, SealKept, FilesFit, cli
<1>7. QED BY <1>4, <1>5, <1>6 DEF IInv

LEMMA RunEndsStep ==
  ASSUME NEW b \in Builds, IInv, RunEnds(b)
  PROVE  IInv'
BY DEF IInv, TypeOK, FilesFit, SealKept, RunEnds, Leave, host, store, Labels

LEMMA SysprepUnsentStep ==
  ASSUME NEW b \in Builds, IInv, SysprepUnsent(b)
  PROVE  IInv'
BY DEF IInv, TypeOK, FilesFit, SealKept, SysprepUnsent, Go, host, store, Labels

LEMMA SessionEndsStep ==
  ASSUME NEW b \in Builds, IInv, SessionEnds(b)
  PROVE  IInv'
BY DEF IInv, TypeOK, FilesFit, SealKept, SessionEnds, Go, host, store, Labels

(* A process that goes on, or says "sealed", with an unsealed disk marks   *)
(* its build loose.                                                        *)
LEMMA ExitedStep ==
  ASSUME NEW b \in Builds, IInv, Exited(b)
  PROVE  IInv'
<1>1. /\ TypeOK /\ pc[b] = "shutdown" /\ disk[b] # Absent
      /\ loose' = [loose EXCEPT ![b] = @ \/ disk[b].stage # "sealed"]
      /\ UNCHANGED <<host, store>>
  BY DEF Exited, IInv, FilesFit
<1>2. loose' \in [Builds -> BOOLEAN]
  BY <1>1 DEF TypeOK
<1>3. ~loose'[b] => ~loose[b] /\ disk[b].stage = "sealed"
  BY <1>1 DEF TypeOK
<1>4. \A x \in Builds \ {b} : loose'[x] = loose[x]
  BY <1>1 DEF TypeOK
<1>5. CASE cmd[b] = "seal" /\ Leave(b)
  <2>1. TypeOK'
    BY <1>1, <1>2, <1>5, LeaveTypes DEF TypeOK, host, store
  <2>2. FilesFit'
    BY <1>1, <1>5 DEF IInv, TypeOK, FilesFit, Leave, host, store
  <2>3. SealKept'
    BY <1>1, <1>3, <1>4, <1>5 DEF IInv, TypeOK, SealKept, Leave, host, store
  <2>4. QED BY <2>1, <2>2, <2>3 DEF IInv
<1>6. CASE Go(b, "shutdown", "stat") /\ UNCHANGED mine
  <2>1. TypeOK'
    BY <1>1, <1>2, <1>6, GoTypes DEF TypeOK, host, store, Labels
  <2>2. FilesFit'
    BY <1>1, <1>6 DEF IInv, TypeOK, FilesFit, Go, host, store
  <2>3. SealKept'
    BY <1>1, <1>3, <1>4, <1>6 DEF IInv, TypeOK, SealKept, Go, host, store
  <2>4. QED BY <2>1, <2>2, <2>3 DEF IInv
<1>7. QED BY <1>5, <1>6 DEF Exited

LEMMA ShutdownTimeoutStep ==
  ASSUME NEW b \in Builds, IInv, ShutdownTimeout(b)
  PROVE  IInv'
BY DEF IInv, TypeOK, FilesFit, SealKept, ShutdownTimeout, Leave, NoVM, store,
       Labels

LEMMA StatDiskStep ==
  ASSUME NEW b \in Builds, IInv, StatDisk(b)
  PROVE  IInv'
<1>1. CASE Leave(b) /\ UNCHANGED art
  BY <1>1 DEF IInv, TypeOK, FilesFit, SealKept, StatDisk, Leave, host, Labels
<1>2. CASE /\ disk[b] # Absent /\ ~Locked(b)
           /\ Go(b, "stat", "convert") /\ UNCHANGED mine
           /\ art' = [art EXCEPT ![b] = [stage |-> disk[b].stage, whole |-> FALSE]]
  <2>1. disk[b].stage \in Stages
    BY <1>2 DEF IInv, TypeOK, Disk
  <2>2. /\ [stage |-> disk[b].stage, whole |-> FALSE] \in Disk
        /\ [stage |-> disk[b].stage, whole |-> FALSE] # Absent
    BY <2>1, WrittenDisk
  <2>3. TypeOK'
    BY <1>2, <2>2, GoTypes DEF IInv, TypeOK, StatDisk, host, Labels
  <2>4. FilesFit'
    BY <1>2, <2>2 DEF IInv, TypeOK, FilesFit, StatDisk, Go, Locked, host
  <2>5. SealKept'
    BY <1>2, <2>2 DEF IInv, TypeOK, SealKept, StatDisk, Go, host
  <2>6. QED BY <2>3, <2>4, <2>5 DEF IInv
<1>3. QED BY <1>1, <1>2 DEF StatDisk

LEMMA ConvertOkStep ==
  ASSUME NEW b \in Builds, IInv, ConvertOk(b)
  PROVE  IInv'
BY DEF IInv, TypeOK, FilesFit, SealKept, ConvertOk, Go, host, Labels

LEMMA ConvertFailedStep ==
  ASSUME NEW b \in Builds, IInv, ConvertFailed(b)
  PROVE  IInv'
<1>1. art' \in [Builds -> Disk \cup {Absent}]
  BY DEF IInv, TypeOK, ConvertFailed
<1>2. TypeOK'
  BY <1>1, LeaveTypes DEF IInv, TypeOK, ConvertFailed, host
<1>3. FilesFit'
  BY DEF IInv, TypeOK, FilesFit, ConvertFailed, Leave, host
<1>4. SealKept'
  BY DEF IInv, TypeOK, SealKept, ConvertFailed, Leave, host
<1>5. QED BY <1>2, <1>3, <1>4 DEF IInv

LEMMA RemoveStep ==
  ASSUME NEW b \in Builds, IInv, Remove(b)
  PROVE  IInv'
<1>1. disk' \in [Builds -> Disk \cup {Absent}]
  BY DEF IInv, TypeOK, Remove
<1>2. TypeOK'
  BY <1>1, LeaveTypes DEF IInv, TypeOK, Remove, host
<1>3. FilesFit'
  BY DEF IInv, TypeOK, FilesFit, Remove, Leave, host
<1>4. SealKept'
  BY DEF IInv, TypeOK, SealKept, Remove, Leave, host
<1>5. QED BY <1>2, <1>3, <1>4 DEF IInv

(* The running qemu goes, and no disk or artifact with it. *)
LEMMA VMGoneStep ==
  ASSUME IInv, VMGone, UNCHANGED <<pc, cmd, cancelled, pinned, store, loose>>
  PROVE  IInv'
BY DEF IInv, TypeOK, FilesFit, SealKept, VMGone, NoVM, store

LEMMA CancelStep ==
  ASSUME NEW b \in Builds, IInv, Cancel(b)
  PROVE  IInv'
BY DEF IInv, TypeOK, FilesFit, SealKept, Cancel, host, store

LEMMA KilledStep ==
  ASSUME NEW b \in Builds, IInv, Killed(b)
  PROVE  IInv'
BY DEF IInv, TypeOK, FilesFit, SealKept, Killed, Leave, host, store, Labels

LEMMA CleanStep ==
  ASSUME IInv, Clean
  PROVE  IInv'
BY DEF IInv, TypeOK, FilesFit, SealKept, Clean, AllIdle, NoVM

(* The guest changes its own disk, which no process is packaging. *)
LEMMA GuestStep ==
  ASSUME IInv, Guest
  PROVE  IInv'
<1>1. ASSUME NEW from \in Guests \ {"off"}, NEW to \in Guests \ {"off"},
             GuestMoves(from, to), UNCHANGED disk
      PROVE  IInv'
  BY <1>1 DEF IInv, TypeOK, FilesFit, SealKept, GuestMoves, cli, NoVM
<1>2. ASSUME vm.guest # "off"
      PROVE  vm.of \in Builds /\ disk[vm.of] # Absent /\ disk[vm.of].stage # "sealed"
  BY <1>2 DEF IInv, TypeOK, NoVM, FilesFit
<1>3. CASE CloudInitEnds
  <2>1. /\ vm.of \in Builds /\ disk[vm.of] # Absent /\ disk[vm.of].stage # "sealed"
        /\ disk' = [disk EXCEPT ![vm.of].stage = "provisioned"] /\ TypeOK
        /\ vm' = [vm EXCEPT !.guest = "done"] /\ UNCHANGED <<cli, pinned, art, loose>>
    BY <1>2, <1>3 DEF CloudInitEnds, GuestMoves, IInv
  <2>2. /\ disk' \in [Builds -> Disk \cup {Absent}]
        /\ disk'[vm.of] # Absent /\ disk'[vm.of].stage = "provisioned"
        /\ \A x \in Builds \ {vm.of} : disk'[x] = disk[x]
    BY <2>1, Restaged DEF Stages
  <2>3. vm'.of = vm.of /\ vm' \in [of : Builds, guest : Guests \ {"off"}]
    BY <2>1 DEF TypeOK, NoVM, Guests
  <2>4. TypeOK'
    BY <2>1, <2>2, <2>3 DEF TypeOK, cli
  <2>5. FilesFit'
    BY <2>1, <2>2, <2>3 DEF IInv, FilesFit, cli
  <2>6. SealKept'
    BY <2>1, <2>2, <2>3 DEF IInv, SealKept, FilesFit, cli
  <2>7. QED BY <2>4, <2>5, <2>6 DEF IInv
<1>4. CASE PowersOff
  <2>1. /\ vm.of \in Builds /\ disk[vm.of] # Absent /\ VMGone /\ TypeOK
        /\ disk' = [disk EXCEPT ![vm.of].stage = "sealed"]
        /\ UNCHANGED <<pc, cmd, cancelled, pinned, art, loose>>
    BY <1>2, <1>4 DEF PowersOff, IInv
  <2>2. /\ disk' \in [Builds -> Disk \cup {Absent}]
        /\ disk'[vm.of] # Absent /\ disk'[vm.of].stage = "sealed"
        /\ \A x \in Builds \ {vm.of} : disk'[x] = disk[x]
    BY <2>1, Restaged DEF Stages
  <2>3. \A x \in Builds : vm'.of # x
    BY <2>1 DEF VMGone, NoVM
  <2>4. TypeOK'
    BY <2>1, <2>2 DEF TypeOK, VMGone
  <2>5. FilesFit'
    BY <2>1, <2>2, <2>3 DEF IInv, FilesFit
  <2>6. SealKept'
    BY <2>1, <2>2 DEF IInv, SealKept
  <2>7. QED BY <2>4, <2>5, <2>6 DEF IInv
<1>5. QED
  BY <1>1, <1>3, <1>4, VMGoneStep
     DEF Guest, SshdUp, CloudInitFails, ChainBreaks, QemuExits, Guests

LEMMA StutterStep ==
  ASSUME IInv, UNCHANGED vars
  PROVE  IInv'
BY DEF IInv, TypeOK, FilesFit, SealKept, vars, cli, host, store

THEOREM NextIInv == IInv /\ [Next]_vars => IInv'
<1> SUFFICES ASSUME IInv, [Next]_vars PROVE IInv'
  OBVIOUS
<1>1. ASSUME NEW b \in Builds, Prompt(b) PROVE IInv'
  BY <1>1, CloneOkStep, CloneFailedStep, StartVMStep, StartFailedStep,
     PinOkStep, PinGaveUpStep, CloudInitDoneStep, WaitFailedStep, SysprepStep,
     SysprepUnsentStep, RunEndsStep, ExitedStep, ShutdownTimeoutStep, StatDiskStep,
     ConvertOkStep, ConvertFailedStep, RemoveStep
     DEF Prompt
<1>2. ASSUME NEW b \in Builds, KillOnCancel(b) PROVE IInv'
  BY <1>2, VMGoneStep DEF KillOnCancel
<1>3. ASSUME OrphanKilled PROVE IInv'
  BY <1>3, VMGoneStep DEF OrphanKilled
<1>4. QED
  BY <1>1, <1>2, <1>3, BeginStep, BeginBuildStep, SessionEndsStep, SysprepByHandStep, CancelStep,
     KilledStep, CleanStep, GuestStep, StutterStep
     DEF Next

-----------------------------------------------------------------------------
(* The state always has the shape the model gives it. *)
THEOREM TypeCorrect == Spec => []TypeOK
<1>1. IInv => TypeOK
  BY DEF IInv
<1>2. QED BY InitIInv, NextIInv, <1>1, PTL DEF Spec

(* No history of commands, cancellations, kills and guest behaviour makes  *)
(* an unsealed artifact, unless waitForShutdown once took another end of   *)
(* qemu for the guest's power-off or `build` was run on an unsealed disk.  *)
THEOREM SealedUnlessLooseHolds == Spec => []SealedUnlessLoose
<1>1. IInv => SealedUnlessLoose
  BY DEF IInv, SealKept, SealedUnlessLoose
<1>2. QED BY InitIInv, NextIInv, <1>1, PTL DEF Spec

(* doBuild removes the instance disk only when the artifact equals it. *)
THEOREM NothingLostHolds == Spec => NothingLost
<1> DEFINE Kept == \A b \in Builds :
       pc[b] # "idle" /\ disk[b] # Absent /\ disk'[b] = Absent
         => art[b] = disk[b]
<1>1. ASSUME IInv, [Next]_vars PROVE Kept
  <2>1. CASE UNCHANGED disk
    BY <2>1
  <2>2. ASSUME NEW x \in Builds, Remove(x) PROVE Kept
    BY <1>1, <2>2 DEF Remove, IInv, TypeOK, FilesFit
  <2>3. CASE Clean
    BY <2>3 DEF Clean, AllIdle
  <2>4. ASSUME NEW x \in Builds, CloneOk(x) \/ CloneFailed(x) PROVE Kept
    <3>1. pc[x] = "clone" /\ disk[x] = Absent
      BY <1>1, <2>4 DEF CloneOk, CloneFailed, Go, IInv, FilesFit
    <3>2. \A y \in Builds \ {x} : disk'[y] = disk[y]
      BY <1>1, <2>4 DEF CloneOk, CloneFailed, IInv, TypeOK
    <3>3. QED BY <3>1, <3>2
  <2>5. ASSUME NEW x \in Builds, NEW s \in Stages, disk[x] # Absent,
               disk' = [disk EXCEPT ![x].stage = s]
        PROVE  Kept
    <3>1. disk'[x] # Absent /\ \A y \in Builds \ {x} : disk'[y] = disk[y]
      BY <1>1, <2>5, Restaged DEF IInv
    <3>2. QED BY <3>1
  <2>6. ASSUME NEW x \in Builds, StartVM(x) PROVE Kept
    BY <1>1, <2>1, <2>5, <2>6 DEF StartVM, Go, IInv, FilesFit, Stages
  <2>7. ASSUME vm.guest # "off"
        PROVE  vm.of \in Builds /\ disk[vm.of] # Absent
    BY <1>1, <2>7 DEF IInv, TypeOK, NoVM, FilesFit
  <2>8. ASSUME NEW x \in Builds, Sysprep(x) PROVE Kept
    BY <2>5, <2>7, <2>8 DEF Sysprep, CanLogIn, Listening, Stages
  <2>8u. CASE SysprepByHand
    BY <2>5, <2>7, <2>8u DEF SysprepByHand, CanLogIn, Listening, Stages
  <2>9. CASE Guest
    BY <2>1, <2>5, <2>7, <2>9
       DEF Guest, GuestMoves, SshdUp, CloudInitFails, CloudInitEnds,
           ChainBreaks, PowersOff, QemuExits, Stages, store
  <2>10. ASSUME NEW x \in Builds, Prompt(x) PROVE Kept
    BY <2>1, <2>2, <2>4, <2>6, <2>8, <2>10
       DEF Prompt, StartFailed, PinOk, PinGaveUp, CloudInitDone, WaitFailed,
           SysprepUnsent, RunEnds, Exited, ShutdownTimeout, StatDisk, ConvertOk,
           ConvertFailed, store
  <2>11. QED
    BY <1>1, <2>1, <2>3, <2>9, <2>10, <2>8u
       DEF Next, Begin, BeginBuild, SessionEnds, Cancel, KillOnCancel, Killed,
           OrphanKilled, vars, store
<1>2. QED BY InitIInv, NextIInv, <1>1, PTL DEF Spec, NothingLost

-----------------------------------------------------------------------------
(* The guest on the port and the stage of its disk agree. *)

(* The guest on the port belongs to a build whose disk exists. *)
LEMMA GuestHasDisk ==
  ASSUME IInv, vm.guest # "off"
  PROVE  vm.of \in Builds /\ disk[vm.of] # Absent /\ disk[vm.of].stage # "sealed"
BY DEF IInv, TypeOK, NoVM, FilesFit

LEMMA InitFits == Init => GuestFits
BY DEF Init, GuestFits, NoVM

(* A step that leaves VM and files alone, and takes no process to convert. *)
LEMMA QuietFits ==
  ASSUME GuestFits, UNCHANGED <<vm, disk, art>>,
         \A x \in Builds : pc'[x] = "convert" => pc[x] = "convert"
  PROVE  GuestFits'
BY DEF GuestFits

(* The guest on the port changes and its disk with it. *)
LEMMA MovedFits ==
  ASSUME IInv, GuestFits, vm.guest # "off", NEW g \in Guests, NEW s \in Stages,
         vm' = [vm EXCEPT !.guest = g], disk' = [disk EXCEPT ![vm.of].stage = s],
         \/ g \in {"boot", "up", "failed"} /\ s = "booted"
         \/ g = "done" /\ s = "provisioned"
         \/ g \in {"wiping", "wedged"} /\ s = "wiping",
         UNCHANGED art, \A x \in Builds : pc'[x] = "convert" => pc[x] = "convert"
  PROVE  GuestFits'
<1>1. vm.of \in Builds /\ disk[vm.of] # Absent
  BY GuestHasDisk
<1>2. /\ disk'[vm.of].stage = s
      /\ \A x \in Builds \ {vm.of} : disk'[x] = disk[x]
  BY <1>1, Restaged DEF IInv
<1>3. vm'.of = vm.of /\ vm'.guest = g
  BY RunningVM DEF IInv, NoVM
<1>4. \A x \in Builds : pc[x] = "convert" => x # vm.of
  BY DEF IInv, FilesFit
<1> QED BY <1>1, <1>2, <1>3, <1>4 DEF GuestFits

(* The guest goes off, or qemu is gone. *)
LEMMA OffFits ==
  ASSUME GuestFits, vm'.guest = "off", UNCHANGED art,
         \A x \in Builds : pc'[x] = "convert" => pc[x] = "convert" /\ disk'[x] = disk[x]
  PROVE  GuestFits'
BY DEF GuestFits

LEMMA StepFits == IInv /\ GuestFits /\ [Next]_vars => GuestFits'
<1> SUFFICES ASSUME IInv, GuestFits, [Next]_vars PROVE GuestFits'
  OBVIOUS
<1>t. TypeOK /\ FilesFit
  BY DEF IInv
<1> DEFINE Quiet == /\ UNCHANGED <<vm, disk, art>>
                    /\ \A x \in Builds : pc'[x] = "convert" => pc[x] = "convert"
<1>q. Quiet => GuestFits'
  BY QuietFits
<1>1. ASSUME NEW b \in Builds, NEW c \in Commands, Begin(b, c) PROVE Quiet
  BY <1>1, <1>t DEF Begin, host, store, TypeOK
<1>2. ASSUME NEW b \in Builds,
             BeginBuild(b) \/ SessionEnds(b) \/ Cancel(b) \/ Killed(b)
      PROVE  Quiet
  BY <1>2, <1>t DEF BeginBuild, SessionEnds, Cancel, Killed, Go, Leave, host, store, TypeOK
<1>3. ASSUME NEW b \in Builds,
             \/ StartFailed(b) \/ PinOk(b) \/ PinGaveUp(b) \/ CloudInitDone(b)
             \/ WaitFailed(b) \/ SysprepUnsent(b) \/ RunEnds(b) \/ Exited(b)
      PROVE  Quiet
  BY <1>3, <1>t DEF StartFailed, PinOk, PinGaveUp, CloudInitDone, WaitFailed,
     SysprepUnsent, RunEnds, Exited, Go, Leave, AfterStart, host, store, TypeOK
<1>4. ASSUME NEW b \in Builds, CloneOk(b) \/ CloneFailed(b) PROVE GuestFits'
  <2>1. /\ UNCHANGED <<vm, art>> /\ pc[b] = "clone" /\ disk[b] = Absent
        /\ pc'[b] # "convert"
        /\ \A x \in Builds \ {b} : disk'[x] = disk[x] /\ pc'[x] = pc[x]
    BY <1>4, <1>t DEF CloneOk, CloneFailed, Go, Leave, host, TypeOK, FilesFit
  <2>2. vm.guest # "off" => vm.of # b /\ vm.of \in Builds
    BY <2>1, GuestHasDisk
  <2> QED BY <2>1, <2>2 DEF GuestFits
<1>5. ASSUME NEW b \in Builds, StartVM(b) PROVE GuestFits'
  <2>1. CASE vm # NoVM
    BY <1>5, <2>1, <1>t, <1>q DEF StartVM, Go, TypeOK
  <2>2. CASE vm = NoVM
    <3>1. /\ vm' = [of |-> b, guest |-> "boot"] /\ disk[b] # Absent
          /\ disk' = [disk EXCEPT ![b].stage = "booted"] /\ UNCHANGED art
          /\ pc' = [pc EXCEPT ![b] = "pin"]
      BY <1>5, <2>2, <1>t DEF StartVM, Go, FilesFit
    <3>2. disk'[b].stage = "booted" /\ \A x \in Builds \ {b} : disk'[x] = disk[x]
      BY <3>1, <1>t, Restaged DEF Stages
    <3> QED BY <3>1, <3>2, <1>t DEF GuestFits, TypeOK
  <2> QED BY <2>1, <2>2
<1>6. ASSUME SysprepByHand \/ \E b \in Builds : Sysprep(b) PROVE GuestFits'
  <2>1. /\ CanLogIn /\ vm' = [vm EXCEPT !.guest = "wiping"] /\ UNCHANGED art
        /\ disk' = [disk EXCEPT ![vm.of].stage = "wiping"]
        /\ \A x \in Builds : pc'[x] = "convert" => pc[x] = "convert"
    BY <1>6, <1>t DEF Sysprep, SysprepByHand, Go, cli, TypeOK
  <2> QED BY <2>1, MovedFits DEF CanLogIn, Listening, Guests, Stages
<1>7. ASSUME NEW b \in Builds, ShutdownTimeout(b) \/ KillOnCancel(b) PROVE GuestFits'
  <2>1. vm'.guest = "off" /\ UNCHANGED store
    BY <1>7 DEF ShutdownTimeout, KillOnCancel, VMGone, NoVM
  <2>2. \A x \in Builds : pc'[x] = "convert" => pc[x] = "convert"
    BY <1>7, <1>t DEF ShutdownTimeout, KillOnCancel, Leave, TypeOK
  <2> QED BY <2>1, <2>2, OffFits DEF store
<1>8. ASSUME NEW b \in Builds, StatDisk(b) PROVE GuestFits'
  <2>1. CASE Leave(b) /\ UNCHANGED art
    BY <1>8, <2>1, <1>t, <1>q DEF StatDisk, Leave, host, TypeOK
  <2>2. CASE /\ ~Locked(b) /\ Go(b, "stat", "convert")
             /\ art' = [art EXCEPT ![b] = [stage |-> disk[b].stage, whole |-> FALSE]]
    BY <1>8, <2>2, <1>t DEF StatDisk, Go, Locked, host, GuestFits, TypeOK
  <2> QED BY <1>8, <2>1, <2>2 DEF StatDisk
<1>9. ASSUME NEW b \in Builds, ConvertOk(b) \/ ConvertFailed(b) PROVE GuestFits'
  BY <1>9, <1>t DEF ConvertOk, ConvertFailed, Go, Leave, host, GuestFits, TypeOK
<1>10. ASSUME NEW b \in Builds, Remove(b) PROVE GuestFits'
  <2>1. /\ UNCHANGED <<vm, art>> /\ pc[b] = "remove" /\ disk[b] # Absent /\ vm.of # b
        /\ pc'[b] # "convert"
        /\ \A x \in Builds \ {b} : disk'[x] = disk[x] /\ pc'[x] = pc[x]
    BY <1>10, <1>t DEF Remove, Leave, host, TypeOK, FilesFit
  <2>2. vm.guest # "off" => vm.of \in Builds
    BY GuestHasDisk
  <2> QED BY <2>1, <2>2 DEF GuestFits
<1>11. CASE OrphanKilled \/ Clean
  <2>1. vm'.guest = "off" /\ UNCHANGED art /\ \A x \in Builds : pc'[x] # "convert"
    BY <1>11 DEF OrphanKilled, Clean, AllIdle, VMGone, NoVM, store
  <2> QED BY <2>1 DEF GuestFits
<1>12. CASE Guest
  <2>1. CASE \E from, to \in Guests : GuestMoves(from, to) /\ UNCHANGED disk
             /\ <<from, to>> \in {<<"boot", "up">>, <<"up", "failed">>, <<"wiping", "wedged">>}
    BY <2>1, <1>t, GuestHasDisk DEF GuestMoves, GuestFits, cli, TypeOK, NoVM
  <2>2. CASE CloudInitEnds
    BY <2>2, MovedFits DEF CloudInitEnds, GuestMoves, Guests, Stages, cli
  <2>3. CASE PowersOff
    <3>1. /\ vm'.guest = "off" /\ UNCHANGED <<pc, art>> /\ vm.guest # "off"
          /\ disk' = [disk EXCEPT ![vm.of].stage = "sealed"]
      BY <2>3 DEF PowersOff, VMGone, NoVM
    <3>2. \A x \in Builds : pc[x] = "convert" => disk'[x] = disk[x]
      BY <3>1, <1>t DEF FilesFit, TypeOK
    <3> QED BY <3>1, <3>2, OffFits
  <2>4. CASE QemuExits
    BY <2>4, OffFits DEF QemuExits, VMGone, NoVM, store
  <2> QED
    BY <1>12, <2>1, <2>2, <2>3, <2>4
    DEF Guest, SshdUp, CloudInitFails, ChainBreaks, Guests
<1>13. CASE UNCHANGED vars
  BY <1>13, <1>q DEF vars, cli, host, store
<1> QED
  BY <1>1, <1>2, <1>3, <1>4, <1>5, <1>6, <1>7, <1>8, <1>9, <1>10, <1>11, <1>12,
     <1>13, <1>q DEF Next, Prompt

-----------------------------------------------------------------------------
Fits == IInv /\ GuestFits

LEMMA FitsHolds == Spec => []Fits
<1>1. Init => Fits
  BY InitIInv, InitFits DEF Fits
<1>2. Fits /\ [Next]_vars => Fits'
  BY NextIInv, StepFits DEF Fits
<1> QED BY <1>1, <1>2, PTL DEF Spec

-----------------------------------------------------------------------------
(* What a pipeline that has the machine to itself promises: its artifacts  *)
(* come from sealed disks, and it wipes no guest that is still being       *)
(* provisioned.                                                            *)

(* A command that is past startVM, and has yet to look at its disk. *)
Launched == {"pin", "running", "wait", "sysprep", "session", "shutdown", "stat"}

LEMMA InitLone == Init => LoneFits
BY DEF Init, LoneFits

(* A step that leaves VM and files alone, and takes a process nowhere new. *)
LEMMA QuietLone ==
  ASSUME LoneFits, UNCHANGED <<vm, disk, art>>,
         \A x \in Builds :
           /\ cancelled[x] => cancelled'[x] \/ pc'[x] \notin Launched
           /\ pc'[x] \in Launched => pc[x] \in Launched
           /\ pc'[x] = "sysprep" => pc[x] = "sysprep" \/ vm.guest = "done"
           /\ pc'[x] \in {"convert", "remove"} => pc[x] \in {"convert", "remove"}
  PROVE  LoneFits'
BY DEF LoneFits, Launched

(* A step after which no process is past startVM. *)
LEMMA LeftLone ==
  ASSUME LoneFits,
         \A x \in Builds :
           /\ pc'[x] \notin Launched \cup {"convert", "remove"}
           /\ art'[x] = art[x] \/ art'[x] = Absent
  PROVE  LoneFits'
BY DEF LoneFits, Launched

LEMMA StepLone ==
  ASSUME Lone, IInv, GuestFits, LoneFits, [Next]_vars
  PROVE  LoneFits'
<1>t. TypeOK /\ FilesFit
  BY DEF IInv
<1>o. /\ \A x, y \in Builds : x = y
      /\ ~QemuMayExit /\ "build" \notin Commands
  BY DEF Lone
<1>h. vm.guest # "off" => vm.of \in Builds /\ disk[vm.of] # Absent
  BY GuestHasDisk
<1>1. ASSUME NEW b \in Builds, NEW c \in Commands, Begin(b, c) PROVE LoneFits'
  BY <1>1, <1>t, <1>o, LeftLone DEF Begin, store, TypeOK, Launched
<1>2. ASSUME NEW b \in Builds, BeginBuild(b) PROVE FALSE
  BY <1>2, <1>o DEF BeginBuild
<1>3. ASSUME NEW b \in Builds,
             \/ CloneFailed(b) \/ StartFailed(b) \/ WaitFailed(b) \/ RunEnds(b)
             \/ ShutdownTimeout(b) \/ ConvertFailed(b) \/ Remove(b) \/ Killed(b)
      PROVE  LoneFits'
  <2>1. pc'[b] = "idle" /\ (art'[b] = art[b] \/ art'[b] = Absent)
    BY <1>3, <1>t DEF CloneFailed, StartFailed, WaitFailed, RunEnds, ShutdownTimeout,
       ConvertFailed, Remove, Killed, Leave, store, TypeOK
  <2> QED BY <2>1, <1>o, LeftLone DEF Launched
<1>4. ASSUME NEW b \in Builds, CloneOk(b) PROVE LoneFits'
  BY <1>4, <1>t, <1>o, LeftLone DEF CloneOk, Go, TypeOK, Launched
<1>5. ASSUME NEW b \in Builds, StartVM(b) PROVE LoneFits'
  <2>1. vm'.of = b /\ pc'[b] = "pin" /\ UNCHANGED art
    BY <1>5, <1>t, <1>o DEF StartVM, Go, TypeOK
  <2> QED BY <2>1, <1>o DEF LoneFits
<1>6. ASSUME NEW b \in Builds,
             \/ PinOk(b) \/ PinGaveUp(b) \/ CloudInitDone(b) \/ SysprepUnsent(b)
             \/ SessionEnds(b) \/ Cancel(b)
      PROVE  LoneFits'
  BY <1>6, <1>t, QuietLone DEF PinOk, PinGaveUp, AfterStart, CloudInitDone, SysprepUnsent,
     SessionEnds, Cancel, Go, host, store, TypeOK, Launched
<1>7. ASSUME SysprepByHand \/ \E b \in Builds : Sysprep(b) PROVE LoneFits'
  <2>1. vm' = [vm EXCEPT !.guest = "wiping"] /\ vm.of \in Builds /\ UNCHANGED art
    BY <1>7, <1>h DEF Sysprep, SysprepByHand, CanLogIn, Listening
  <2>2. vm'.of = vm.of /\ vm'.guest = "wiping"
    BY <2>1, <1>t DEF TypeOK, NoVM
  <2>3. \A x \in Builds : pc'[x] \in {"convert", "remove"} => pc[x] \in {"convert", "remove"}
    BY <1>7, <1>t DEF Sysprep, SysprepByHand, Go, cli, TypeOK
  <2>4. \A x \in Builds : pc[x] \notin {"convert", "remove"}
    BY <2>1, <1>o, <1>t DEF FilesFit
  <2> QED BY <2>1, <2>2, <2>3, <2>4, <1>o DEF LoneFits
<1>8. ASSUME NEW b \in Builds, Exited(b) PROVE LoneFits'
  <2>1. CASE Leave(b)
    BY <1>8, <2>1, <1>t, <1>o, LeftLone DEF Exited, Leave, store, TypeOK, Launched
  <2>2. CASE Go(b, "shutdown", "stat")
    BY <1>8, <2>2, <1>t, QuietLone DEF Exited, Go, host, store, TypeOK, Launched
  <2> QED BY <1>8, <2>1, <2>2 DEF Exited
<1>9. ASSUME NEW b \in Builds, StatDisk(b) PROVE LoneFits'
  <2>1. CASE Leave(b) /\ UNCHANGED art
    BY <2>1, <1>t, <1>o, LeftLone DEF Leave, TypeOK, Launched
  <2>2. CASE /\ ~cancelled[b] /\ ~Locked(b) /\ Go(b, "stat", "convert")
             /\ art' = [art EXCEPT ![b] = [stage |-> disk[b].stage, whole |-> FALSE]]
    <3>1. disk[b].stage = "sealed" /\ UNCHANGED disk
      BY <1>9, <2>2 DEF StatDisk, Go, Locked, LoneFits
    <3>2. pc'[b] = "convert" /\ art'[b].stage = "sealed"
      BY <2>2, <3>1, <1>t DEF Go, TypeOK
    <3> QED BY <3>1, <3>2, <1>o DEF LoneFits
  <2> QED BY <1>9, <2>1, <2>2 DEF StatDisk
<1>10. ASSUME NEW b \in Builds, ConvertOk(b) PROVE LoneFits'
  <2>1. /\ disk[b].stage = "sealed" /\ UNCHANGED disk
        /\ pc'[b] = "remove" /\ art'[b] = disk[b]
    BY <1>10, <1>t DEF ConvertOk, Go, LoneFits, TypeOK
  <2> QED BY <2>1, <1>o DEF LoneFits
<1>11. ASSUME NEW b \in Builds, KillOnCancel(b) PROVE LoneFits'
  BY <1>11, <1>o DEF KillOnCancel, VMGone, NoVM, store, LoneFits
<1>12. CASE OrphanKilled \/ Clean
  BY <1>12, LeftLone DEF OrphanKilled, Clean, AllIdle, store, Launched
<1>13. CASE Guest
  <2>1. /\ UNCHANGED <<pc, cancelled, art>> /\ vm.of \in Builds /\ disk[vm.of] # Absent
    BY <1>13, <1>o, <1>t, <1>h DEF Guest, SshdUp, CloudInitFails, CloudInitEnds, ChainBreaks,
       PowersOff, QemuExits, GuestMoves, cli
  <2>2. pc[vm.of] \notin {"convert", "remove"}
    BY <2>1, <1>t DEF FilesFit
  <2>3. CASE PowersOff
    <3>1. disk'[vm.of].stage = "sealed" /\ vm'.guest = "off"
      BY <2>3, <2>1, <1>t, Restaged DEF PowersOff, VMGone, NoVM, Stages
    <3> QED BY <2>1, <2>2, <3>1, <1>o DEF LoneFits
  <2>4. CASE SshdUp \/ CloudInitFails \/ CloudInitEnds \/ ChainBreaks
    <3>1. vm'.of = vm.of /\ (vm.guest \in {"boot", "up"} \/ vm'.guest = "wedged")
      BY <2>4, <1>t DEF SshdUp, CloudInitFails, CloudInitEnds, ChainBreaks, GuestMoves,
         TypeOK, NoVM
    <3> QED BY <2>1, <2>2, <3>1, <1>o DEF LoneFits
  <2> QED BY <1>13, <1>o, <2>3, <2>4 DEF Guest, QemuExits
<1>14. CASE UNCHANGED vars
  BY <1>14, QuietLone DEF vars, cli, host, store
<1> QED
  BY <1>1, <1>2, <1>3, <1>4, <1>5, <1>6, <1>7, <1>8, <1>9, <1>10, <1>11, <1>12,
     <1>13, <1>14 DEF Next, Prompt

-----------------------------------------------------------------------------
LoneInv == Fits /\ LoneFits

LEMMA LoneInvHolds ==
  ASSUME Lone
  PROVE  Spec => []LoneInv
<1>1. Init => LoneInv
  BY InitIInv, InitFits, InitLone DEF LoneInv, Fits
<1>2. LoneInv /\ [Next]_vars => LoneInv'
  BY NextIInv, StepFits, StepLone DEF LoneInv, Fits
<1> QED BY <1>1, <1>2, PTL DEF Spec

(* "Compress the sysprepped instance disk into the release-named artifact" *)
(* holds of pipelines that have the machine to themselves: whatever fails, *)
(* is cancelled or is killed, and whatever guest an earlier one left.      *)
THEOREM SealedArtifactHolds ==
  ASSUME Lone
  PROVE  Spec => []SealedArtifact
<1>1. LoneInv => SealedArtifact
  BY DEF LoneInv, LoneFits, SealedArtifact
<1> QED BY <1>1, LoneInvHolds, PTL

(* And none of them wipes a guest while cloud-init is at work. *)
THEOREM WipeAfterProvisionedHolds ==
  ASSUME Lone
  PROVE  Spec => WipeAfterProvisioned
<1> DEFINE InTime(b) ==
       pc[b] = "sysprep" /\ pc'[b] = "session"
         => disk[vm.of].stage \in {"provisioned", "wiping"}
<1>1. ASSUME LoneInv, [Next]_vars PROVE \A b \in Builds : InTime(b)
  <2>t. TypeOK /\ GuestFits /\ LoneFits /\ IInv
    BY <1>1 DEF LoneInv, Fits, IInv
  <2> SUFFICES ASSUME NEW b \in Builds, pc[b] = "sysprep", pc'[b] = "session"
               PROVE  disk[vm.of].stage \in {"provisioned", "wiping"}
    OBVIOUS
  <2>1. Sysprep(b)
    BY <1>1, <2>t DEF Next, Prompt, Guest, vars, cli, Go, Leave, AllIdle, TypeOK,
       Begin, BeginBuild, CloneOk, CloneFailed, StartVM, StartFailed, PinOk, PinGaveUp,
       AfterStart, CloudInitDone, WaitFailed, Sysprep, SysprepUnsent, SysprepByHand,
       RunEnds, SessionEnds, Exited, ShutdownTimeout, StatDisk, ConvertOk, ConvertFailed,
       Remove, Cancel, KillOnCancel, Killed, OrphanKilled, Clean, GuestMoves, SshdUp,
       CloudInitFails, CloudInitEnds, ChainBreaks, PowersOff, QemuExits
  <2>2. vm.guest \in {"done", "wiping", "wedged"}
    BY <2>1, <2>t DEF Sysprep, CanLogIn, Listening, LoneFits
  <2> QED BY <2>2, <2>t DEF GuestFits
<1> QED BY <1>1, LoneInvHolds, PTL DEF Spec, WipeAfterProvisioned
=============================================================================

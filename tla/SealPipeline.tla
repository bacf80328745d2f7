---------------------------- MODULE SealPipeline ----------------------------
(***************************************************************************)
(* From a source disk to a release artifact: clone it, boot the clone,     *)
(* wait for cloud-init, run sysprep over SSH, wait for the power-off and   *)
(* compress the disk (cmd/astroimg/run.go, sysprep.go, build.go, the tail  *)
(* of pipeline.go, and internal/qemurun/qemurun.go).                       *)
(*                                                                         *)
(* Builds are the base and the layers of one distro on one machine.  They  *)
(* have disks and artifacts of their own but share what the flags default  *)
(* to: the forwarded SSH port, the known_hosts file, the SSH key and the   *)
(* guest's user name.  So one qemu runs at a time -- a second one cannot   *)
(* bind the port and exits -- and whoever asks port 2222 gets the guest    *)
(* that holds it.                                                          *)
(***************************************************************************)
EXTENDS Naturals

CONSTANTS Builds,       \* the build targets (FinalImageName each)
          NoBuild,      \* nobody
          Absent,       \* no such file
          Commands,     \* the commands users run
          Overlap,      \* whether two commands may run at the same time
          QemuMayExit   \* whether qemu may end by itself (window closed, OOM)

ASSUME BuildsAssumption == NoBuild \notin Builds
ASSUME CommandsAssumption == Commands \subseteq {"pipeline", "seal", "run", "sysprep", "build"}
ASSUME SwitchAssumption == Overlap \in BOOLEAN /\ QemuMayExit \in BOOLEAN

Stages == {"fresh", "booted", "provisioned", "wiping", "sealed"}
Disk == [stage : Stages, whole : BOOLEAN]

ASSUME AbsentAssumption == Absent \notin Disk

VARIABLES
  pc,         \* where each build's astroimg process is
  cmd,        \* the command it runs
  cancelled,  \* its context is cancelled (Ctrl-C, SIGTERM)
  mine,       \* its qemuCmd is the live qemu
  vm,         \* the qemu that holds the SSH port: build and guest state
  pinned,     \* whose host key known_hosts holds for the port
  disk,       \* InstanceDisk of each build
  art,        \* build/<FinalImageName> of each build
  loose       \* history: an unsealed disk was taken for a sealed one

cli == <<pc, cmd, cancelled, mine>>
host == <<vm, pinned>>
store == <<disk, art>>
vars == <<cli, host, store, loose>>

Labels == {"idle", "clone", "start", "pin", "running", "wait", "sysprep",
           "session", "shutdown", "stat", "convert", "remove"}
Guests == {"off", "boot", "up", "failed", "done", "wiping", "wedged"}
NoVM == [of |-> NoBuild, guest |-> "off"]

TypeOK ==
  /\ pc \in [Builds -> Labels]
  /\ cmd \in [Builds -> Commands \cup {"none"}]
  /\ cancelled \in [Builds -> BOOLEAN]
  /\ mine \in [Builds -> BOOLEAN]
  /\ vm \in [of : Builds, guest : Guests \ {"off"}] \cup {NoVM}
  /\ pinned \in Builds \cup {NoBuild}
  /\ disk \in [Builds -> Disk \cup {Absent}]
  /\ art \in [Builds -> Disk \cup {Absent}]
  /\ loose \in [Builds -> BOOLEAN]

Init ==
  /\ pc = [b \in Builds |-> "idle"] /\ cmd = [b \in Builds |-> "none"]
  /\ cancelled = [b \in Builds |-> FALSE] /\ mine = [b \in Builds |-> FALSE]
  /\ vm = NoVM /\ pinned = NoBuild
  /\ disk = [b \in Builds |-> Absent] /\ art = [b \in Builds |-> Absent]
  /\ loose = [b \in Builds |-> FALSE]

-----------------------------------------------------------------------------
AllIdle == \A b \in Builds : pc[b] = "idle"

Go(b, from, to) ==
  /\ pc[b] = from
  /\ pc' = [pc EXCEPT ![b] = to]
  /\ UNCHANGED <<cmd, cancelled>>

(* The process ends.  It leaves a qemu it started running: os.Exit does    *)
(* not wait for, or signal, a child (cmd/astroimg/main.go).                *)
Leave(b) ==
  /\ pc' = [pc EXCEPT ![b] = "idle"]
  /\ cmd' = [cmd EXCEPT ![b] = "none"]
  /\ cancelled' = [cancelled EXCEPT ![b] = FALSE]
  /\ mine' = [mine EXCEPT ![b] = FALSE]

(* The running qemu is gone, and whoever waits for it knows.  While it ran *)
(* it held qemu's lock on its disk.                                        *)
VMGone ==
  /\ vm' = NoVM
  /\ mine' = [b \in Builds |-> mine[b] /\ b # vm.of]

Locked(b) == vm.of = b

(* sshd answers, and strict host key checking accepts its key.  The wipe    *)
(* takes the login away only with the chain's second command, and each     *)
(* step that logs in has one beside it that fails to.                      *)
Listening == vm.guest \in Guests \ {"off", "boot"}
CanLogIn == Listening /\ pinned = vm.of

-----------------------------------------------------------------------------
(* Commands. *)

(* pipeline, run and run --seal enter prepareVMDisks: clone the source     *)
(* disk, or use the instance disk that exists.                             *)
Begin(b, c) ==
  /\ pc[b] = "idle" /\ (Overlap \/ AllIdle)
  /\ c \in {"pipeline", "seal", "run"}
  /\ pc' = [pc EXCEPT ![b] = IF disk[b] = Absent THEN "clone" ELSE "start"]
  /\ cmd' = [cmd EXCEPT ![b] = c]
  /\ UNCHANGED <<cancelled, mine, host, store, loose>>

(* `astroimg build`, by hand: it packs whatever instance disk there is.    *)
(* `loose` notes that nothing has sealed this one.                         *)
BeginBuild(b) ==
  /\ pc[b] = "idle" /\ (Overlap \/ AllIdle)
  /\ "build" \in Commands
  /\ pc' = [pc EXCEPT ![b] = "stat"]
  /\ cmd' = [cmd EXCEPT ![b] = "build"]
  /\ loose' = [loose EXCEPT ![b] =
                 @ \/ (disk[b] # Absent /\ disk[b].stage # "sealed")]
  /\ UNCHANGED <<cancelled, mine, host, store>>

CloneOk(b) ==
  /\ Go(b, "clone", "start")
  /\ disk' = [disk EXCEPT ![b] = [stage |-> "fresh", whole |-> TRUE]]
  /\ UNCHANGED <<mine, host, art, loose>>

(* copyFile (or qemu-img create) fails: what it wrote stays. *)
CloneFailed(b) ==
  /\ pc[b] = "clone"
  /\ Leave(b)
  /\ disk' \in {disk, [disk EXCEPT ![b] = [stage |-> "fresh", whole |-> FALSE]]}
  /\ UNCHANGED <<host, art, loose>>

(* startVM: drop the port's old host key and start qemu.  If the port is   *)
(* taken the new qemu exits at once; nothing looks.                        *)
StartVM(b) ==
  /\ Go(b, "start", "pin")
  /\ ~cancelled[b]
  /\ pinned' = NoBuild
  /\ \/ /\ vm = NoVM
        /\ vm' = [of |-> b, guest |-> "boot"]
        /\ mine' = [mine EXCEPT ![b] = TRUE]
        /\ disk' = [disk EXCEPT ![b].stage = "booted"]
     \/ /\ vm # NoVM
        /\ UNCHANGED <<vm, mine, disk>>
  /\ UNCHANGED <<art, loose>>

(* qemu's binary does not start, or the context is cancelled.  ssh-keygen  *)
(* -R has run before, unless the context was cancelled.                    *)
StartFailed(b) ==
  /\ pc[b] = "start"
  /\ Leave(b)
  /\ pinned' = IF cancelled[b] THEN pinned ELSE NoBuild
  /\ UNCHANGED <<vm, store, loose>>

(* After startVM, `run` waits for qemu and the others for cloud-init. *)
AfterStart(b) == IF cmd[b] = "run" THEN "running" ELSE "wait"

(* WaitAndPinHostKey: the first key ssh-keyscan returns from the port. *)
PinOk(b) ==
  /\ Go(b, "pin", AfterStart(b))
  /\ Listening /\ ~cancelled[b]
  /\ pinned' = vm.of
  /\ UNCHANGED <<mine, vm, store, loose>>

(* Twenty minutes without a key, or cancelled: only a warning. *)
PinGaveUp(b) ==
  /\ Go(b, "pin", AfterStart(b))
  /\ UNCHANGED <<mine, host, store, loose>>

(* Mutant of CloudInitDone: a guest that takes the login is taken as done. *)
AnyStatusDone(b) ==
  /\ Go(b, "wait", "sysprep")
  /\ CanLogIn /\ ~cancelled[b]
  /\ UNCHANGED <<mine, host, store, loose>>

(* WaitForCloudInit returns nil only when the guest that answers says      *)
(* "status: done".                                                         *)
CloudInitDone(b) ==
  /\ Go(b, "wait", "sysprep")
  /\ CanLogIn /\ vm.guest = "done" /\ ~cancelled[b]
  /\ UNCHANGED <<mine, host, store, loose>>

(* "status: error", ninety minutes without an answer, or cancelled: the    *)
(* command fails and qemu is left running.                                 *)
WaitFailed(b) ==
  /\ pc[b] = "wait"
  /\ Leave(b)
  /\ UNCHANGED <<host, store, loose>>

(* doSysprep: the chain of sysprep commands starts in the guest that       *)
(* answers the port.                                                       *)
Sysprep(b) ==
  /\ Go(b, "sysprep", "session")
  /\ CanLogIn /\ ~cancelled[b]
  /\ vm' = [vm EXCEPT !.guest = "wiping"]
  /\ disk' = [disk EXCEPT ![vm.of].stage = "wiping"]
  /\ UNCHANGED <<mine, pinned, art, loose>>

(* ssh fails before the first command; the error is taken for the end of   *)
(* a session that powered the guest off.                                   *)
SysprepUnsent(b) ==
  /\ Go(b, "sysprep", "shutdown")
  /\ UNCHANGED <<mine, host, store, loose>>

(* `astroimg sysprep` in another terminal, whenever a user thinks fit: on  *)
(* the guest of a `run`, on one a failed command left, beside a pipeline.  *)
SysprepByHand ==
  /\ "sysprep" \in Commands /\ CanLogIn
  /\ vm' = [vm EXCEPT !.guest = "wiping"]
  /\ disk' = [disk EXCEPT ![vm.of].stage = "wiping"]
  /\ UNCHANGED <<cli, pinned, art, loose>>

(* `run` ends with qemu. *)
RunEnds(b) ==
  /\ pc[b] = "running" /\ ~mine[b]
  /\ Leave(b)
  /\ UNCHANGED <<host, store, loose>>

(* Mutant of SessionEnds: ssh is not run under the command's context. *)
SessionIgnoresContext(b) ==
  /\ Go(b, "session", "shutdown")
  /\ vm.guest # "wiping"
  /\ UNCHANGED <<mine, host, store, loose>>

(* The session ends with the chain, with the connection, or with the       *)
(* context; the three are not told apart.                                  *)
SessionEnds(b) ==
  /\ Go(b, "session", "shutdown")
  /\ UNCHANGED <<mine, host, store, loose>>

(* waitForShutdown: any exit of the process's own qemu counts.  run --seal *)
(* prints "sealed" and returns; the pipeline goes on to doBuild.           *)
Exited(b) ==
  /\ pc[b] = "shutdown" /\ ~mine[b]
  /\ \/ cmd[b] = "seal" /\ Leave(b)
     \/ /\ cmd[b] = "pipeline"
        /\ Go(b, "shutdown", "stat") /\ UNCHANGED mine
  /\ loose' = [loose EXCEPT ![b] = @ \/ disk[b].stage # "sealed"]
  /\ UNCHANGED <<host, store>>

(* Mutants of ShutdownTimeout: wait for as long as it takes; kill qemu and *)
(* report success; kill it without letting go of the port.                 *)
WaitWithoutTimeout(b) == FALSE

CallItSealed(b) ==
  /\ pc[b] = "shutdown" /\ mine[b]
  /\ VMGone
  /\ pc' = [pc EXCEPT ![b] = "stat"]
  /\ UNCHANGED <<cmd, cancelled, pinned, store, loose>>

KillUnreaped(b) ==
  /\ pc[b] = "shutdown" /\ mine[b]
  /\ Leave(b)
  /\ vm' = [vm EXCEPT !.guest = "off"]
  /\ UNCHANGED <<pinned, store, loose>>

(* Five minutes without an exit: kill qemu, return an error. *)
ShutdownTimeout(b) ==
  /\ pc[b] = "shutdown" /\ mine[b]
  /\ Leave(b)
  /\ vm' = NoVM
  /\ UNCHANGED <<pinned, store, loose>>

(* Mutant of StatDisk: convert --force-share, which takes no lock.         *)
ConvertForceShare(b) ==
  /\ pc[b] = "stat"
  /\ \/ /\ disk[b] = Absent \/ cancelled[b]
        /\ Leave(b)
        /\ UNCHANGED art
     \/ /\ disk[b] # Absent /\ ~cancelled[b]
        /\ Go(b, "stat", "convert") /\ UNCHANGED mine
        /\ art' = [art EXCEPT ![b] = [stage |-> disk[b].stage, whole |-> FALSE]]
  /\ UNCHANGED <<host, disk, loose>>

(* doBuild: refuse without an instance disk; qemu-img convert does not     *)
(* start under a cancelled context nor open a disk a running qemu locks;   *)
(* otherwise it begins by truncating the artifact.                         *)
StatDisk(b) ==
  /\ pc[b] = "stat"
  /\ \/ /\ disk[b] = Absent \/ cancelled[b] \/ Locked(b)
        /\ Leave(b)
        /\ UNCHANGED art
     \/ /\ disk[b] # Absent /\ ~cancelled[b] /\ ~Locked(b)
        /\ Go(b, "stat", "convert") /\ UNCHANGED mine
        /\ art' = [art EXCEPT ![b] = [stage |-> disk[b].stage, whole |-> FALSE]]
  /\ UNCHANGED <<host, disk, loose>>

ConvertOk(b) ==
  /\ Go(b, "convert", "remove")
  /\ art' = [art EXCEPT ![b] = disk[b]]
  /\ UNCHANGED <<mine, host, disk, loose>>

(* Mutant of ConvertFailed: convert's error is dropped. *)
ConvertErrorIgnored(b) ==
  /\ Go(b, "convert", "remove")
  /\ UNCHANGED <<mine, host, store, loose>>

ConvertFailed(b) ==
  /\ pc[b] = "convert"
  /\ Leave(b)
  /\ art' \in {art, [art EXCEPT ![b] = Absent]}
  /\ UNCHANGED <<host, disk, loose>>

Remove(b) ==
  /\ pc[b] = "remove"
  /\ Leave(b)
  /\ disk' \in {disk, [disk EXCEPT ![b] = Absent]}
  /\ UNCHANGED <<host, art, loose>>

-----------------------------------------------------------------------------
(* Signals, and the user at the terminal. *)

Cancel(b) ==
  /\ pc[b] # "idle" /\ ~cancelled[b]
  /\ cancelled' = [cancelled EXCEPT ![b] = TRUE]
  /\ UNCHANGED <<pc, cmd, mine, host, store, loose>>

(* exec.CommandContext kills qemu once the context is cancelled, unless    *)
(* the process exits first.                                                *)
KillOnCancel(b) ==
  /\ cancelled[b] /\ mine[b]
  /\ VMGone
  /\ UNCHANGED <<pc, cmd, cancelled, pinned, store, loose>>

Killed(b) ==
  /\ pc[b] # "idle"
  /\ Leave(b)
  /\ UNCHANGED <<host, store, loose>>

(* With nothing else running, the user ends a qemu that was left behind.   *)
OrphanKilled ==
  /\ vm # NoVM /\ AllIdle
  /\ VMGone
  /\ UNCHANGED <<pc, cmd, cancelled, pinned, store, loose>>

(* `astroimg clean`, with nothing running: the runtime directory goes.     *)
Clean ==
  /\ vm = NoVM /\ AllIdle
  /\ disk' = [b \in Builds |-> Absent]
  /\ pinned' = NoBuild
  /\ UNCHANGED <<pc, cmd, cancelled, mine, vm, art, loose>>

-----------------------------------------------------------------------------
(* The guest. *)

GuestMoves(from, to) ==
  /\ vm.guest = from
  /\ vm' = [vm EXCEPT !.guest = to]
  /\ UNCHANGED <<cli, pinned, art, loose>>

SshdUp == GuestMoves("boot", "up") /\ UNCHANGED disk
CloudInitFails == GuestMoves("up", "failed") /\ UNCHANGED disk
CloudInitEnds ==
  /\ GuestMoves("up", "done")
  /\ disk' = [disk EXCEPT ![vm.of].stage = "provisioned"]

(* A command of the && chain fails: poweroff is never reached. *)
ChainBreaks == GuestMoves("wiping", "wedged") /\ UNCHANGED disk

(* The chain ends in `sudo poweroff`. *)
PowersOff ==
  /\ vm.guest = "wiping"
  /\ VMGone
  /\ disk' = [disk EXCEPT ![vm.of].stage = "sealed"]
  /\ UNCHANGED <<pc, cmd, cancelled, pinned, art, loose>>

QemuExits ==
  /\ QemuMayExit /\ vm # NoVM
  /\ VMGone
  /\ UNCHANGED <<pc, cmd, cancelled, pinned, store, loose>>

Guest ==
  SshdUp \/ CloudInitFails \/ CloudInitEnds \/ ChainBreaks \/ PowersOff
    \/ QemuExits

-----------------------------------------------------------------------------
(* The steps a process takes by itself: every wait but the sysprep session *)
(* and run's has a deadline; the session ends with the chain or the        *)
(* context, run with qemu, and qemu is killed with the context.            *)
Prompt(b) ==
  \/ CloneOk(b) \/ CloneFailed(b) \/ StartVM(b) \/ StartFailed(b)
  \/ PinOk(b) \/ PinGaveUp(b) \/ CloudInitDone(b) \/ WaitFailed(b)
  \/ Sysprep(b) \/ SysprepUnsent(b)
  \/ RunEnds(b) \/ Exited(b) \/ ShutdownTimeout(b)
  \/ StatDisk(b) \/ ConvertOk(b) \/ ConvertFailed(b) \/ Remove(b)

Next ==
  \/ \E b \in Builds :
       \/ \E c \in Commands : Begin(b, c)
       \/ BeginBuild(b) \/ Prompt(b) \/ SessionEnds(b)
       \/ Cancel(b) \/ KillOnCancel(b) \/ Killed(b)
  \/ SysprepByHand \/ OrphanKilled \/ Clean \/ Guest

Fairness ==
  \A b \in Builds :
    /\ WF_vars(Prompt(b))
    /\ WF_vars(KillOnCancel(b))
    /\ WF_vars((vm.guest # "wiping" \/ cancelled[b]) /\ SessionEnds(b))

Spec == Init /\ [][Next]_vars /\ Fairness

-----------------------------------------------------------------------------
(* What every step keeps; SealPipeline_proofs shows that it is inductive.  *)

(* Where a process is, where the VM is and which files exist agree.        *)
FilesFit ==
  \A b \in Builds :
    /\ pc[b] = "clone" => disk[b] = Absent
    /\ pc[b] \in {"start", "pin", "running", "wait", "sysprep", "session",
                 "shutdown", "convert", "remove"} => disk[b] # Absent
    /\ vm.of = b => disk[b] # Absent /\ disk[b].stage # "sealed"
    /\ pc[b] \in {"convert", "remove"} => vm.of # b
    /\ pc[b] = "remove" => art[b] = disk[b]

(* Unless an unsealed disk was taken for a sealed one, the disk on its way *)
(* into an artifact is sealed, and stays so.                               *)
SealKept ==
  \A b \in Builds :
    ~loose[b] =>
      /\ pc[b] \in {"stat", "convert", "remove"} /\ disk[b] # Absent
           => disk[b].stage = "sealed"
      /\ art[b] # Absent => art[b].stage = "sealed"

IInv == TypeOK /\ FilesFit /\ SealKept

(* How far the guest that runs has brought its disk, and what convert has  *)
(* begun: what the steps of GoldenImage find.                              *)
GuestFits ==
  /\ vm.guest \in {"boot", "up", "failed"} => disk[vm.of].stage = "booted"
  /\ vm.guest = "done" => disk[vm.of].stage = "provisioned"
  /\ vm.guest \in {"wiping", "wedged"} => disk[vm.of].stage = "wiping"
  /\ \A b \in Builds :
       pc[b] = "convert" => art[b] = [stage |-> disk[b].stage, whole |-> FALSE]

(* One build at a time, a qemu that ends only with its guest or its command, *)
(* and nobody who runs `build` by hand: the pipeline as it is meant to be.  *)
Lone ==
  /\ \A b, c \in Builds : b = c
  /\ ~QemuMayExit
  /\ "build" \notin Commands

(* Then the guest a command deals with is the one that runs on its disk,   *)
(* and it goes off sealed, or with a command that will pack nothing.       *)
LoneFits ==
  \A b \in Builds :
    /\ pc[b] \in {"pin", "running", "wait", "sysprep", "session", "shutdown", "stat"}
         => cancelled[b] \/ vm.of = b \/ disk[b].stage = "sealed"
    /\ pc[b] = "sysprep" => vm.guest \in {"off", "done", "wiping", "wedged"}
    /\ pc[b] \in {"convert", "remove"} => disk[b].stage = "sealed"
    /\ art[b] # Absent => art[b].stage = "sealed"

-----------------------------------------------------------------------------
(* There are two ways to an unsealed artifact: waitForShutdown takes another *)
(* end of qemu for the guest's power-off, or a user runs `build` on a disk  *)
(* that is not sealed.  No other order of commands, guests, signals and     *)
(* failures lets a disk be packed that is not sealed, or no longer is.      *)
SealedUnlessLoose ==
  \A b \in Builds :
    art[b] # Absent /\ ~loose[b] => art[b].stage = "sealed"

(* "Compress the sysprepped instance disk into the release-named artifact" *)
(* (build.go:17): every artifact was compressed from a sealed disk.        *)
SealedArtifact ==
  \A b \in Builds : art[b] # Absent => art[b].stage = "sealed"

(* A command that waited for cloud-init starts sysprep only in a guest that *)
(* is provisioned, or that a user is wiping by hand.                       *)
WipeAfterProvisioned ==
  [][\A b \in Builds :
       pc[b] = "sysprep" /\ pc'[b] = "session"
         => disk[vm.of].stage \in {"provisioned", "wiping"}]_vars

(* The instance disk, hours of provisioning, goes only when the artifact   *)
(* holds all of it -- or when the user runs clean.                         *)
NothingLost ==
  [][\A b \in Builds :
       pc[b] # "idle" /\ disk[b] # Absent /\ disk'[b] = Absent
         => art[b] = disk[b]]_vars

(* A command ends, or is held by a sysprep chain that does not end, or is  *)
(* a `run` whose VM is up.                                                 *)
CommandsEnd ==
  \A b \in Builds :
    pc[b] # "idle" ~>
      \/ pc[b] = "idle"
      \/ pc[b] = "session" /\ vm.guest = "wiping"
      \/ pc[b] = "running" /\ vm # NoVM

(* The files go through the life of a golden image, however commands and   *)
(* guests interleave: nothing is packed unsealed but by mistake or by hand, *)
(* a disk is not changed while it is packed, and is given up only for its  *)
(* artifact.                                                               *)
Golden == INSTANCE GoldenImage
            WITH Builds <- Builds, Absent <- Absent,
                 disk <- disk, art <- art, loose <- loose
Implements == Golden!Spec

(* Ctrl-C ends the command, whatever the guest does. *)
CancelEnds == \A b \in Builds : cancelled[b] ~> pc[b] = "idle"
=============================================================================

------------------------------ MODULE TestFork ------------------------------
(***************************************************************************)
(* `astroimg test-boot` and `test-oci`: fork an artifact into a throwaway  *)
(* overlay, boot the fork, log in (test-oci), kill the VM and remove what  *)
(* was made (cmd/astroimg/testboot.go, testoci.go).                        *)
(*                                                                         *)
(* Everything a fork is reached through is shared with every other command *)
(* on the machine: the forwarded port, known_hosts, the SSH key.  A qemu   *)
(* that finds the port taken exits at once, and nothing looks.  The files  *)
(* carry the artifact's file name and the time in seconds.  A pipeline on  *)
(* the same port is to a test what another test is.                        *)
(***************************************************************************)
EXTENDS Naturals

CONSTANTS Tests,      \* invocations of test-boot and test-oci
          Artifacts,  \* the images there are to test
          Broken,     \* those whose guest never gets to its sshd
          Seconds,    \* the seconds invocations may start in
          Nobody,     \* no test
          Outsider,   \* a qemu that some killed invocation left behind
          Absent,     \* no such file
          Overlap     \* whether two tests may run at the same time

ASSUME BrokenAssumption == Broken \subseteq Artifacts
ASSUME NamesAssumption ==
  Nobody \notin Tests /\ Outsider \notin Tests /\ Nobody # Outsider
ASSUME AbsentAssumption == Absent \notin Artifacts \cup Seconds
ASSUME OverlapAssumption == Overlap \in BOOLEAN

VARIABLES
  pc,         \* where each invocation is
  kind,       \* "boot" or "oci"
  cancelled,  \* its context is cancelled
  got,        \* the artifact it is to test
  at,         \* the second its fork is named after
  mine,       \* its qemuCmd is the live qemu
  vm,         \* the qemu that holds the port
  pinned,     \* whose host key known_hosts holds for the port
  extract,    \* TestExtractDir/image.qcow2
  left,       \* fork files some invocation has yet to remove
  verdict,    \* what the last test-oci called verified, and what it pulled
  contested   \* history: others touched the port or TestExtractDir meanwhile

cli == <<pc, kind, cancelled, got, at, mine>>
host == <<vm, pinned>>
vars == <<cli, host, extract, left, verdict, contested>>

Labels == {"idle", "pull", "fork", "key", "iso", "vars", "start", "pin",
           "verify", "run", "reap", "unlink"}
Parts == {"fork", "iso", "vars", "log"}
Names == {"image"} \X Seconds \cup Artifacts \X Seconds
Guests == [of : Tests \cup {Outsider}, image : Artifacts,
           state : {"boot", "sshd", "ready"}]
NoVM == [of |-> Nobody, image |-> Absent, state |-> "off"]
Unsaid == [of |-> Nobody, image |-> Absent, pulled |-> Absent,
           contested |-> FALSE]
Verified == [of : Tests \cup {Outsider, Nobody}, image : Artifacts \cup {Absent},
             pulled : Artifacts, contested : BOOLEAN]

TypeOK ==
  /\ pc \in [Tests -> Labels]
  /\ kind \in [Tests -> {"boot", "oci"}]
  /\ cancelled \in [Tests -> BOOLEAN]
  /\ got \in [Tests -> Artifacts \cup {Absent}]
  /\ at \in [Tests -> Seconds \cup {Absent}]
  /\ mine \in [Tests -> BOOLEAN]
  /\ vm \in Guests \cup {NoVM}
  /\ pinned \in Tests \cup {Outsider, Nobody}
  /\ extract \in Artifacts \cup {Absent}
  /\ left \subseteq Names \X Parts
  /\ verdict \in [Tests -> Verified \cup {Unsaid}]
  /\ contested \in [Tests -> BOOLEAN]
  /\ \A p \in Tests : mine[p] <=> vm.of = p

Init ==
  /\ pc = [p \in Tests |-> "idle"] /\ kind = [p \in Tests |-> "boot"]
  /\ cancelled = [p \in Tests |-> FALSE] /\ got = [p \in Tests |-> Absent]
  /\ at = [p \in Tests |-> Absent] /\ mine = [p \in Tests |-> FALSE]
  /\ vm = NoVM /\ pinned = Nobody /\ extract = Absent /\ left = {}
  /\ verdict = [p \in Tests |-> Unsaid]
  /\ contested = [p \in Tests |-> FALSE]

-----------------------------------------------------------------------------
(* The fork's files are named after the artifact's file, image.qcow2 for   *)
(* every pulled one.                                                       *)
Name(p) == <<IF kind[p] = "oci" THEN "image" ELSE got[p], at[p]>>
FilesOf(n) == {n} \X Parts
Made(p, part) == left \cup {<<Name(p), part>>}

(* The overlay's backing file, opened by name.                             *)
Backing(p) == IF kind[p] = "oci" THEN extract ELSE got[p]

Listening == vm.state \in {"sshd", "ready"}
CanLogIn == vm.state = "ready" /\ pinned = vm.of

Active(p) == pc[p] # "idle"

Go(p, from, to) ==
  /\ pc[p] = from
  /\ pc' = [pc EXCEPT ![p] = to]
  /\ UNCHANGED <<kind, cancelled, got, at>>

Idle(p) ==
  /\ pc' = [pc EXCEPT ![p] = "idle"] /\ kind' = [kind EXCEPT ![p] = "boot"]
  /\ cancelled' = [cancelled EXCEPT ![p] = FALSE]
  /\ got' = [got EXCEPT ![p] = Absent] /\ at' = [at EXCEPT ![p] = Absent]

(* What p does, every other running test is exposed to; and p leaves.      *)
Disturbs(p) ==
  contested' = [q \in Tests |-> contested[q] \/ (q # p /\ Active(q))]

Forgets(p) == contested' = [contested EXCEPT ![p] = FALSE]

Dies == vm' = NoVM /\ mine' = [p \in Tests |-> FALSE]

-----------------------------------------------------------------------------
(* test-boot finds the artifact and names the fork after this second.      *)
BeginBoot(p) ==
  /\ ~Active(p) /\ (Overlap \/ \A q \in Tests : ~Active(q))
  /\ pc' = [pc EXCEPT ![p] = "fork"] /\ kind' = [kind EXCEPT ![p] = "boot"]
  /\ \E a \in Artifacts : got' = [got EXCEPT ![p] = a]
  /\ \E s \in Seconds : at' = [at EXCEPT ![p] = s]
  /\ verdict' = [verdict EXCEPT ![p] = Unsaid]
  /\ contested' = [contested EXCEPT ![p] = vm # NoVM]
  /\ UNCHANGED <<cancelled, mine, host, extract, left>>

(* test-oci clears TestExtractDir, whoever is using it. *)
BeginOCI(p) ==
  /\ ~Active(p) /\ (Overlap \/ \A q \in Tests : ~Active(q))
  /\ pc' = [pc EXCEPT ![p] = "pull"] /\ kind' = [kind EXCEPT ![p] = "oci"]
  /\ extract' = Absent
  /\ verdict' = [verdict EXCEPT ![p] = Unsaid]
  /\ contested' = [q \in Tests |-> IF q = p THEN vm # NoVM
                                   ELSE contested[q] \/ Active(q)]
  /\ UNCHANGED <<cancelled, got, at, mine, host, left>>

PullOk(p) ==
  /\ pc[p] = "pull" /\ ~cancelled[p]
  /\ pc' = [pc EXCEPT ![p] = "fork"]
  /\ \E a \in Artifacts : extract' = a /\ got' = [got EXCEPT ![p] = a]
  /\ \E s \in Seconds : at' = [at EXCEPT ![p] = s]
  /\ Disturbs(p)
  /\ UNCHANGED <<kind, cancelled, mine, host, left, verdict>>

(* oras pull or qemu-img info fails, before there is a fork.               *)
PullFailed(p) ==
  /\ pc[p] = "pull"
  /\ Idle(p) /\ Forgets(p)
  /\ UNCHANGED <<mine, host, extract, left, verdict>>

-----------------------------------------------------------------------------
(* newTestFork: overlay, key, ISO, firmware variables.  A step that fails  *)
(* may have made its file; from here on every error goes through cleanup.  *)
CreateOverlay(p) ==
  /\ Go(p, "fork", "key")
  /\ Backing(p) # Absent /\ ~cancelled[p]
  /\ \A q \in Tests : mine[q] => q = p \/ Name(q) # Name(p)
  /\ left' = Made(p, "fork")
  /\ UNCHANGED <<mine, host, extract, verdict, contested>>

KeyReady(p) ==
  /\ Go(p, "key", "iso")
  /\ UNCHANGED <<mine, host, extract, left, verdict, contested>>

WriteISO(p) ==
  /\ Go(p, "iso", "vars")
  /\ left' = Made(p, "iso")
  /\ UNCHANGED <<mine, host, extract, verdict, contested>>

CopyVars(p) ==
  /\ Go(p, "vars", "start")
  /\ left' = Made(p, "vars")
  /\ UNCHANGED <<mine, host, extract, verdict, contested>>

(* Mutant of MakeFailed: an early return without cleanup.                  *)
MakeFailedNoCleanup(p) ==
  /\ pc[p] \in {"fork", "key", "iso", "vars"}
  /\ Idle(p) /\ Forgets(p)
  /\ left' \in {left, IF pc[p] = "key" THEN left ELSE Made(p, pc[p])}
  /\ UNCHANGED <<mine, host, extract, verdict>>

MakeFailed(p) ==
  /\ \E from \in {"fork", "key", "iso", "vars"} :
       /\ Go(p, from, "unlink")
       /\ left' \in {left, IF from = "key" THEN left ELSE Made(p, from)}
  /\ UNCHANGED <<mine, host, extract, verdict, contested>>

(* The port's old host key goes; qemu opens the fork and, by name, what it *)
(* is backed by.  Without the port or a backing file it exits at once.     *)
StartVM(p) ==
  /\ Go(p, "start", "pin")
  /\ ~cancelled[p]
  /\ pinned' = Nobody
  /\ \/ /\ vm = NoVM /\ Backing(p) # Absent
        /\ vm' = [of |-> p, image |-> Backing(p), state |-> "boot"]
        /\ mine' = [mine EXCEPT ![p] = TRUE]
        /\ left' = Made(p, "log")
     \/ /\ vm # NoVM \/ Backing(p) = Absent
        /\ left' \in {left, Made(p, "log")}
        /\ UNCHANGED <<vm, mine>>
  /\ Disturbs(p)
  /\ UNCHANGED <<extract, verdict>>

StartFailed(p) ==
  /\ Go(p, "start", "unlink")
  /\ pinned' = IF cancelled[p] THEN pinned ELSE Nobody
  /\ Disturbs(p)
  /\ UNCHANGED <<mine, vm, extract, left, verdict>>

(* The first key the port answers with.                                    *)
PinOk(p) ==
  /\ Go(p, "pin", IF kind[p] = "oci" THEN "verify" ELSE "run")
  /\ Listening /\ ~cancelled[p]
  /\ pinned' = vm.of
  /\ UNCHANGED <<mine, vm, extract, left, verdict, contested>>

(* Ten minutes without one, or cancelled: the fork never came up.          *)
PinGaveUp(p) ==
  /\ Go(p, "pin", "reap")
  /\ UNCHANGED <<mine, host, extract, left, verdict, contested>>

-----------------------------------------------------------------------------
SaysVerified(p) ==
  verdict' = [verdict EXCEPT
                ![p] = [of |-> vm.of, image |-> vm.image, pulled |-> got[p],
                        contested |-> contested[p]]]

(* verifySSH: one login, into whatever guest the port belongs to.          *)
LoginOk(p) ==
  /\ Go(p, "verify", "reap")
  /\ CanLogIn /\ ~cancelled[p]
  /\ SaysVerified(p)
  /\ UNCHANGED <<mine, host, extract, left, contested>>

(* Mutant of LoginFailed: the error is only printed.                       *)
LoginErrorIgnored(p) ==
  /\ Go(p, "verify", "reap")
  /\ SaysVerified(p)
  /\ UNCHANGED <<mine, host, extract, left, contested>>

(* There is no guest, it does not take the login, or it fails as any       *)
(* command over a network may.                                             *)
LoginFailed(p) ==
  /\ Go(p, "verify", "reap")
  /\ UNCHANGED <<mine, host, extract, left, verdict, contested>>

(* test-boot: qemu's window is closed, or the context is cancelled.        *)
Stopped(p) ==
  /\ Go(p, "run", "reap")
  /\ ~mine[p]
  /\ UNCHANGED <<mine, host, extract, left, verdict, contested>>

(* Mutants of Reap: whoever has the port is killed; qemu is killed but not *)
(* waited for; it is not killed.                                           *)
ReapThePort(p) ==
  /\ Go(p, "reap", "unlink")
  /\ Dies
  /\ UNCHANGED <<pinned, extract, left, verdict, contested>>

KillWithoutWait(p) ==
  /\ Go(p, "reap", "unlink")
  /\ vm' = IF mine[p] THEN NoVM ELSE vm
  /\ UNCHANGED <<mine, pinned, extract, left, verdict, contested>>

RemoveOnly(p) ==
  /\ Go(p, "reap", "unlink")
  /\ UNCHANGED <<mine, host, extract, left, verdict, contested>>

(* cleanup: kill qemu and wait for it, remove the fork's four files.       *)
Reap(p) ==
  /\ Go(p, "reap", "unlink")
  /\ IF mine[p] THEN Dies ELSE UNCHANGED <<vm, mine>>
  /\ UNCHANGED <<pinned, extract, left, verdict, contested>>

Unlink(p) ==
  /\ pc[p] = "unlink"
  /\ Idle(p) /\ Forgets(p)
  /\ left' = left \ FilesOf(Name(p))
  /\ UNCHANGED <<mine, host, extract, verdict>>

-----------------------------------------------------------------------------
Cancel(p) ==
  /\ Active(p) /\ ~cancelled[p]
  /\ cancelled' = [cancelled EXCEPT ![p] = TRUE]
  /\ UNCHANGED <<pc, kind, got, at, mine, host, extract, left, verdict, contested>>

(* exec.CommandContext kills qemu once the context is cancelled.           *)
KillOnCancel(p) ==
  /\ cancelled[p] /\ mine[p]
  /\ Dies
  /\ UNCHANGED <<pc, kind, cancelled, got, at, pinned, extract, left, verdict,
                 contested>>

(* kill -9: the files stay, nobody will remove them and nobody reads them; *)
(* the qemu is nobody's now.                                               *)
Killed(p) ==
  /\ Active(p)
  /\ Idle(p)
  /\ left' = left \ FilesOf(Name(p))
  /\ vm' = IF mine[p] THEN [vm EXCEPT !.of = Outsider] ELSE vm
  /\ pinned' = IF mine[p] /\ pinned = p THEN Outsider ELSE pinned
  /\ mine' = [mine EXCEPT ![p] = FALSE]
  /\ contested' = [q \in Tests |-> q # p /\ (contested[q] \/ Active(q))]
  /\ UNCHANGED <<extract, verdict>>

(* `astroimg clean`, with no qemu running.                                 *)
Clean ==
  /\ vm = NoVM /\ \A p \in Tests : ~Active(p)
  /\ left' = {} /\ extract' = Absent /\ pinned' = Nobody
  /\ UNCHANGED <<cli, vm, verdict, contested>>

-----------------------------------------------------------------------------
(* The guest that holds the port.  Its sshd answers before cloud-init has  *)
(* put the key in place (qemurun.go:316-318).                              *)
GuestUp ==
  /\ vm # NoVM /\ vm.image \notin Broken
  /\ \/ vm.state = "boot" /\ vm' = [vm EXCEPT !.state = "sshd"]
     \/ vm.state = "sshd" /\ vm' = [vm EXCEPT !.state = "ready"]
  /\ UNCHANGED <<cli, pinned, extract, left, verdict, contested>>

GuestEnds ==
  /\ vm # NoVM
  /\ Dies
  /\ UNCHANGED <<pc, kind, cancelled, got, at, pinned, extract, left, verdict,
                 contested>>

Next ==
  \/ \E p \in Tests :
       \/ BeginBoot(p) \/ BeginOCI(p) \/ PullOk(p) \/ PullFailed(p)
       \/ CreateOverlay(p) \/ KeyReady(p) \/ WriteISO(p) \/ CopyVars(p)
       \/ MakeFailed(p) \/ StartVM(p) \/ StartFailed(p)
       \/ PinOk(p) \/ PinGaveUp(p) \/ LoginOk(p) \/ LoginFailed(p)
       \/ Stopped(p) \/ Reap(p) \/ Unlink(p)
       \/ Cancel(p) \/ KillOnCancel(p) \/ Killed(p)
  \/ Clean \/ GuestUp \/ GuestEnds

Spec == Init /\ [][Next]_vars

-----------------------------------------------------------------------------
(* "cleanup() always removes every file it created" (testboot.go:74): a    *)
(* fork's file belongs to a test that is still running.                    *)
NothingLeftBehind ==
  \A f \in left : \E p \in Tests : Active(p) /\ Name(p) = f[1]

(* No test leaves its VM on the port, on any path, unless it was killed.   *)
NoVMLeftBehind ==
  \A p \in Tests : vm.of = p => pc[p] \in {"pin", "verify", "run", "reap"}

(* test-oci says "verified" of the guest it booted from the image it       *)
(* pulled -- unless something else used the port or TestExtractDir         *)
(* meanwhile.                                                              *)
VerifiedUnlessContested ==
  \A p \in Tests :
    verdict[p] # Unsaid /\ ~verdict[p].contested =>
      verdict[p].of = p /\ verdict[p].image = verdict[p].pulled

(* The tests that share the port and the runtime directory keep to their   *)
(* part of both, on every path: none takes a port that is held or ends     *)
(* another's guest, and each one is rid of its own before it ends.         *)
Phase ==
  [idle |-> "none", pull |-> "none",
   fork |-> "making", key |-> "making", iso |-> "making", vars |-> "making",
   start |-> "making", pin |-> "using", verify |-> "using", run |-> "using",
   reap |-> "ending", unlink |-> "clearing"]

PhaseOf == [p \in Tests |-> Phase[pc[p]]]
NameOf == [p \in Tests |-> IF at[p] = Absent THEN Absent ELSE Name(p)]
Litter == {f[1] : f \in left}
Said == [p \in Tests |-> verdict[p].of]

Leased == INSTANCE Lease
            WITH NoName <- Absent, phase <- PhaseOf, name <- NameOf,
                 holder <- vm.of, litter <- Litter, said <- Said
Implements == Leased!Spec
=============================================================================

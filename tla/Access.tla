------------------------------- MODULE Access -------------------------------
(***************************************************************************)
(* How astroimg gets into a guest: pin its host key, log in, poll          *)
(* cloud-init (WaitAndPinHostKey, WaitForCloudInit and SSHArgs in          *)
(* internal/qemurun/qemurun.go, as startVM and sealVM of run.go and        *)
(* verifySSH of testboot.go use them), and the pin-hostkey command.        *)
(*                                                                         *)
(* SealPipeline takes each of these waits as one step that may end well or *)
(* not; here are the attempts, the pauses, the deadlines and the guest     *)
(* that restarts its sshd under them.  One VM is on the port at a time.    *)
(***************************************************************************)
EXTENDS Naturals

CONSTANTS Keys,         \* host keys a guest may have
          NoKey,        \* none
          Commands,     \* "seal" (run --seal, pipeline), "verify" (test-oci)
          MaxRestarts   \* bound: restarts of a guest's sshd in one boot

ASSUME KeysAssumption == NoKey \notin Keys
ASSUME CommandsAssumption == Commands \subseteq {"seal", "verify"}
ASSUME RestartsAssumption == MaxRestarts \in Nat

Files == {"runtime", "build"}   \* the two known_hosts

VARIABLES
  pc,         \* where the command is
  cmd,        \* which command it is
  ssh,        \* its attempt: none, or the state of the ssh client
  seen,       \* the status of the last poll that had an answer
  late,       \* the deadline of the wait it is in has passed
  cancelled,  \* its context is cancelled
  result,     \* how the last command's wait ended
  pinner,     \* whether pin-hostkey runs
  said,       \* the key pin-hostkey said it pinned
  known,      \* the keys in the port's entries of each known_hosts
  guest       \* the VM on the port

proc == <<pc, cmd, ssh, seen, late, cancelled, result>>
user == <<pinner, said>>
vars == <<proc, user, known, guest>>

Attempts == {"login", "poll", "details"}
Pauses == {"scanrest", "loginrest", "pollrest"}
Labels == {"idle", "scan"} \cup Attempts \cup Pauses
Clients == {"none", "open", "dead", "mute"}
Verdicts == {"done", "degraded", "error"}
Guest == [key : Keys \cup {NoKey}, sshd : {"gone", "off", "up", "down"},
          authorized : BOOLEAN, ci : Verdicts \cup {"running"},
          restarts : 0..MaxRestarts]
NoVM == [key |-> NoKey, sshd |-> "gone", authorized |-> FALSE,
         ci |-> "running", restarts |-> 0]

TypeOK ==
  /\ pc \in Labels
  /\ cmd \in Commands \cup {"none"}
  /\ ssh \in Clients
  /\ ssh # "none" => pc \in Attempts
  /\ seen \in Verdicts \cup {"running"}
  /\ late \in BOOLEAN /\ cancelled \in BOOLEAN
  /\ result \in {"none", "ok", "failed"}
  /\ pinner \in BOOLEAN
  /\ said \in Keys \cup {NoKey}
  /\ known \in [Files -> SUBSET Keys]
  /\ guest \in Guest

Init ==
  /\ pc = "idle" /\ cmd = "none" /\ ssh = "none" /\ seen = "running"
  /\ late = FALSE /\ cancelled = FALSE /\ result = "none"
  /\ pinner = FALSE /\ said = NoKey
  /\ known = [f \in Files |-> {}]
  /\ guest = NoVM

-----------------------------------------------------------------------------
Over == late \/ cancelled

Up == guest.sshd = "up"

(* Mutant of CanLogIn: StrictHostKeyChecking=no.                           *)
LoginUnchecked == Up /\ guest.authorized

(* Strict checking finds the guest's key in the file the command reads     *)
(* (one matching line is enough), and the guest has the user's key.        *)
CanLogIn == Up /\ guest.key \in known["runtime"] /\ guest.authorized

Go(from, to) ==
  /\ pc = from /\ pc' = to
  /\ UNCHANGED <<cmd, seen, result, cancelled>>

Return(r) ==
  /\ pc' = "idle" /\ cmd' = "none" /\ result' = r
  /\ seen' = "running" /\ late' = FALSE /\ cancelled' = FALSE

Rest == [login |-> "loginrest", poll |-> "pollrest"]

-----------------------------------------------------------------------------
(* startVM, newTestFork: drop the port's entries, start qemu, wait for a   *)
(* host key.  A fresh disk makes a key of its own, an old one has its key. *)
StartVM(c) ==
  /\ pc = "idle" /\ guest.sshd = "gone"
  /\ pc' = "scan" /\ cmd' = c /\ result' = "none"
  /\ known' = [known EXCEPT !["runtime"] = {}]
  /\ \E k \in Keys : guest' = [NoVM EXCEPT !.key = k, !.sshd = "off"]
  /\ said' = NoKey
  /\ UNCHANGED <<ssh, seen, late, cancelled, pinner>>

(* One ssh-keyscan, cut off after two seconds. *)
ScanOk ==
  /\ Go("scan", "login") /\ Up /\ ~Over
  /\ known' = [known EXCEPT !["runtime"] = @ \cup {guest.key}]
  /\ late' = FALSE
  /\ UNCHANGED <<ssh, user, guest>>

ScanFailed ==
  /\ Go("scan", "scanrest")
  /\ UNCHANGED <<ssh, late, user, known, guest>>

(* Without a key run goes on with a warning, a test gives up. *)
PinGaveUp ==
  /\ pc = "scanrest" /\ Over
  /\ \/ cmd = "seal" /\ Go("scanrest", "login") /\ late' = FALSE
     \/ cmd = "verify" /\ Return("failed")
  /\ UNCHANGED <<ssh, user, known, guest>>

-----------------------------------------------------------------------------
(* One attempt: RunSSH with `true`, `cloud-init status` or `... --long`.   *)

(* Mutant of Miss: the first attempt that fails ends the wait. *)
MissIsFinal ==
  /\ ssh' = "none"
  /\ pc \in Attempts
  /\ Return("failed")
  /\ UNCHANGED <<user, known, guest>>

(* The attempt comes to nothing.  The loops pause and try again; --long's  *)
(* output is for the user only; verifySSH has one attempt.                 *)
Miss ==
  /\ ssh' = "none"
  /\ \/ /\ cmd = "seal" /\ pc \in DOMAIN Rest
        /\ pc' = Rest[pc]
        /\ UNCHANGED <<cmd, seen, late, cancelled, result>>
     \/ /\ pc = "details"
        /\ Return(IF seen = "error" THEN "failed" ELSE "ok")
     \/ /\ cmd = "verify" /\ pc = "login"
        /\ Return("failed")
  /\ UNCHANGED <<user, known, guest>>

(* ssh connects.  qemu takes a connection to the forwarded port before the *)
(* guest has a network: the client then waits for a banner.                *)
Connect ==
  /\ pc \in Attempts /\ ssh = "none" /\ ~Over
  /\ \/ CanLogIn /\ ssh' = "open"
     \/ guest.sshd = "off" /\ ssh' = "mute"
  /\ UNCHANGED <<pc, cmd, seen, late, cancelled, result, user, known, guest>>

(* Refused, an unknown host key, no authorization -- or no time left. *)
Refused ==
  /\ pc \in Attempts /\ ssh = "none" /\ (~CanLogIn \/ Over)
  /\ Miss

(* Mutant of AttemptEnds: a session lasts until its command answers, as    *)
(* one long `cloud-init status --wait` did.                                *)
OneLongSession == ssh # "none" /\ Over /\ Miss

(* Mutant of AttemptEnds: the deadline's error returns past the client.    *)
ClientLeftBehind ==
  /\ ssh # "none" /\ Over
  /\ Return("failed")
  /\ UNCHANGED <<ssh, user, known, guest>>

(* What bounds an attempt that has no answer: fifteen seconds in the two   *)
(* loops, the keepalives when the connection is dead, and the deadline.    *)
AttemptEnds ==
  /\ ssh # "none"
  /\ (pc \in {"login", "poll"} /\ cmd = "seal") \/ ssh = "dead" \/ Over
  /\ Miss

-----------------------------------------------------------------------------
(* Answers. *)

LoggedIn ==
  /\ pc = "login" /\ ssh = "open"
  /\ ssh' = "none"
  /\ \/ cmd = "seal" /\ Go("login", "poll") /\ UNCHANGED late
     \/ cmd = "verify" /\ Return("ok")
  /\ UNCHANGED <<user, known, guest>>

(* Mutant of Polled: an exit that is not 0 is a failed attempt.            *)
PolledByExit ==
  /\ pc = "poll" /\ ssh = "open"
  /\ ssh' = "none"
  /\ \/ guest.ci # "done" /\ Go("poll", "pollrest") /\ UNCHANGED late
     \/ guest.ci = "done" /\ Return("ok")
  /\ UNCHANGED <<user, known, guest>>

(* "status: done" with exit 0 is the end of the wait; with an exit that is *)
(* not 0 (degraded), and on "status: error", --long is run for the user.   *)
Polled ==
  /\ pc = "poll" /\ ssh = "open"
  /\ ssh' = "none"
  /\ \/ /\ guest.ci = "running"
        /\ Go("poll", "pollrest") /\ UNCHANGED late
     \/ /\ guest.ci = "done"
        /\ Return("ok")
     \/ /\ guest.ci \in {"degraded", "error"}
        /\ pc' = "details" /\ seen' = guest.ci
        /\ UNCHANGED <<cmd, late, cancelled, result>>
  /\ UNCHANGED <<user, known, guest>>

Detailed == pc = "details" /\ ssh = "open" /\ Miss

Answered == LoggedIn \/ Polled \/ Detailed

-----------------------------------------------------------------------------
(* Pauses: the timer, or the deadline.  An attempt made past the deadline  *)
(* fails at once, so the timer is not ready when the deadline is.          *)
Again ==
  /\ ~Over
  /\ \/ Go("scanrest", "scan") \/ Go("loginrest", "login") \/ Go("pollrest", "poll")
  /\ UNCHANGED <<ssh, late, user, known, guest>>

(* Mutant of GaveUp: the pause is a sleep. *)
TriesForEver ==
  /\ Over
  /\ \/ Go("loginrest", "login") \/ Go("pollrest", "poll")
  /\ UNCHANGED <<ssh, late, user, known, guest>>

GaveUp ==
  /\ pc \in {"loginrest", "pollrest"} /\ Over
  /\ Return("failed")
  /\ UNCHANGED <<ssh, user, known, guest>>

-----------------------------------------------------------------------------
(* Time, signals, and `astroimg pin-hostkey` in another terminal. *)

Deadline ==
  /\ pc # "idle" /\ ~late
  /\ cmd = "seal" \/ pc \in {"scan", "scanrest"}    \* verifySSH has none
  /\ late' = TRUE
  /\ UNCHANGED <<pc, cmd, ssh, seen, cancelled, result, user, known, guest>>

Cancel ==
  /\ pc # "idle" /\ ~cancelled
  /\ cancelled' = TRUE
  /\ UNCHANGED <<pc, cmd, ssh, seen, late, result, user, known, guest>>

PinHostkey ==
  /\ ~pinner
  /\ pinner' = TRUE
  /\ known' = [known EXCEPT !["build"] = {}]
  /\ UNCHANGED <<proc, said, guest>>

PinHostkeyOk ==
  /\ pinner /\ Up
  /\ pinner' = FALSE
  /\ known' = [known EXCEPT !["build"] = @ \cup {guest.key}]
  /\ said' = guest.key
  /\ UNCHANGED <<proc, guest>>

PinHostkeyFailed ==
  /\ pinner
  /\ pinner' = FALSE
  /\ UNCHANGED <<proc, said, known, guest>>

-----------------------------------------------------------------------------
(* The guest. *)

GuestDoes(g) == guest' = g /\ UNCHANGED <<pc, cmd, seen, late, cancelled, result, user, known>>

SshdUp == guest.sshd = "off" /\ GuestDoes([guest EXCEPT !.sshd = "up"]) /\ UNCHANGED ssh

KeyInstalled ==
  /\ guest.sshd \in {"up", "down"} /\ ~guest.authorized
  /\ GuestDoes([guest EXCEPT !.authorized = TRUE]) /\ UNCHANGED ssh

(* package_upgrade restarts sshd: a session is kept, or dies silently. *)
SshdRestarts ==
  /\ Up /\ guest.ci = "running" /\ guest.restarts < MaxRestarts
  /\ GuestDoes([guest EXCEPT !.sshd = "down", !.restarts = @ + 1])
  /\ ssh' \in {ssh, IF ssh = "open" THEN "dead" ELSE ssh}

SshdBack == guest.sshd = "down" /\ GuestDoes([guest EXCEPT !.sshd = "up"]) /\ UNCHANGED ssh

CloudInitEnds ==
  /\ Up /\ guest.ci = "running" /\ guest.authorized
  /\ \E s \in Verdicts : GuestDoes([guest EXCEPT !.ci = s])
  /\ UNCHANGED ssh

(* Powered off, crashed, killed: nobody looks before waitForShutdown. *)
QemuExits ==
  /\ guest.sshd # "gone"
  /\ GuestDoes(NoVM)
  /\ ssh' = IF ssh = "none" THEN "none" ELSE "dead"

-----------------------------------------------------------------------------
(* The command's own steps; an answer is the guest's doing. *)
Prompt ==
  \/ ScanOk \/ ScanFailed \/ PinGaveUp
  \/ Connect \/ Refused \/ AttemptEnds \/ Again \/ GaveUp

Next ==
  \/ \E c \in Commands : StartVM(c)
  \/ Prompt \/ Answered
  \/ Deadline \/ Cancel
  \/ PinHostkey \/ PinHostkeyOk \/ PinHostkeyFailed
  \/ SshdUp \/ KeyInstalled \/ SshdRestarts \/ SshdBack \/ CloudInitEnds
  \/ QemuExits

(* A guest that can be logged in to does not let every attempt time out,   *)
(* and an sshd that restarts comes back.  Deadlines are not fair.          *)
Fairness == WF_vars(Prompt) /\ SF_vars(Answered) /\ WF_vars(SshdBack)

Spec == Init /\ [][Next]_vars /\ Fairness

-----------------------------------------------------------------------------
(* "Reconnecting fresh every poll means a mid-wait sshd restart costs one  *)
(* poll interval, not the whole timeout" (qemurun.go:330): once cloud-init *)
(* has finished, well or not, the wait of run --seal and pipeline ends     *)
(* without its deadline, whatever happened to earlier attempts.            *)
Waiting == pc # "idle" /\ cmd = "seal" /\ ~Over

FinishedIsNoticed ==
  (Waiting /\ CanLogIn /\ guest.ci # "running") ~> (~Waiting \/ ~CanLogIn)

(* "early auth failures are expected transient state" (qemurun.go:316): a  *)
(* sealing command fails only on "status: error", its deadline or a signal, *)
(* never on a refused, mute or dead attempt; it succeeds only on a guest    *)
(* that said done.  A test's one login has no second chance: it may fail,   *)
(* but never succeeds without a guest that takes the login.                 *)
VerdictHasCause ==
  [][/\ result' = "failed" /\ result # "failed" /\ cmd = "seal"
          => Over \/ seen = "error"
     /\ result' = "ok" /\ result # "ok" /\ cmd = "seal"
          => (ssh = "open" /\ guest.ci = "done") \/ seen = "degraded"
     /\ result' = "ok" /\ result # "ok" /\ cmd = "verify"
          => ssh = "open"]_vars

(* The deadline and Ctrl-C end a wait, whatever the attempt is doing.      *)
DeadlinesHold == (late ~> ~late) /\ (cancelled ~> pc = "idle")

(* "Manually pin the VM's SSH host key if 'astroimg run' gave up waiting"   *)
(* (pinhostkey.go:15, and the warning at run.go:215): once the command has *)
(* said so, a run that gave up finds the guest's key where it looks.       *)
PinnedIsReadable ==
  Up /\ said = guest.key /\ cmd = "seal" /\ pc \in {"login", "loginrest"}
    => guest.key \in known["runtime"]

(* Seen from the commands, the attempts and pauses are the one-step waits  *)
(* of Waits.  A verdict counts from the poll that brought it: --long's     *)
(* output is for the user.                                                 *)
InDetails == pc = "details"

Stage ==
  IF guest.sshd = "gone" THEN "off"
  ELSE IF guest.sshd = "off" THEN "boot"
  ELSE [running |-> "up", error |-> "failed", done |-> "done", degraded |-> "done"][guest.ci]

Contract ==
  INSTANCE Waits
  WITH at <- IF pc = "idle" \/ InDetails THEN "idle"
             ELSE IF pc \in {"scan", "scanrest"} THEN "pin" ELSE "wait",
       cmd <- IF InDetails THEN "none" ELSE cmd,
       result <- IF ~InDetails THEN result
                 ELSE IF seen = "error" THEN "failed" ELSE "ok",
       over <- ~InDetails /\ Over,
       pinned <- known["runtime"],
       vm <- [key |-> guest.key, stage |-> Stage, authorized |-> guest.authorized]

Implements == Contract!Spec
=============================================================================

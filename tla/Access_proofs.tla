---------------------------- MODULE Access_proofs ----------------------------
(***************************************************************************)
(* Access keeps its types, and a verdict on a guest has a cause, for every  *)
(* set of host keys and commands and any number of sshd restarts.          *)
(***************************************************************************)
EXTENDS Access, TLAPS

(* Only the sealing commands poll, and --long is run on a verdict. *)
InLoop ==
  /\ pc \in {"loginrest", "poll", "pollrest", "details"} => cmd = "seal"
  /\ pc = "details" => seen \in {"degraded", "error"}

(* A VM that runs has a host key. *)
HasKey == guest.sshd # "gone" => guest.key \in Keys

IInv == TypeOK /\ InLoop /\ HasKey

LEMMA GuestTypes ==
  /\ NoVM \in Guest
  /\ \A k \in Keys : [NoVM EXCEPT !.key = k, !.sshd = "off"] \in Guest
<1>1. 0 \in 0..MaxRestarts
  BY RestartsAssumption
<1>2. NoVM \in Guest
  BY <1>1 DEF NoVM, Guest
<1>3. ASSUME NEW k \in Keys
      PROVE  [NoVM EXCEPT !.key = k, !.sshd = "off"] \in Guest
  BY <1>1 DEF NoVM, Guest
<1> QED BY <1>2, <1>3

LEMMA InitInv == Init => IInv
<1> SUFFICES ASSUME Init PROVE IInv
  OBVIOUS
<1>1. TypeOK
  BY GuestTypes DEF Init, TypeOK, Labels, Clients
<1> QED BY <1>1 DEF Init, IInv, HasKey, InLoop, NoVM

(* What the attempts and loops share. *)
LEMMA MissInv == IInv /\ Miss => IInv'
<1> SUFFICES ASSUME IInv, Miss PROVE IInv'
  OBVIOUS
<1> USE DEF IInv, HasKey, TypeOK, InLoop, Labels, Attempts, Pauses, Clients, Verdicts, user
<1>1. CASE cmd = "seal" /\ pc \in DOMAIN Rest /\ pc' = Rest[pc]
           /\ UNCHANGED <<cmd, seen, late, cancelled, result>>
  BY <1>1 DEF Miss, Rest
<1>2. CASE Return("failed")
  BY <1>2 DEF Miss, Return
<1>3. CASE Return("ok")
  BY <1>3 DEF Miss, Return
<1> QED BY <1>1, <1>2, <1>3 DEF Miss

(* Each step keeps the invariant. *)
LEMMA StepInv == IInv /\ [Next]_vars => IInv'
<1> SUFFICES ASSUME IInv, [Next]_vars PROVE IInv'
  OBVIOUS
<1> USE DEF IInv, HasKey
<1>a. ASSUME NEW c \in Commands, StartVM(c) PROVE IInv'
  <2>1. PICK k \in Keys : guest' = [NoVM EXCEPT !.key = k, !.sshd = "off"]
    BY <1>a DEF StartVM
  <2>2. guest' \in Guest /\ guest'.key \in Keys
    BY <2>1, GuestTypes DEF NoVM
  <2>3. TypeOK'
    BY <1>a, <2>2 DEF StartVM, TypeOK, Labels, Attempts
  <2> QED BY <1>a, <2>2, <2>3 DEF StartVM, InLoop
<1>b. CASE ScanOk
  BY <1>b DEF ScanOk, Go, Up, TypeOK, InLoop, Labels, Attempts, user
<1>c. CASE ScanFailed
  BY <1>c DEF ScanFailed, Go, TypeOK, InLoop, Labels, Pauses, Attempts, user
<1>d. CASE PinGaveUp
  BY <1>d DEF PinGaveUp, Go, Return, TypeOK, InLoop, Labels, Attempts, Pauses, user
<1>e. CASE Connect
  BY <1>e DEF Connect, TypeOK, InLoop, Clients, user
<1>f. CASE Refused \/ AttemptEnds \/ Detailed
  BY <1>f, MissInv DEF Refused, AttemptEnds, Detailed
<1>g. CASE LoggedIn
  BY <1>g DEF LoggedIn, Go, Return, TypeOK, InLoop, Labels, Attempts, Clients, Verdicts, user
<1>h. CASE Polled
  BY <1>h DEF Polled, Go, Return, TypeOK, InLoop, Labels, Attempts, Pauses, Clients, Verdicts, user
<1>i. CASE Again
  BY <1>i DEF Again, Go, TypeOK, InLoop, Labels, Attempts, Pauses, user
<1>j. CASE GaveUp
  BY <1>j DEF GaveUp, Return, TypeOK, InLoop, Labels, Attempts, Pauses, Verdicts, user
<1>k. CASE Deadline \/ Cancel
  BY <1>k DEF Deadline, Cancel, TypeOK, InLoop, user
<1>l. CASE PinHostkey \/ PinHostkeyOk \/ PinHostkeyFailed
  BY <1>l DEF PinHostkey, PinHostkeyOk, PinHostkeyFailed, Up, TypeOK, InLoop, proc
<1>m. CASE SshdUp \/ KeyInstalled \/ SshdBack
  BY <1>m DEF SshdUp, KeyInstalled, SshdBack, GuestDoes, Guest, TypeOK, InLoop, user
<1>n. CASE SshdRestarts
  <2>1. guest.restarts + 1 \in 0..MaxRestarts
    BY <1>n, RestartsAssumption DEF SshdRestarts, Guest, TypeOK
  <2>2. guest' \in Guest /\ guest'.key = guest.key
    BY <1>n, <2>1 DEF SshdRestarts, GuestDoes, Guest, TypeOK
  <2> QED BY <1>n, <2>2 DEF SshdRestarts, GuestDoes, Up, TypeOK, InLoop, Clients, user
<1>o. CASE CloudInitEnds
  BY <1>o DEF CloudInitEnds, GuestDoes, Guest, Up, TypeOK, InLoop, Verdicts, user
<1>p. CASE QemuExits
  BY <1>p, GuestTypes DEF QemuExits, GuestDoes, NoVM, TypeOK, InLoop, Clients, Attempts, user
<1>q. CASE UNCHANGED vars
  BY <1>q DEF vars, proc, user, TypeOK, InLoop
<1> QED
  BY <1>a, <1>b, <1>c, <1>d, <1>e, <1>f, <1>g, <1>h, <1>i, <1>j, <1>k, <1>l,
     <1>m, <1>n, <1>o, <1>p, <1>q DEF Next, Prompt, Answered

LEMMA InvHolds == Spec => []IInv
<1>1. Init => IInv
  BY InitInv
<1>2. IInv /\ [Next]_vars => IInv'
  BY StepInv
<1> QED BY <1>1, <1>2, PTL DEF Spec

(* Every variable keeps its type, and an ssh client outlives no attempt of *)
(* RunSSH.                                                                 *)
THEOREM TypeCorrect == Spec => []TypeOK
<1>1. IInv => TypeOK
  BY DEF IInv
<1> QED BY <1>1, InvHolds, PTL

-----------------------------------------------------------------------------
(* The step form of VerdictHasCause. *)
Caused ==
  /\ result' = "failed" /\ result # "failed" /\ cmd = "seal"
       => Over \/ seen = "error"
  /\ result' = "ok" /\ result # "ok" /\ cmd = "seal"
       => (ssh = "open" /\ guest.ci = "done") \/ seen = "degraded"
  /\ result' = "ok" /\ result # "ok" /\ cmd = "verify"
       => ssh = "open"

(* WaitForCloudInit fails a sealing command for nothing but "status:       *)
(* error", its deadline or a signal, and succeeds on a finished guest      *)
(* only; verifySSH succeeds only on an answered login.                     *)
THEOREM VerdictHasCauseHolds == Spec => VerdictHasCause
<1>1. IInv /\ [Next]_vars => [Caused]_vars
  <2> SUFFICES ASSUME IInv, [Next]_vars, result' # result PROVE Caused
    BY DEF Caused
  <2> USE DEF IInv, InLoop, Caused
  <2>1. CASE Miss
    BY <2>1 DEF Miss, Return, Rest
  <2>2. CASE PinGaveUp \/ GaveUp
    BY <2>2 DEF PinGaveUp, GaveUp, Go, Return
  <2>3. CASE LoggedIn
    BY <2>3 DEF LoggedIn, Go, Return
  <2>4. CASE Polled
    BY <2>4 DEF Polled, Go, Return
  <2>5. ASSUME NEW c \in Commands, StartVM(c) PROVE Caused
    BY <2>5 DEF StartVM
  <2>6. ~(ScanOk \/ ScanFailed \/ Connect \/ Again \/ Deadline \/ Cancel)
    BY DEF ScanOk, ScanFailed, Connect, Again, Deadline, Cancel, Go
  <2>7. ~(PinHostkey \/ PinHostkeyOk \/ PinHostkeyFailed \/ UNCHANGED vars)
    BY DEF PinHostkey, PinHostkeyOk, PinHostkeyFailed, vars, proc
  <2>8. ~(SshdUp \/ KeyInstalled \/ SshdRestarts \/ SshdBack \/ CloudInitEnds \/ QemuExits)
    BY DEF SshdUp, KeyInstalled, SshdRestarts, SshdBack, CloudInitEnds, QemuExits, GuestDoes
  <2> QED
    BY <2>1, <2>2, <2>3, <2>4, <2>5, <2>6, <2>7, <2>8
    DEF Next, Prompt, Answered, Refused, AttemptEnds, Detailed
<1> QED BY <1>1, InvHolds, PTL DEF Spec, VerdictHasCause, Caused

-----------------------------------------------------------------------------
(* An open session is with a guest that could be logged in to, also after  *)
(* its sshd went down; nothing is pinned while pinning; no wait's end is    *)
(* left to the next command; a guest that has not booted has done nothing. *)
SessionFits ==
  /\ ssh = "open" => /\ guest.sshd \in {"up", "down"}
                     /\ guest.key \in known["runtime"] /\ guest.authorized
  /\ pc \in {"scan", "scanrest"} => known["runtime"] = {}
  /\ pc = "idle" => ~late /\ ~cancelled
  /\ guest.sshd = "gone" => guest = NoVM
  /\ guest.sshd = "off" => guest.ci = "running" /\ ~guest.authorized

LEMMA StepFits == IInv /\ SessionFits /\ [Next]_vars => SessionFits'
<1> SUFFICES ASSUME IInv, SessionFits, [Next]_vars PROVE SessionFits'
  OBVIOUS
<1> USE DEF SessionFits
<1>t. TypeOK /\ HasKey
  BY DEF IInv
<1>m. ASSUME Miss PROVE SessionFits'
  BY <1>m DEF Miss, Return, Rest, user
<1>1. ASSUME NEW c \in Commands, StartVM(c) PROVE SessionFits'
  <2>1. PICK k \in Keys : guest' = [NoVM EXCEPT !.key = k, !.sshd = "off"]
    BY <1>1 DEF StartVM
  <2>2. guest'.sshd = "off" /\ guest'.ci = "running" /\ ~guest'.authorized
    BY <2>1 DEF NoVM
  <2>3. ssh' # "open" /\ known'["runtime"] = {} /\ pc' = "scan"
    BY <1>1, <1>t DEF StartVM, TypeOK, Attempts, Files
  <2> QED BY <2>2, <2>3
<1>2. CASE ScanOk
  <2>1. known'["runtime"] = known["runtime"] \cup {guest.key} /\ pc' = "login"
    BY <1>2, <1>t DEF ScanOk, Go, TypeOK, Files
  <2> QED BY <1>2, <2>1 DEF ScanOk
<1>3. CASE ScanFailed \/ Again
  BY <1>3 DEF ScanFailed, Again, Go, user
<1>4. CASE PinGaveUp \/ GaveUp
  BY <1>4 DEF PinGaveUp, GaveUp, Go, Return, user
<1>5. CASE Connect
  BY <1>5 DEF Connect, CanLogIn, Up, Attempts
<1>6. CASE LoggedIn \/ Polled
  BY <1>6 DEF LoggedIn, Polled, Go, Return, user
<1>7. CASE Deadline \/ Cancel
  BY <1>7 DEF Deadline, Cancel
<1>8. CASE PinHostkey \/ PinHostkeyOk \/ PinHostkeyFailed
  <2>1. known'["runtime"] = known["runtime"] /\ UNCHANGED <<pc, ssh, late, cancelled, guest>>
    BY <1>8, <1>t DEF PinHostkey, PinHostkeyOk, PinHostkeyFailed, proc, TypeOK, Files
  <2> QED BY <2>1
<1>9. CASE SshdUp \/ KeyInstalled \/ SshdBack \/ SshdRestarts \/ CloudInitEnds
  <2>1. UNCHANGED <<pc, late, cancelled, known>> /\ guest'.sshd \in {"up", "down"} /\ guest'.key = guest.key
    BY <1>9, <1>t DEF SshdUp, KeyInstalled, SshdBack, SshdRestarts, CloudInitEnds,
       GuestDoes, Up, TypeOK, Guest
  <2>2. ssh' = "open" => ssh = "open"
    BY <1>9 DEF SshdUp, KeyInstalled, SshdBack, SshdRestarts, CloudInitEnds
  <2>3. guest.authorized => guest'.authorized
    BY <1>9, <1>t DEF SshdUp, KeyInstalled, SshdBack, SshdRestarts, CloudInitEnds,
       GuestDoes, TypeOK, Guest
  <2> QED BY <2>1, <2>2, <2>3
<1>10. CASE QemuExits
  BY <1>10 DEF QemuExits, GuestDoes, NoVM
<1>11. CASE UNCHANGED vars
  BY <1>11 DEF vars, proc
<1> QED
  BY <1>m, <1>1, <1>2, <1>3, <1>4, <1>5, <1>6, <1>7, <1>8, <1>9, <1>10, <1>11
  DEF Next, Prompt, Answered, Refused, AttemptEnds, Detailed

Fits == IInv /\ SessionFits

LEMMA FitsHolds == Spec => []Fits
<1>1. Init => Fits
  BY InitInv DEF Init, Fits, SessionFits, NoVM, Files
<1>2. Fits /\ [Next]_vars => Fits'
  BY StepInv, StepFits DEF Fits
<1> QED BY <1>1, <1>2, PTL DEF Spec

(* Stage reads as the guest's sshd and status say.                         *)
LEMMA StageFacts ==
  ASSUME TypeOK
  PROVE  /\ Stage \in {"off", "boot", "up", "failed", "done"}
         /\ Stage = "off" <=> guest.sshd = "gone"
         /\ Stage = "boot" <=> guest.sshd = "off"
         /\ guest.sshd \in {"up", "down"} =>
              /\ Stage = "up" <=> guest.ci = "running"
              /\ Stage = "failed" <=> guest.ci = "error"
              /\ Stage = "done" <=> guest.ci \in {"done", "degraded"}
<1>1. guest.sshd \in {"gone", "off", "up", "down"} /\ guest.ci \in Verdicts \cup {"running"}
  BY DEF TypeOK, Guest
<1> QED BY <1>1 DEF Stage, Verdicts

(* An open session of the model is a guest that takes the login.           *)
LEMMA OpenCanLogIn == Fits /\ ssh = "open" => Contract!CanLogIn
<1> SUFFICES ASSUME Fits, ssh = "open" PROVE Contract!CanLogIn
  OBVIOUS
<1>1. guest.sshd \in {"up", "down"} /\ guest.key \in known["runtime"] /\ guest.authorized
  BY DEF Fits, SessionFits
<1>2. Stage \in {"up", "failed", "done"}
  BY <1>1, StageFacts DEF Fits, IInv
<1> QED BY <1>1, <1>2 DEF Contract!CanLogIn, Contract!Listens

(* Each step of Access is one of Waits, or none.                           *)
LEMMA StepIsContract == Fits /\ [Next]_vars => [Contract!Next]_(Contract!vars)
<1> SUFFICES ASSUME Fits, [Next]_vars PROVE Contract!Next \/ UNCHANGED Contract!vars
  OBVIOUS
<1>t. TypeOK /\ InLoop /\ HasKey /\ SessionFits
  BY DEF Fits, IInv
<1> USE DEF InDetails
<1>1. ASSUME NEW c \in Commands, StartVM(c) PROVE Contract!Start(c)
  <2>1. PICK k \in Keys : guest' = [NoVM EXCEPT !.key = k, !.sshd = "off"]
    BY <1>1 DEF StartVM
  <2>2. guest' = [key |-> k, sshd |-> "off", authorized |-> FALSE, ci |-> "running", restarts |-> 0]
    BY <2>1 DEF NoVM
  <2>3. Stage' = "boot" /\ Stage = "off"
    BY <1>1, <2>2 DEF Stage, StartVM
  <2>4. guest = NoVM /\ ~Over' /\ known'["runtime"] = {}
    BY <1>1, <1>t DEF StartVM, SessionFits, TypeOK, Files, Over
  <2> QED BY <1>1, <2>2, <2>3, <2>4 DEF StartVM, Contract!Start, Contract!NoVM, NoVM
<1>s. guest.sshd \in {"gone", "off", "up", "down"} /\ guest.ci \in Verdicts \cup {"running"}
  BY <1>t DEF TypeOK, Guest
<1>v. UNCHANGED guest => UNCHANGED Stage
  BY DEF Stage
<1> DEFINE Still == UNCHANGED Contract!vars
<1>2. CASE ScanOk
  <2>1. known'["runtime"] = {guest.key} /\ Stage \in {"up", "failed", "done"}
    BY <1>2, <1>s, <1>t, StageFacts DEF ScanOk, Go, TypeOK, Files, SessionFits, Up
  <2>2. Contract!PinOk
    BY <1>2, <2>1, <1>v DEF ScanOk, Go, Contract!PinOk, Contract!Listens, Over
  <2> QED BY <2>2 DEF Contract!Next
<1>3. CASE ScanFailed \/ Again
  BY <1>3, <1>v DEF ScanFailed, Again, Go, Over, user, Contract!vars, Contract!command
<1>4. CASE PinGaveUp
  <2>1. Contract!PinGaveUp
    BY <1>4, <1>t, <1>v DEF PinGaveUp, Go, Return, Over, Contract!PinGaveUp, Contract!End, TypeOK
  <2> QED BY <2>1 DEF Contract!Next
<1>5. CASE GaveUp
  <2>1. Contract!WaitFailed
    BY <1>5, <1>t, <1>v DEF GaveUp, Return, Over, user, Contract!WaitFailed, Contract!End
  <2> QED BY <2>1 DEF Contract!Next
<1>6. ASSUME Miss, pc \in Attempts PROVE Contract!Next \/ Still
  <2>1. CASE cmd = "seal" /\ pc \in DOMAIN Rest
    BY <1>6, <2>1, <1>v DEF Miss, Rest, Return, Over, user, Contract!vars, Contract!command
  <2>2. CASE pc = "details"
    BY <1>6, <2>2, <1>v DEF Miss, Rest, Return, Over, user, Contract!vars, Contract!command
  <2>3. CASE cmd = "verify" /\ pc = "login"
    <3>1. Contract!WaitFailed
      BY <1>6, <2>3, <1>v DEF Miss, Rest, Return, Over, user, Contract!WaitFailed, Contract!End
    <3> QED BY <3>1 DEF Contract!Next
  <2> QED BY <1>6, <2>1, <2>2, <2>3 DEF Miss
<1>7. CASE Refused \/ AttemptEnds \/ Detailed
  <2>1. Miss /\ pc \in Attempts
    BY <1>7, <1>t DEF Refused, AttemptEnds, Detailed, TypeOK, Attempts
  <2> QED BY <2>1, <1>6
<1>8. CASE Connect
  BY <1>8, <1>v DEF Connect, Over, Contract!vars, Contract!command
<1>9. CASE LoggedIn
  <2>1. CASE cmd = "seal" /\ Go("login", "poll") /\ UNCHANGED late
    BY <1>9, <2>1, <1>v DEF LoggedIn, Go, Over, user, Contract!vars, Contract!command
  <2>2. CASE cmd = "verify" /\ Return("ok")
    <3>1. Contract!LoggedIn
      BY <1>9, <2>2, <1>v, OpenCanLogIn DEF LoggedIn, Return, Over, user, Contract!LoggedIn, Contract!End
    <3> QED BY <3>1 DEF Contract!Next
  <2> QED BY <1>9, <2>1, <2>2 DEF LoggedIn
<1>10. CASE Polled
  <2>1. /\ Contract!CanLogIn /\ cmd = "seal" /\ UNCHANGED <<Stage, guest, known>>
        /\ Stage = "done" <=> guest.ci \in {"done", "degraded"}
        /\ Stage = "failed" <=> guest.ci = "error"
    BY <1>10, <1>t, <1>v, OpenCanLogIn, StageFacts DEF Polled, InLoop, SessionFits, user
  <2>2. CASE guest.ci = "running" /\ Go("poll", "pollrest") /\ UNCHANGED late
    BY <1>10, <2>1, <2>2 DEF Polled, Go, Over, Contract!vars, Contract!command
  <2>3. CASE guest.ci = "done" /\ Return("ok")
    <3>1. Contract!CloudInitDone
      BY <1>10, <2>1, <2>3 DEF Polled, Return, Over, Contract!CloudInitDone, Contract!End
    <3> QED BY <3>1 DEF Contract!Next
  <2>4. CASE /\ guest.ci \in {"degraded", "error"}
             /\ pc' = "details" /\ seen' = guest.ci
             /\ UNCHANGED <<cmd, late, cancelled, result>>
    <3>1. CASE guest.ci = "degraded"
      <4>1. Contract!CloudInitDone
        BY <1>10, <2>1, <2>4, <3>1 DEF Polled, Contract!CloudInitDone, Contract!End
      <4> QED BY <4>1 DEF Contract!Next
    <3>2. CASE guest.ci = "error"
      <4>1. Contract!WaitFailed
        BY <1>10, <2>1, <2>4, <3>2 DEF Polled, Contract!WaitFailed, Contract!End
      <4> QED BY <4>1 DEF Contract!Next
    <3> QED BY <2>4, <3>1, <3>2
  <2> QED BY <1>10, <2>2, <2>3, <2>4 DEF Polled
<1>11. CASE Deadline \/ Cancel
  <2>1. Contract!Expire \/ Still
    BY <1>11, <1>t, <1>v DEF Deadline, Cancel, Over, Contract!Expire, Contract!vars,
       Contract!command, TypeOK
  <2> QED BY <2>1 DEF Contract!Next
<1>12. CASE PinHostkey \/ PinHostkeyOk \/ PinHostkeyFailed
  <2>1. known'["runtime"] = known["runtime"] /\ UNCHANGED <<pc, cmd, seen, late, cancelled, result, guest>>
    BY <1>12, <1>t DEF PinHostkey, PinHostkeyOk, PinHostkeyFailed, proc, TypeOK, Files
  <2> QED BY <2>1, <1>v DEF Over, Contract!vars, Contract!command
<1>13. CASE SshdUp \/ KeyInstalled \/ SshdBack \/ SshdRestarts \/ CloudInitEnds
  <2>1. UNCHANGED <<Contract!command, known>>
    BY <1>13 DEF SshdUp, KeyInstalled, SshdBack, SshdRestarts, CloudInitEnds, GuestDoes,
       Over, Contract!command
  <2>2. CASE SshdUp
    <3>1. guest' = [guest EXCEPT !.sshd = "up"] /\ guest.ci = "running" /\ guest.sshd = "off"
      BY <2>2, <1>t DEF SshdUp, GuestDoes, SessionFits
    <3>2. guest'.sshd = "up" /\ guest'.ci = "running" /\ guest'.key = guest.key
          /\ guest'.authorized = guest.authorized
      BY <3>1, <1>t DEF TypeOK, Guest
    <3>3. Stage = "boot" /\ Stage' = "up"
      BY <3>1, <3>2 DEF Stage
    <3>4. Contract!Boots
      BY <2>1, <3>2, <3>3 DEF Contract!Boots, Contract!GuestBecomes
    <3> QED BY <3>4 DEF Contract!Next
  <2>3. CASE KeyInstalled
    <3>1. guest' = [guest EXCEPT !.authorized = TRUE] /\ guest.sshd \in {"up", "down"}
          /\ ~guest.authorized
      BY <2>3 DEF KeyInstalled, GuestDoes
    <3>2. guest'.sshd = guest.sshd /\ guest'.ci = guest.ci /\ guest'.key = guest.key
          /\ guest'.authorized = TRUE
      BY <3>1, <1>t DEF TypeOK, Guest
    <3>3. Stage \in {"up", "failed", "done"} /\ Stage' = Stage
      BY <3>1, <3>2, <1>t, StageFacts DEF Stage
    <3>4. Contract!KeyInstalled
      BY <2>1, <3>1, <3>2, <3>3 DEF Contract!KeyInstalled, Contract!GuestBecomes, Contract!Listens
    <3> QED BY <3>4 DEF Contract!Next
  <2>4. CASE SshdBack \/ SshdRestarts
    <3>1. guest.sshd \in {"up", "down"} /\ guest'.sshd \in {"up", "down"} /\ guest'.ci = guest.ci
          /\ guest'.key = guest.key /\ guest'.authorized = guest.authorized
      BY <2>4, <1>t DEF SshdBack, SshdRestarts, GuestDoes, Up, TypeOK, Guest
    <3>2. Stage' = Stage
      BY <3>1 DEF Stage
    <3> QED BY <2>1, <3>1, <3>2 DEF Contract!vars
  <2>5. CASE CloudInitEnds
    <3>1. PICK v \in Verdicts : guest' = [guest EXCEPT !.ci = v]
      BY <2>5 DEF CloudInitEnds, GuestDoes
    <3>2. guest.sshd = "up" /\ guest.ci = "running" /\ guest.authorized
      BY <2>5 DEF CloudInitEnds, Up
    <3>3. guest'.sshd = "up" /\ guest'.ci = v /\ guest'.key = guest.key /\ guest'.authorized = guest.authorized
      BY <3>1, <3>2, <1>t DEF TypeOK, Guest
    <3>4. Stage = "up" /\ Stage' \in {"failed", "done"}
      BY <3>2, <3>3 DEF Stage, Verdicts
    <3>5. [key |-> guest.key, stage |-> Stage, authorized |-> guest.authorized]'
            = [[key |-> guest.key, stage |-> Stage, authorized |-> guest.authorized]
                 EXCEPT !.stage = Stage']
      BY <3>3
    <3>6. Contract!CloudInitEnds
      BY <2>1, <3>2, <3>4, <3>5 DEF Contract!CloudInitEnds, Contract!GuestBecomes
    <3> QED BY <3>6 DEF Contract!Next
  <2> QED BY <1>13, <2>2, <2>3, <2>4, <2>5
<1>14. CASE QemuExits
  <2>1. UNCHANGED <<Contract!command, known>> /\ guest' = NoVM /\ guest.sshd # "gone"
    BY <1>14 DEF QemuExits, GuestDoes, Over, Contract!command
  <2>2. Stage # "off" /\ Stage' = "off"
    BY <2>1, <1>t, StageFacts DEF Stage, NoVM
  <2>3. Contract!Vanishes
    BY <2>1, <2>2 DEF Contract!Vanishes, Contract!GuestBecomes, Contract!NoVM, NoVM
  <2> QED BY <2>3 DEF Contract!Next
<1>15. CASE UNCHANGED vars
  BY <1>15, <1>v DEF vars, proc, Over, Contract!vars, Contract!command
<1> QED
  BY <1>1, <1>2, <1>3, <1>4, <1>5, <1>7, <1>8, <1>9, <1>10, <1>11, <1>12, <1>13,
     <1>14, <1>15 DEF Next, Prompt, Answered, Contract!Next

(* Whatever happens to single attempts -- refused, mute, dead under a      *)
(* restarting sshd, cut off at the deadline -- and whatever the guest and   *)
(* the user do, the waits keep the contract that the commands are built on: *)
(* for any host keys and any number of restarts.                           *)
THEOREM Refinement == Spec => Implements
<1>1. Init => Contract!Init
  BY DEF Init, NoVM, Stage, Over, InDetails, Files, Contract!Init, Contract!NoVM
<1> QED
  BY <1>1, StepIsContract, FitsHolds, PTL DEF Spec, Implements, Contract!Spec
=============================================================================

--------------------------- MODULE TestFork_proofs ---------------------------
(***************************************************************************)
(* Cleanup and verification of TestFork for any number of tests, images    *)
(* and seconds, whether or not tests overlap.                              *)
(***************************************************************************)
EXTENDS TestFork, TLAPS

USE NamesAssumption, AbsentAssumption

Unnamed == {"idle", "pull"}     \* labels at which there is no fork yet

(* A fork has a name from the moment there is one, and only then.          *)
Placed(p) ==
  /\ pc[p] \in Unnamed => at[p] = Absent
  /\ pc[p] \notin Unnamed => got[p] \in Artifacts /\ at[p] \in Seconds
  /\ pc[p] = "verify" => kind[p] = "oci"

TInv == TypeOK /\ \A p \in Tests : Placed(p)

LEMMA InitTypes == Init => TInv
BY DEF Init, TInv, TypeOK, Placed, Unnamed, Labels, NoVM, Unsaid

(* A fork's files have names of the right kind.                            *)
LEMMA Naming ==
  ASSUME TInv, NEW p \in Tests, pc[p] \notin Unnamed, NEW part \in Parts
  PROVE  Made(p, part) \subseteq Names \X Parts
<1>1. Name(p) \in Names
  BY DEF TInv, TypeOK, Placed, Name, Names
<1>2. left \subseteq Names \X Parts
  BY DEF TInv, TypeOK
<1> QED BY <1>1, <1>2 DEF Made

LEMMA BeginTypes ==
  ASSUME TInv, NEW p \in Tests, BeginBoot(p) \/ BeginOCI(p) \/ PullOk(p) \/ PullFailed(p)
  PROVE  TInv'
<1> USE DEF TInv, TypeOK, Placed, Unnamed, Labels, Active, host
<1>1. CASE BeginBoot(p)
  BY <1>1 DEF BeginBoot
<1>2. CASE BeginOCI(p)
  BY <1>2 DEF BeginOCI
<1>3. CASE PullOk(p)
  BY <1>3 DEF PullOk, Disturbs
<1>4. CASE PullFailed(p)
  BY <1>4 DEF PullFailed, Idle, Forgets
<1> QED BY <1>1, <1>2, <1>3, <1>4

LEMMA ForkTypes ==
  ASSUME TInv, NEW p \in Tests,
         \/ CreateOverlay(p) \/ KeyReady(p) \/ WriteISO(p) \/ CopyVars(p)
         \/ MakeFailed(p) \/ StartFailed(p)
  PROVE  TInv'
<1> USE DEF TInv, TypeOK, Placed, Unnamed, Labels, host, Go
<1>1. CASE CreateOverlay(p)
  <2>1. left' \subseteq Names \X Parts
    BY <1>1, Naming DEF CreateOverlay, Parts
  <2> QED BY <1>1, <2>1 DEF CreateOverlay
<1>2. CASE KeyReady(p)
  BY <1>2 DEF KeyReady
<1>3. CASE WriteISO(p)
  <2>1. left' \subseteq Names \X Parts
    BY <1>3, Naming DEF WriteISO, Parts
  <2> QED BY <1>3, <2>1 DEF WriteISO
<1>4. CASE CopyVars(p)
  <2>1. left' \subseteq Names \X Parts
    BY <1>4, Naming DEF CopyVars, Parts
  <2> QED BY <1>4, <2>1 DEF CopyVars
<1>5. CASE MakeFailed(p)
  <2>1. PICK from \in {"fork", "key", "iso", "vars"} :
          Go(p, from, "unlink") /\ left' \in {left, IF from = "key" THEN left ELSE Made(p, from)}
    BY <1>5 DEF MakeFailed
  <2>2. left' \subseteq Names \X Parts
    BY <2>1, Naming DEF Parts
  <2> QED BY <1>5, <2>1, <2>2 DEF MakeFailed
<1>6. CASE StartFailed(p)
  BY <1>6 DEF StartFailed, Disturbs
<1> QED BY <1>1, <1>2, <1>3, <1>4, <1>5, <1>6

LEMMA StartTypes == ASSUME TInv, NEW p \in Tests, StartVM(p) PROVE TInv'
<1> USE DEF TInv
<1>1. /\ pc[p] = "start" /\ pc' = [pc EXCEPT ![p] = "pin"]
      /\ UNCHANGED <<kind, cancelled, got, at, extract, verdict>> /\ pinned' = Nobody
  BY DEF StartVM, Go
<1>2. left' \subseteq Names \X Parts
  <2>1. Made(p, "log") \subseteq Names \X Parts
    BY <1>1, Naming DEF Parts, Unnamed
  <2>2. left' \in {left, Made(p, "log")}
    BY DEF StartVM
  <2> QED BY <2>1, <2>2 DEF TypeOK
<1>3. contested' \in [Tests -> BOOLEAN]
  BY DEF StartVM, Disturbs, TypeOK, Active
<1>4. /\ vm' \in Guests \cup {NoVM} /\ mine' \in [Tests -> BOOLEAN]
      /\ \A q \in Tests : mine'[q] <=> vm'.of = q
  <2>1. CASE /\ vm = NoVM /\ Backing(p) # Absent
             /\ vm' = [of |-> p, image |-> Backing(p), state |-> "boot"]
             /\ mine' = [mine EXCEPT ![p] = TRUE]
    <3>1. Backing(p) \in Artifacts
      BY <2>1 DEF Backing, TypeOK
    <3> QED BY <2>1, <3>1 DEF TypeOK, Guests, NoVM
  <2>2. CASE UNCHANGED <<vm, mine>>
    BY <2>2 DEF TypeOK
  <2> QED BY <2>1, <2>2 DEF StartVM
<1>5. TypeOK'
  BY <1>1, <1>2, <1>3, <1>4 DEF TypeOK, Labels
<1>6. \A q \in Tests : Placed(q)'
  BY <1>1 DEF TypeOK, Placed, Unnamed
<1> QED BY <1>5, <1>6

LEMMA PinTypes ==
  ASSUME TInv, NEW p \in Tests,
         PinOk(p) \/ PinGaveUp(p) \/ LoginOk(p) \/ LoginFailed(p) \/ Stopped(p)
  PROVE  TInv'
<1> USE DEF TInv, TypeOK, Placed, Unnamed, Labels, host, Go
<1>1. CASE PinOk(p)
  BY <1>1 DEF PinOk, Listening, Guests, NoVM
<1>2. CASE PinGaveUp(p)
  BY <1>2 DEF PinGaveUp
<1>3. CASE LoginOk(p)
  <2>1. [of |-> vm.of, image |-> vm.image, pulled |-> got[p], contested |-> contested[p]]
          \in Verified
    <3>1. vm \in Guests /\ got[p] \in Artifacts
      BY <1>3 DEF LoginOk, CanLogIn, NoVM
    <3> QED BY <3>1 DEF Guests, Verified
  <2> QED BY <1>3, <2>1 DEF LoginOk, SaysVerified
<1>4. CASE LoginFailed(p)
  BY <1>4 DEF LoginFailed
<1>5. CASE Stopped(p)
  BY <1>5 DEF Stopped
<1> QED BY <1>1, <1>2, <1>3, <1>4, <1>5

LEMMA DeathTypes ==
  ASSUME TypeOK, Dies
  PROVE  /\ vm' \in Guests \cup {NoVM} /\ mine' \in [Tests -> BOOLEAN]
         /\ \A q \in Tests : mine'[q] <=> vm'.of = q
BY DEF Dies, NoVM

LEMMA EndTypes ==
  ASSUME TInv, NEW p \in Tests,
         Reap(p) \/ Unlink(p) \/ Cancel(p) \/ KillOnCancel(p) \/ Killed(p)
  PROVE  TInv'
<1> USE DEF TInv, TypeOK, Placed, Unnamed, Labels, host, Active
<1>1. CASE Reap(p)
  BY <1>1, DeathTypes DEF Reap, Go
<1>2. CASE Unlink(p)
  BY <1>2 DEF Unlink, Idle, Forgets
<1>3. CASE Cancel(p)
  BY <1>3 DEF Cancel
<1>4. CASE KillOnCancel(p)
  BY <1>4, DeathTypes DEF KillOnCancel
<1>5. CASE Killed(p)
  <2>1. /\ vm' \in Guests \cup {NoVM} /\ mine' \in [Tests -> BOOLEAN]
        /\ \A q \in Tests : mine'[q] <=> vm'.of = q
    <3>1. CASE mine[p]
      <4>1. vm \in Guests /\ vm' = [vm EXCEPT !.of = Outsider] /\ vm.of = p
        BY <1>5, <3>1 DEF Killed, NoVM
      <4>2. vm' \in Guests /\ vm'.of = Outsider
        BY <4>1 DEF Guests
      <4>3. \A q \in Tests : ~mine'[q]
        BY <1>5, <3>1, <4>1 DEF Killed
      <4>4. mine' \in [Tests -> BOOLEAN]
        BY <1>5 DEF Killed
      <4> QED BY <4>2, <4>3, <4>4
    <3>2. CASE ~mine[p]
      BY <1>5, <3>2 DEF Killed
    <3> QED BY <3>1, <3>2
  <2>2. pinned' \in Tests \cup {Outsider, Nobody}
    BY <1>5 DEF Killed
  <2> QED BY <1>5, <2>1, <2>2 DEF Killed, Idle
<1> QED BY <1>1, <1>2, <1>3, <1>4, <1>5

LEMMA GuestTypes ==
  ASSUME TInv, Clean \/ GuestUp \/ GuestEnds
  PROVE  TInv'
<1> USE DEF TInv, TypeOK, Placed
<1>1. CASE Clean
  BY <1>1 DEF Clean, cli
<1>2. CASE GuestUp
  <2>1. vm \in Guests /\ vm' \in Guests /\ vm'.of = vm.of
    BY <1>2 DEF GuestUp, Guests
  <2> QED BY <1>2, <2>1 DEF GuestUp, cli
<1>3. CASE GuestEnds
  BY <1>3, DeathTypes DEF GuestEnds
<1> QED BY <1>1, <1>2, <1>3

LEMMA StepTypes == TInv /\ [Next]_vars => TInv'
<1> SUFFICES ASSUME TInv, [Next]_vars PROVE TInv'
  OBVIOUS
<1>1. CASE UNCHANGED vars
  BY <1>1 DEF TInv, TypeOK, Placed, vars, cli, host
<1> QED BY <1>1, BeginTypes, ForkTypes, StartTypes, PinTypes, EndTypes, GuestTypes DEF Next

(* Every state is well typed, and "mine" is the live qemu's owner.         *)
THEOREM TypeCorrect == Spec => []TypeOK
<1>1. TInv => TypeOK
  BY DEF TInv
<1> QED BY <1>1, InitTypes, StepTypes, PTL DEF Spec

-----------------------------------------------------------------------------
(* Files and VMs. *)

LEMMA StepFiles == TInv /\ NothingLeftBehind /\ [Next]_vars => NothingLeftBehind'
<1> SUFFICES ASSUME TInv, NothingLeftBehind, [Next]_vars PROVE NothingLeftBehind'
  OBVIOUS
<1> USE DEF NothingLeftBehind, Active, Name
<1>0. /\ TypeOK /\ \A p \in Tests : Placed(p)
      /\ \A f \in left : f[1] \in Names
  BY DEF TInv, TypeOK
<1>1. CASE UNCHANGED vars
  BY <1>1 DEF vars, cli
<1>2. CASE Clean
  BY <1>2 DEF Clean
<1>3. CASE GuestUp \/ GuestEnds \/ \E p \in Tests : KillOnCancel(p)
  BY <1>3 DEF GuestUp, GuestEnds, KillOnCancel, cli
(* Whose name changes was without one.                                     *)
<1>4. ASSUME NEW p \in Tests, BeginBoot(p) \/ BeginOCI(p) \/ PullOk(p) \/ PullFailed(p)
      PROVE  NothingLeftBehind'
  <2>1. /\ left' = left
        /\ \A q \in Tests \ {p} :
             pc'[q] = pc[q] /\ kind'[q] = kind[q] /\ got'[q] = got[q] /\ at'[q] = at[q]
    BY <1>0, <1>4 DEF BeginBoot, BeginOCI, PullOk, PullFailed, Idle, TypeOK
  <2>2. pc[p] \in {"idle", "pull"}
    BY <1>4 DEF BeginBoot, BeginOCI, PullOk, PullFailed
  <2>3. \A f \in left : Name(p) # f[1]
    <3>1. at[p] = Absent
      BY <1>0, <2>2 DEF Placed, Unnamed
    <3>2. \A n \in Names : n[2] \in Seconds
      BY DEF Names
    <3> QED BY <1>0, <3>1, <3>2
  <2>4. \A f \in left : \E q \in Tests \ {p} : Active(q) /\ Name(q) = f[1]
    BY <2>3
  <2> QED BY <2>1, <2>4
(* The maker of a file is still there.                                     *)
<1>5. ASSUME NEW p \in Tests,
             \/ CreateOverlay(p) \/ KeyReady(p) \/ WriteISO(p) \/ CopyVars(p)
             \/ MakeFailed(p) \/ StartVM(p) \/ StartFailed(p)
             \/ PinOk(p) \/ PinGaveUp(p) \/ LoginOk(p) \/ LoginFailed(p)
             \/ Stopped(p) \/ Reap(p) \/ Cancel(p)
      PROVE  NothingLeftBehind'
  <2>1. /\ pc[p] # "idle" /\ pc'[p] # "idle" /\ UNCHANGED <<kind, got, at>>
        /\ \A q \in Tests \ {p} : pc'[q] = pc[q]
    BY <1>0, <1>5 DEF CreateOverlay, KeyReady, WriteISO, CopyVars, MakeFailed, StartVM,
       StartFailed, PinOk, PinGaveUp, LoginOk, LoginFailed, Stopped, Reap, Cancel, Go, TypeOK
  <2>2. \A f \in left' : f \in left \/ f[1] = Name(p)
    BY <1>5 DEF CreateOverlay, KeyReady, WriteISO, CopyVars, MakeFailed, StartVM,
       StartFailed, PinOk, PinGaveUp, LoginOk, LoginFailed, Stopped, Reap, Cancel, Made, host
  <2> QED BY <2>1, <2>2
<1>6. ASSUME NEW p \in Tests, Unlink(p) \/ Killed(p) PROVE NothingLeftBehind'
  <2>1. /\ left' = left \ FilesOf(Name(p))
        /\ \A q \in Tests \ {p} :
             pc'[q] = pc[q] /\ kind'[q] = kind[q] /\ got'[q] = got[q] /\ at'[q] = at[q]
    BY <1>0, <1>6 DEF Unlink, Killed, Idle, TypeOK
  <2>2. \A f \in left' : f \in left /\ f[1] # Name(p)
    BY <1>0, <2>1 DEF FilesOf, TypeOK
  <2> QED BY <2>1, <2>2
<1> QED BY <1>1, <1>2, <1>3, <1>4, <1>5, <1>6 DEF Next

LEMMA StepVM == TInv /\ NoVMLeftBehind /\ [Next]_vars => NoVMLeftBehind'
<1> SUFFICES ASSUME TInv, NoVMLeftBehind, [Next]_vars PROVE NoVMLeftBehind'
  OBVIOUS
<1> USE DEF NoVMLeftBehind, host, Go
<1>0. TypeOK
  BY DEF TInv
<1>1. CASE UNCHANGED vars
  BY <1>1 DEF vars, cli, host
<1>2. CASE Clean \/ GuestEnds
  BY <1>0, <1>2 DEF Clean, GuestEnds, Dies, NoVM, cli
<1>3. CASE GuestUp
  <2>1. vm'.of = vm.of
    BY <1>0, <1>3 DEF GuestUp, TypeOK, Guests
  <2> QED BY <1>3, <2>1 DEF GuestUp, cli
<1>4. ASSUME NEW p \in Tests,
             \/ BeginBoot(p) \/ BeginOCI(p) \/ PullOk(p) \/ PullFailed(p)
             \/ CreateOverlay(p) \/ KeyReady(p) \/ WriteISO(p) \/ CopyVars(p)
             \/ MakeFailed(p) \/ StartFailed(p) \/ Unlink(p)
      PROVE  NoVMLeftBehind'
  <2>1. /\ vm' = vm /\ pc[p] \notin {"pin", "verify", "run", "reap"}
        /\ \A q \in Tests \ {p} : pc'[q] = pc[q]
    BY <1>0, <1>4 DEF BeginBoot, BeginOCI, PullOk, PullFailed, CreateOverlay, KeyReady, WriteISO,
       CopyVars, MakeFailed, StartFailed, Unlink, Idle, Active, TypeOK
  <2> QED BY <2>1
<1>5. ASSUME NEW p \in Tests, PinOk(p) \/ PinGaveUp(p) \/ LoginOk(p) \/ LoginFailed(p) \/ Stopped(p)
      PROVE  NoVMLeftBehind'
  BY <1>0, <1>5 DEF PinOk, PinGaveUp, LoginOk, LoginFailed, Stopped, TypeOK
<1>6. ASSUME NEW p \in Tests, StartVM(p) PROVE NoVMLeftBehind'
  BY <1>0, <1>6 DEF StartVM, TypeOK
<1>7. ASSUME NEW p \in Tests, Reap(p) PROVE NoVMLeftBehind'
  BY <1>0, <1>7 DEF Reap, Dies, NoVM, TypeOK
<1>8. ASSUME NEW p \in Tests, Cancel(p) PROVE NoVMLeftBehind'
  BY <1>8 DEF Cancel
<1>9. ASSUME NEW p \in Tests, KillOnCancel(p) PROVE NoVMLeftBehind'
  BY <1>9 DEF KillOnCancel, Dies, NoVM
<1>10. ASSUME NEW p \in Tests, Killed(p) PROVE NoVMLeftBehind'
  <2>1. \A q \in Tests : vm'.of = q => q # p /\ vm.of = q
    <3>1. CASE mine[p]
      <4>1. vm \in Guests /\ vm' = [vm EXCEPT !.of = Outsider]
        BY <1>0, <1>10, <3>1 DEF Killed, TypeOK, NoVM
      <4> QED BY <4>1 DEF Guests
    <3>2. CASE ~mine[p]
      BY <1>0, <1>10, <3>2 DEF Killed, TypeOK
    <3> QED BY <3>1, <3>2
  <2>2. \A q \in Tests \ {p} : pc'[q] = pc[q]
    BY <1>0, <1>10 DEF Killed, Idle, TypeOK
  <2> QED BY <2>1, <2>2
<1> QED BY <1>1, <1>2, <1>3, <1>4, <1>5, <1>6, <1>7, <1>8, <1>9, <1>10 DEF Next

(* Whatever fails on the way, and whoever else is testing: a fork's file   *)
(* belongs to a test that has yet to remove it.                            *)
THEOREM NothingLeftBehindHolds == Spec => []NothingLeftBehind
<1>1. Init => NothingLeftBehind
  BY DEF Init, NothingLeftBehind
<1> QED BY <1>1, InitTypes, StepTypes, StepFiles, PTL DEF Spec

(* A test's qemu is alive only where its cleanup is still to come.         *)
THEOREM NoVMLeftBehindHolds == Spec => []NoVMLeftBehind
<1>1. Init => NoVMLeftBehind
  BY DEF Init, NoVMLeftBehind, NoVM
<1> QED BY <1>1, InitTypes, StepTypes, StepVM, PTL DEF Spec

-----------------------------------------------------------------------------
(* What a test that nobody disturbed verifies: there was no VM but its own *)
(* since it began, and TestExtractDir holds what it pulled.                *)

PastPull == {"fork", "key", "iso", "vars", "start", "pin", "verify", "run", "reap", "unlink"}

Undisturbed(p) ==
  pc[p] # "idle" /\ ~contested[p] =>
    /\ vm.of \in {p, Nobody}
    /\ kind[p] = "oci" /\ pc[p] \in PastPull => extract = got[p]
    /\ kind[p] = "oci" /\ vm.of = p => vm.image = got[p]

VInv == VerifiedUnlessContested /\ \A p \in Tests : Undisturbed(p)

LEMMA StepVerified == TInv /\ NoVMLeftBehind /\ VInv /\ [Next]_vars => VInv'
<1> SUFFICES ASSUME TInv, NoVMLeftBehind, VInv, [Next]_vars PROVE VInv'
  OBVIOUS
<1> USE DEF VInv, VerifiedUnlessContested, Undisturbed, PastPull, host, Go, Active
<1>0. /\ TypeOK /\ \A p \in Tests : Placed(p)
  BY DEF TInv
<1>1. CASE UNCHANGED vars
  BY <1>1 DEF vars, cli, host
<1>2. CASE Clean
  BY <1>2 DEF Clean, cli
<1>3. CASE GuestUp
  <2>1. vm'.of = vm.of /\ vm'.image = vm.image
    BY <1>0, <1>3 DEF GuestUp, TypeOK, Guests
  <2> QED BY <1>3, <2>1 DEF GuestUp, cli
<1>4. CASE GuestEnds
  BY <1>0, <1>4 DEF GuestEnds, Dies, NoVM
<1>5. ASSUME NEW p \in Tests, BeginBoot(p) PROVE VInv'
  <2>1. /\ UNCHANGED <<vm, extract>> /\ kind'[p] = "boot" /\ verdict'[p] = Unsaid
        /\ \A q \in Tests \ {p} : /\ pc'[q] = pc[q] /\ kind'[q] = kind[q] /\ got'[q] = got[q]
                                  /\ verdict'[q] = verdict[q]
    BY <1>0, <1>5 DEF BeginBoot, TypeOK
  <2>2. /\ ~contested'[p] => vm = NoVM
        /\ \A q \in Tests \ {p} : contested'[q] = contested[q]
    <3>1. contested' = [contested EXCEPT ![p] = vm # NoVM] /\ contested \in [Tests -> BOOLEAN]
      BY <1>0, <1>5 DEF BeginBoot, TypeOK
    <3> QED BY <3>1
  <2> QED BY <2>1, <2>2 DEF NoVM
<1>6. ASSUME NEW p \in Tests, BeginOCI(p) PROVE VInv'
  <2>1. /\ vm' = vm /\ pc[p] = "idle" /\ pc'[p] = "pull" /\ (~contested'[p] => vm = NoVM)
        /\ verdict'[p] = Unsaid
        /\ \A q \in Tests \ {p} : /\ pc'[q] = pc[q] /\ verdict'[q] = verdict[q]
                                  /\ ~contested'[q] => pc[q] = "idle"
    BY <1>0, <1>6 DEF BeginOCI, TypeOK
  <2>2. vm # NoVM => vm.of # p
    BY <2>1 DEF NoVMLeftBehind
  <2> QED BY <2>1, <2>2 DEF NoVM
<1>7. ASSUME NEW p \in Tests, PullOk(p) PROVE VInv'
  <2>1. /\ UNCHANGED <<vm, verdict>> /\ extract' = got'[p] /\ pc[p] = "pull"
        /\ (~contested'[p] => ~contested[p])
        /\ \A q \in Tests \ {p} : pc'[q] = pc[q] /\ (~contested'[q] => pc[q] = "idle")
    BY <1>0, <1>7 DEF PullOk, Disturbs, TypeOK
  <2>2. vm.of # p
    BY <2>1 DEF NoVMLeftBehind
  <2> QED BY <2>1, <2>2
<1>8. ASSUME NEW p \in Tests, PullFailed(p) \/ Unlink(p) PROVE VInv'
  <2>1. /\ UNCHANGED <<vm, extract, verdict>> /\ pc'[p] = "idle"
        /\ \A q \in Tests \ {p} : /\ pc'[q] = pc[q] /\ kind'[q] = kind[q] /\ got'[q] = got[q]
                                  /\ contested'[q] = contested[q]
    BY <1>0, <1>8 DEF PullFailed, Unlink, Idle, Forgets, TypeOK
  <2> QED BY <2>1
<1>9. ASSUME NEW p \in Tests,
             \/ CreateOverlay(p) \/ KeyReady(p) \/ WriteISO(p) \/ CopyVars(p) \/ MakeFailed(p)
             \/ PinOk(p) \/ PinGaveUp(p) \/ LoginFailed(p) \/ Stopped(p) \/ Cancel(p)
      PROVE  VInv'
  <2>1. /\ UNCHANGED <<vm, extract, verdict, kind, got, contested>>
        /\ pc[p] \in PastPull \/ pc' = pc
        /\ \A q \in Tests \ {p} : pc'[q] = pc[q]
    BY <1>0, <1>9 DEF CreateOverlay, KeyReady, WriteISO, CopyVars, MakeFailed, PinOk,
       PinGaveUp, LoginFailed, Stopped, Cancel, TypeOK
  <2> QED BY <2>1
<1>10. ASSUME NEW p \in Tests, StartFailed(p) PROVE VInv'
  <2>1. /\ UNCHANGED <<vm, extract, verdict, kind, got>> /\ (~contested'[p] => ~contested[p])
        /\ pc[p] = "start"
        /\ \A q \in Tests \ {p} : pc'[q] = pc[q] /\ (~contested'[q] => pc[q] = "idle")
    BY <1>0, <1>10 DEF StartFailed, Disturbs, TypeOK
  <2> QED BY <2>1
<1>11. ASSUME NEW p \in Tests, StartVM(p) PROVE VInv'
  <2>1. /\ UNCHANGED <<extract, verdict, kind, got>> /\ (~contested'[p] => ~contested[p])
        /\ pc[p] = "start" /\ pc'[p] = "pin"
        /\ \A q \in Tests \ {p} : pc'[q] = pc[q] /\ (~contested'[q] => pc[q] = "idle")
    BY <1>0, <1>11 DEF StartVM, Disturbs, TypeOK
  <2>2. vm' = vm \/ (vm'.of = p /\ vm'.image = Backing(p))
    BY <1>11 DEF StartVM
  <2>3. kind[p] = "oci" /\ ~contested[p] => extract = got[p] /\ Backing(p) = got[p]
    BY <2>1 DEF Backing
  <2> QED BY <2>1, <2>2, <2>3
<1>12. ASSUME NEW p \in Tests, LoginOk(p) PROVE VInv'
  <2>1. /\ UNCHANGED <<vm, extract, kind, got, contested>> /\ pc[p] = "verify"
        /\ verdict'[p] = [of |-> vm.of, image |-> vm.image, pulled |-> got[p],
                          contested |-> contested[p]]
        /\ \A q \in Tests \ {p} : pc'[q] = pc[q] /\ verdict'[q] = verdict[q]
    BY <1>0, <1>12 DEF LoginOk, SaysVerified, TypeOK
  <2>2. vm.of # Nobody
    <3>1. vm \in Guests
      BY <1>0, <1>12 DEF LoginOk, CanLogIn, TypeOK, NoVM
    <3> QED BY <3>1 DEF Guests
  <2>3. ~contested[p] => vm.of = p /\ vm.image = got[p]
    BY <1>0, <2>1, <2>2 DEF Placed
  <2> QED BY <2>1, <2>3
<1>13. ASSUME NEW p \in Tests, Reap(p) PROVE VInv'
  <2>1. /\ UNCHANGED <<extract, verdict, kind, got, contested>> /\ pc[p] = "reap"
        /\ \A q \in Tests \ {p} : pc'[q] = pc[q]
        /\ vm' = vm \/ vm'.of = Nobody
    BY <1>0, <1>13 DEF Reap, Dies, NoVM, TypeOK
  <2> QED BY <2>1
<1>14. ASSUME NEW p \in Tests, KillOnCancel(p) PROVE VInv'
  <2>1. UNCHANGED <<pc, extract, verdict, kind, got, contested>> /\ vm'.of = Nobody
    BY <1>14 DEF KillOnCancel, Dies, NoVM
  <2> QED BY <2>1
<1>15. ASSUME NEW p \in Tests, Killed(p) PROVE VInv'
  <2>1. /\ UNCHANGED <<extract, verdict>> /\ pc'[p] = "idle"
        /\ \A q \in Tests \ {p} : pc'[q] = pc[q] /\ (~contested'[q] => pc[q] = "idle")
    BY <1>0, <1>15 DEF Killed, Idle, TypeOK
  <2> QED BY <2>1
<1> QED BY <1>1, <1>2, <1>3, <1>4, <1>5, <1>6, <1>7, <1>8, <1>9, <1>10, <1>11, <1>12, <1>13,
        <1>14, <1>15 DEF Next

(* "Verified" is said of the guest booted from the image that was pulled,  *)
(* whenever nothing else touched the port or TestExtractDir meanwhile.     *)
THEOREM VerifiedUnlessContestedHolds == Spec => []VerifiedUnlessContested
<1>1. Init => VInv
  BY DEF Init, VInv, VerifiedUnlessContested, Undisturbed
<1>2. Init => NoVMLeftBehind
  BY DEF Init, NoVMLeftBehind, NoVM
<1>3. VInv => VerifiedUnlessContested
  BY DEF VInv
<1> QED BY <1>1, <1>2, <1>3, InitTypes, StepTypes, StepVM, StepVerified, PTL DEF Spec

-----------------------------------------------------------------------------
(* The refinement of Lease: how its variables follow a test's.             *)

LEMMA PhaseFollows ==
  ASSUME TypeOK, NEW p \in Tests, NEW l \in Labels, pc' = [pc EXCEPT ![p] = l]
  PROVE  PhaseOf' = [PhaseOf EXCEPT ![p] = Phase[l]]
BY DEF TypeOK, PhaseOf

LEMMA PhaseAt ==
  \A p \in Tests : PhaseOf[p] = Phase[pc[p]]
BY DEF PhaseOf

LEMMA NameStays == UNCHANGED <<kind, got, at>> => NameOf' = NameOf
BY DEF NameOf, Name

LEMMA NameAt ==
  ASSUME TInv, NEW p \in Tests, pc[p] \notin Unnamed
  PROVE  NameOf[p] = Name(p) /\ Name(p) \in Names
BY DEF NameOf, Name, Names, TInv, TypeOK, Placed

LEMMA NameLeft ==
  ASSUME TypeOK, NEW p \in Tests, Idle(p)
  PROVE  NameOf' = [NameOf EXCEPT ![p] = Absent]
<1>1. \A q \in Tests \ {p} : at'[q] = at[q] /\ got'[q] = got[q] /\ kind'[q] = kind[q]
  BY DEF Idle, TypeOK
<1>2. at'[p] = Absent
  BY DEF Idle, TypeOK
<1> QED BY <1>1, <1>2 DEF NameOf, Name

LEMMA LitterGrows ==
  ASSUME NEW p \in Tests, NEW part, left' = Made(p, part)
  PROVE  Litter' = Litter \cup {Name(p)}
<1> DEFINE n == Name(p)
<1> HIDE DEF n
<1>1. left' = left \cup {<<n, part>>}
  BY DEF Made, n
<1>2. {f[1] : f \in left \cup {<<n, part>>}} = {f[1] : f \in left} \cup {<<n, part>>[1]}
  OBVIOUS
<1>3. Litter' = Litter \cup {n}
  BY <1>1, <1>2 DEF Litter
<1> QED BY <1>3 DEF n

LEMMA LitterShrinks ==
  ASSUME TypeOK, NEW p \in Tests, left' = left \ FilesOf(Name(p))
  PROVE  Litter' = Litter \ {Name(p)}
<1>1. \A f \in left : f[2] \in Parts /\ f = <<f[1], f[2]>>
  BY DEF TypeOK
<1>2. \A f \in left : f \in FilesOf(Name(p)) <=> f[1] = Name(p)
  BY <1>1 DEF FilesOf
<1> QED BY <1>2 DEF Litter

LEMMA SaidStays == verdict' = verdict => Said' = Said
BY DEF Said

(* A test that is still to pull its image has said nothing. *)
Silent == \A p \in Tests : pc[p] = "pull" => verdict[p] = Unsaid

LEMMA StepSilent == TInv /\ Silent /\ [Next]_vars => Silent'
<1> SUFFICES ASSUME TInv, Silent, [Next]_vars PROVE Silent'
  OBVIOUS
<1> USE DEF Silent, Go
<1>0. TypeOK
  BY DEF TInv
<1>1. CASE UNCHANGED vars \/ Clean \/ GuestUp \/ GuestEnds
  BY <1>1 DEF vars, cli, Clean, GuestUp, GuestEnds
<1>2. ASSUME NEW p \in Tests, BeginBoot(p) \/ BeginOCI(p)
      PROVE  Silent'
  <2>1. verdict'[p] = Unsaid
    BY <1>0, <1>2 DEF BeginBoot, BeginOCI, TypeOK
  <2>2. \A q \in Tests \ {p} : pc'[q] = pc[q] /\ verdict'[q] = verdict[q]
    BY <1>0, <1>2 DEF BeginBoot, BeginOCI, TypeOK
  <2> QED BY <2>1, <2>2
<1>3. ASSUME NEW p \in Tests, Cancel(p) \/ KillOnCancel(p)
      PROVE  Silent'
  BY <1>3 DEF Cancel, KillOnCancel
<1>4. ASSUME NEW p \in Tests,
             \/ PullOk(p) \/ PullFailed(p)
             \/ CreateOverlay(p) \/ KeyReady(p) \/ WriteISO(p) \/ CopyVars(p)
             \/ MakeFailed(p) \/ StartVM(p) \/ StartFailed(p)
             \/ PinOk(p) \/ PinGaveUp(p) \/ LoginOk(p) \/ LoginFailed(p)
             \/ Stopped(p) \/ Reap(p) \/ Unlink(p) \/ Killed(p)
      PROVE  Silent'
  <2>1. pc'[p] # "pull"
    BY <1>0, <1>4 DEF PullOk, PullFailed, CreateOverlay, KeyReady, WriteISO, CopyVars,
       MakeFailed, StartVM, StartFailed, PinOk, PinGaveUp, LoginOk, LoginFailed, Stopped,
       Reap, Unlink, Killed, Idle, TypeOK
  <2>2. \A q \in Tests \ {p} : pc'[q] = pc[q] /\ verdict'[q] = verdict[q]
    BY <1>0, <1>4 DEF PullOk, PullFailed, CreateOverlay, KeyReady, WriteISO, CopyVars,
       MakeFailed, StartVM, StartFailed, PinOk, PinGaveUp, LoginOk, LoginFailed, Stopped,
       Reap, Unlink, Killed, Idle, SaysVerified, TypeOK
  <2> QED BY <2>1, <2>2
<1> QED BY <1>1, <1>2, <1>3, <1>4 DEF Next

(* The port is held exactly when there is a VM on it.                      *)
LEMMA Free == TypeOK => (vm = NoVM <=> vm.of = Nobody)
BY DEF TypeOK, NoVM, Guests

LEMMA BeginIsLease ==
  ASSUME TInv, NoVMLeftBehind, Silent, NEW p \in Tests,
         BeginBoot(p) \/ BeginOCI(p) \/ PullOk(p) \/ PullFailed(p)
  PROVE  Leased!Next \/ UNCHANGED Leased!vars
<1>0. TypeOK /\ Placed(p) /\ PhaseOf[p] = Phase[pc[p]]
  BY PhaseAt DEF TInv
<1>1. ASSUME NEW a \in Artifacts, NEW s \in Seconds,
             pc[p] \in Unnamed, pc' = [pc EXCEPT ![p] = "fork"],
             got' = [got EXCEPT ![p] = a], at' = [at EXCEPT ![p] = s],
             \A q \in Tests \ {p} : kind'[q] = kind[q],
             Said' = [Said EXCEPT ![p] = Nobody], UNCHANGED <<vm, left>>
      PROVE  Leased!Enter(p)
  <2>1. PhaseOf[p] = "none" /\ PhaseOf' = [PhaseOf EXCEPT ![p] = "making"]
    <3>1. PhaseOf' = [PhaseOf EXCEPT ![p] = Phase["fork"]]
      BY <1>0, <1>1, PhaseFollows DEF Labels
    <3>2. PhaseOf[p] = "none"
      BY <1>0, <1>1 DEF Unnamed, Phase
    <3> QED BY <3>1, <3>2 DEF Phase
  <2>2. PICK n \in Names : NameOf' = [NameOf EXCEPT ![p] = n]
    <3> DEFINE n == <<IF kind'[p] = "oci" THEN "image" ELSE a, s>>
    <3>1. n \in Names
      BY DEF Names
    <3>2. got'[p] = a /\ at'[p] = s
      BY <1>0, <1>1 DEF TypeOK
    <3>3. \A q \in Tests \ {p} : got'[q] = got[q] /\ at'[q] = at[q] /\ kind'[q] = kind[q]
      BY <1>0, <1>1 DEF TypeOK
    <3>4. NameOf' = [NameOf EXCEPT ![p] = n]
      BY <3>2, <3>3 DEF NameOf, Name
    <3> QED BY <3>1, <3>4
  <2>3. vm.of # p
    BY <1>1 DEF NoVMLeftBehind, Unnamed
  <2>4. vm'.of = vm.of /\ Litter' = Litter
    BY <1>1 DEF Litter
  <2> QED BY <1>1, <2>1, <2>2, <2>3, <2>4 DEF Leased!Enter, Leased!Becomes
<1>2. CASE BeginBoot(p)
  <2>1. PICK a \in Artifacts, s \in Seconds :
          got' = [got EXCEPT ![p] = a] /\ at' = [at EXCEPT ![p] = s]
    BY <1>2 DEF BeginBoot
  <2>2. Said' = [Said EXCEPT ![p] = Nobody]
    BY <1>0, <1>2 DEF BeginBoot, Said, Unsaid, TypeOK
  <2>3. /\ pc[p] \in Unnamed /\ pc' = [pc EXCEPT ![p] = "fork"] /\ UNCHANGED <<vm, left>>
        /\ \A q \in Tests \ {p} : kind'[q] = kind[q]
    BY <1>0, <1>2 DEF BeginBoot, Active, Unnamed, host, TypeOK
  <2> QED BY <1>1, <2>1, <2>2, <2>3 DEF Leased!Next
<1>3. CASE PullOk(p)
  <2>1. PICK a \in Artifacts, s \in Seconds :
          got' = [got EXCEPT ![p] = a] /\ at' = [at EXCEPT ![p] = s]
    BY <1>3 DEF PullOk
  <2>2. Said' = [Said EXCEPT ![p] = Nobody]
    <3>1. Said[p] = Nobody /\ Said' = Said
      BY <1>3 DEF PullOk, Said, Silent, Unsaid
    <3> QED BY <3>1 DEF Said
  <2>3. /\ pc[p] \in Unnamed /\ pc' = [pc EXCEPT ![p] = "fork"] /\ UNCHANGED <<vm, left>>
        /\ \A q \in Tests \ {p} : kind'[q] = kind[q]
    BY <1>3 DEF PullOk, Unnamed, host
  <2> QED BY <1>1, <2>1, <2>2, <2>3 DEF Leased!Next
<1>4. CASE BeginOCI(p)
  <2>1. PhaseOf[p] = "none" /\ PhaseOf' = [PhaseOf EXCEPT ![p] = "none"]
    <3>1. PhaseOf' = [PhaseOf EXCEPT ![p] = Phase["pull"]]
      BY <1>0, <1>4, PhaseFollows DEF BeginOCI, Labels
    <3>2. PhaseOf[p] = "none"
      BY <1>0, <1>4 DEF BeginOCI, Active, Phase
    <3> QED BY <3>1, <3>2 DEF Phase
  <2>2. PhaseOf' = PhaseOf
    BY <2>1 DEF PhaseOf
  <2>3. NameOf' = NameOf
    <3>1. /\ at[p] = Absent /\ UNCHANGED <<got, at>>
          /\ \A q \in Tests \ {p} : kind'[q] = kind[q]
      BY <1>0, <1>4 DEF BeginOCI, Active, Placed, Unnamed, TypeOK
    <3> QED BY <3>1 DEF NameOf, Name
  <2>4. Said' = [Said EXCEPT ![p] = Nobody]
    BY <1>0, <1>4 DEF BeginOCI, Said, Unsaid, TypeOK
  <2>5. vm'.of = vm.of /\ Litter' = Litter
    BY <1>4 DEF BeginOCI, host, Litter
  <2> QED BY <2>1, <2>2, <2>3, <2>4, <2>5 DEF Leased!Next, Leased!Forget
<1>5. CASE PullFailed(p)
  <2>1. PhaseOf[p] = "none" /\ PhaseOf' = [PhaseOf EXCEPT ![p] = "none"]
    <3>1. PhaseOf' = [PhaseOf EXCEPT ![p] = Phase["idle"]]
      BY <1>0, <1>5, PhaseFollows DEF PullFailed, Idle, Labels
    <3>2. PhaseOf[p] = "none"
      BY <1>0, <1>5 DEF PullFailed, Phase
    <3> QED BY <3>1, <3>2 DEF Phase
  <2>2. NameOf[p] = Absent /\ NameOf' = [NameOf EXCEPT ![p] = Absent]
    BY <1>0, <1>5, NameLeft DEF PullFailed, NameOf, Placed, Unnamed
  <2>3. PhaseOf' = PhaseOf /\ NameOf' = NameOf
    BY <2>1, <2>2 DEF PhaseOf, NameOf
  <2>4. vm'.of = vm.of /\ Litter' = Litter /\ Said' = Said
    BY <1>5 DEF PullFailed, host, Litter, Said
  <2> QED BY <2>3, <2>4 DEF Leased!vars
<1> QED BY <1>2, <1>3, <1>4, <1>5

LEMMA MakeIsLease ==
  ASSUME TInv, NEW p \in Tests,
         \/ CreateOverlay(p) \/ KeyReady(p) \/ WriteISO(p) \/ CopyVars(p)
         \/ MakeFailed(p) \/ StartFailed(p)
  PROVE  Leased!Next
<1>0. TypeOK /\ PhaseOf[p] = Phase[pc[p]]
  BY PhaseAt DEF TInv
<1>1. /\ vm'.of = vm.of /\ Said' = Said /\ NameOf' = NameOf
      /\ pc[p] \in {"fork", "key", "iso", "vars", "start"}
  BY NameStays, SaidStays DEF CreateOverlay, KeyReady, WriteISO, CopyVars, MakeFailed,
     StartFailed, Go, host
<1>2. Litter' \in {Litter, Litter \cup {NameOf[p]}}
  <2>1. NameOf[p] = Name(p)
    BY <1>1, NameAt DEF Unnamed
  <2>2. left' = left \/ \E part \in Parts : left' = Made(p, part)
    BY DEF CreateOverlay, KeyReady, WriteISO, CopyVars, MakeFailed, StartFailed, Parts
  <2>3. CASE left' = left
    BY <2>3 DEF Litter
  <2>4. ASSUME NEW part \in Parts, left' = Made(p, part)
        PROVE  Litter' = Litter \cup {Name(p)}
    BY <2>4, LitterGrows
  <2> QED BY <2>1, <2>2, <2>3, <2>4
<1>3. PhaseOf[p] = "making"
  BY <1>0, <1>1 DEF Phase
<1>4. CASE CreateOverlay(p) \/ KeyReady(p) \/ WriteISO(p) \/ CopyVars(p)
  <2>1. PICK l \in {"key", "iso", "vars", "start"} : pc' = [pc EXCEPT ![p] = l]
    BY <1>4 DEF CreateOverlay, KeyReady, WriteISO, CopyVars, Go
  <2>2. PhaseOf' = [PhaseOf EXCEPT ![p] = "making"]
    BY <1>0, <2>1, PhaseFollows DEF Labels, Phase
  <2>3. PhaseOf' = PhaseOf
    BY <1>3, <2>2 DEF PhaseOf
  <2> QED BY <1>1, <1>2, <1>3, <2>3 DEF Leased!Next, Leased!Make, Leased!MayLitter
<1>5. CASE MakeFailed(p) \/ StartFailed(p)
  <2>1. PhaseOf' = [PhaseOf EXCEPT ![p] = "clearing"]
    BY <1>0, <1>5, PhaseFollows DEF MakeFailed, StartFailed, Go, Labels, Phase
  <2> QED
    BY <1>1, <1>2, <1>3, <2>1 DEF Leased!Next, Leased!Fail, Leased!MayLitter, Leased!Becomes
<1> QED BY <1>4, <1>5

LEMMA StartIsLease == ASSUME TInv, NEW p \in Tests, StartVM(p) PROVE Leased!Next
<1>0. TypeOK /\ PhaseOf[p] = Phase[pc[p]]
  BY PhaseAt DEF TInv
<1>1. PhaseOf[p] = "making" /\ PhaseOf' = [PhaseOf EXCEPT ![p] = "using"]
  <2>1. PhaseOf' = [PhaseOf EXCEPT ![p] = Phase["pin"]]
    BY <1>0, PhaseFollows DEF StartVM, Go, Labels
  <2>2. PhaseOf[p] = "making"
    BY <1>0 DEF StartVM, Go, Phase
  <2> QED BY <2>1, <2>2 DEF Phase
<1>2. NameOf' = NameOf /\ Said' = Said
  BY NameStays, SaidStays DEF StartVM, Go
<1>3. Litter' \in {Litter, Litter \cup {NameOf[p]}}
  <2>1. NameOf[p] = Name(p)
    BY NameAt DEF StartVM, Go, Unnamed
  <2>2. left' = left \/ left' = Made(p, "log")
    BY DEF StartVM
  <2>3. left' = left => Litter' = Litter
    BY DEF Litter
  <2>4. left' = Made(p, "log") => Litter' = Litter \cup {Name(p)}
    BY LitterGrows
  <2> QED BY <2>1, <2>2, <2>3, <2>4
<1>4. vm'.of \in IF vm.of = Nobody THEN {Nobody, p} ELSE {vm.of}
  <2>1. vm = NoVM <=> vm.of = Nobody
    BY <1>0, Free
  <2>2. (vm = NoVM /\ vm'.of = p) \/ vm'.of = vm.of
    BY DEF StartVM
  <2> QED BY <2>1, <2>2
<1> QED BY <1>1, <1>2, <1>3, <1>4 DEF Leased!Next, Leased!Use, Leased!MayLitter, Leased!Becomes

LEMMA UseIsLease ==
  ASSUME TInv, NEW p \in Tests,
         PinOk(p) \/ PinGaveUp(p) \/ LoginOk(p) \/ LoginFailed(p) \/ Stopped(p)
  PROVE  Leased!Next \/ UNCHANGED Leased!vars
<1>0. TypeOK /\ PhaseOf[p] = Phase[pc[p]]
  BY PhaseAt DEF TInv
<1>1. vm'.of = vm.of /\ Litter' = Litter /\ NameOf' = NameOf
  BY NameStays DEF PinOk, PinGaveUp, LoginOk, LoginFailed, Stopped, Go, host, Litter
<1>2. PhaseOf[p] = "using"
  <2>1. pc[p] \in {"pin", "verify", "run"}
    BY DEF PinOk, PinGaveUp, LoginOk, LoginFailed, Stopped, Go
  <2> QED BY <1>0, <2>1 DEF Phase
<1>3. ASSUME pc' = [pc EXCEPT ![p] = "reap"]
      PROVE  PhaseOf' = [PhaseOf EXCEPT ![p] = "ending"]
  <2>1. PhaseOf' = [PhaseOf EXCEPT ![p] = Phase["reap"]]
    BY <1>0, <1>3, PhaseFollows DEF Labels
  <2> QED BY <2>1 DEF Phase
<1>4. CASE PinOk(p)
  <2>1. PICK l \in {"verify", "run"} : pc' = [pc EXCEPT ![p] = l]
    BY <1>4 DEF PinOk, Go
  <2>2. PhaseOf' = [PhaseOf EXCEPT ![p] = Phase[l]] /\ Phase[l] = "using"
    <3>1. l \in Labels
      BY DEF Labels
    <3>2. PhaseOf' = [PhaseOf EXCEPT ![p] = Phase[l]]
      BY <1>0, <2>1, <3>1, PhaseFollows
    <3> QED BY <3>2 DEF Phase
  <2>3. PhaseOf' = PhaseOf /\ Said' = Said
    BY <1>2, <1>4, <2>2, SaidStays DEF PhaseOf, PinOk
  <2> QED BY <1>1, <2>3 DEF Leased!vars
<1>5. CASE PinGaveUp(p) \/ LoginFailed(p) \/ Stopped(p)
  <2>1. pc' = [pc EXCEPT ![p] = "reap"] /\ Said' = Said
    BY <1>5, SaidStays DEF PinGaveUp, LoginFailed, Stopped, Go
  <2> QED BY <1>1, <1>2, <1>3, <2>1 DEF Leased!Next, Leased!Stop, Leased!Becomes
<1>6. CASE LoginOk(p)
  <2>1. pc' = [pc EXCEPT ![p] = "reap"] /\ vm # NoVM
    BY <1>6 DEF LoginOk, Go, CanLogIn, NoVM
  <2>2. vm.of # Nobody
    BY <1>0, <2>1, Free
  <2>3. Said' = [Said EXCEPT ![p] = vm.of]
    <3> DEFINE v == [of |-> vm.of, image |-> vm.image, pulled |-> got[p],
                     contested |-> contested[p]]
    <3>1. verdict' = [verdict EXCEPT ![p] = v] /\ v.of = vm.of
      BY <1>6 DEF LoginOk, SaysVerified
    <3> HIDE DEF v
    <3>2. \A q \in Tests : verdict'[q] = IF q = p THEN v ELSE verdict[q]
      BY <1>0, <3>1 DEF TypeOK
    <3>3. \A q \in Tests : verdict'[q].of = IF q = p THEN vm.of ELSE verdict[q].of
      BY <3>1, <3>2
    <3>4. Said' = [q \in Tests |-> IF q = p THEN vm.of ELSE verdict[q].of]
      BY <3>3 DEF Said
    <3> QED BY <3>4 DEF Said
  <2> QED BY <1>1, <1>2, <1>3, <2>1, <2>2, <2>3 DEF Leased!Next, Leased!Say, Leased!Becomes
<1> QED BY <1>4, <1>5, <1>6

(* A test of its own files only: those of its fork's name.                 *)
LEMMA GoneIsLease ==
  ASSUME TInv, NEW p \in Tests, pc[p] \notin Unnamed, Idle(p), verdict' = verdict,
         left' = left \ FilesOf(Name(p))
  PROVE  Leased!Gone(p)
<1>0. TypeOK
  BY DEF TInv
<1>1. PhaseOf' = [PhaseOf EXCEPT ![p] = "none"]
  <2>1. PhaseOf' = [PhaseOf EXCEPT ![p] = Phase["idle"]]
    BY <1>0, PhaseFollows DEF Idle, Labels
  <2> QED BY <2>1 DEF Phase
<1>2. NameOf' = [NameOf EXCEPT ![p] = Absent]
  BY <1>0, NameLeft
<1>3. Litter' = Litter \ {NameOf[p]}
  BY <1>0, NameAt, LitterShrinks
<1> QED BY <1>1, <1>2, <1>3, SaidStays DEF Leased!Gone

LEMMA EndIsLease ==
  ASSUME TInv, NoVMLeftBehind, NEW p \in Tests, Reap(p) \/ Unlink(p)
  PROVE  Leased!Next
<1>0. TypeOK /\ PhaseOf[p] = Phase[pc[p]]
  BY PhaseAt DEF TInv
<1>1. CASE Reap(p)
  <2>1. PhaseOf' = [PhaseOf EXCEPT ![p] = Phase["unlink"]] /\ pc[p] = "reap"
    BY <1>0, <1>1, PhaseFollows DEF Reap, Go, Labels
  <2>2. PhaseOf[p] = "ending" /\ PhaseOf' = [PhaseOf EXCEPT ![p] = "clearing"]
    BY <1>0, <2>1 DEF Phase
  <2>3. NameOf' = NameOf /\ Said' = Said /\ Litter' = Litter
    BY <1>1, NameStays, SaidStays DEF Reap, Go, Litter
  <2>4. vm'.of = IF vm.of = p THEN Nobody ELSE vm.of
    BY <1>0, <1>1 DEF Reap, Dies, NoVM, TypeOK
  <2> QED BY <2>2, <2>3, <2>4 DEF Leased!Next, Leased!Release, Leased!Becomes
<1>2. CASE Unlink(p)
  <2>1. PhaseOf[p] = "clearing" /\ vm'.of = vm.of /\ vm.of # p
    BY <1>0, <1>2 DEF Unlink, host, Phase, NoVMLeftBehind
  <2>2. Leased!Gone(p)
    BY <1>2, GoneIsLease DEF Unlink, Unnamed
  <2> QED BY <2>1, <2>2 DEF Leased!Next, Leased!Leave
<1> QED BY <1>1, <1>2

LEMMA KilledIsLease ==
  ASSUME TInv, NoVMLeftBehind, NEW p \in Tests, Killed(p)
  PROVE  Leased!Next \/ UNCHANGED Leased!vars
<1>0. TypeOK /\ Placed(p) /\ PhaseOf[p] = Phase[pc[p]] /\ pc[p] # "idle"
  BY PhaseAt DEF TInv, Killed, Active
<1>1. vm'.of = IF vm.of = p THEN Outsider ELSE vm.of
  <2>1. CASE mine[p]
    <3>1. vm \in Guests /\ vm' = [vm EXCEPT !.of = Outsider] /\ vm.of = p
      BY <1>0, <2>1 DEF Killed, TypeOK, NoVM
    <3> QED BY <3>1 DEF Guests
  <2>2. CASE ~mine[p]
    BY <1>0, <2>2 DEF Killed, TypeOK
  <2> QED BY <2>1, <2>2
<1>2. CASE pc[p] # "pull"
  <2>1. Leased!Gone(p)
    BY <1>0, <1>2, GoneIsLease DEF Killed, Unnamed
  <2>2. PhaseOf[p] # "none"
    BY <1>0, <1>2 DEF TypeOK, Labels, Phase
  <2> QED BY <1>1, <2>1, <2>2 DEF Leased!Next, Leased!Abandon
<1>3. CASE pc[p] = "pull"
  <2>1. vm'.of = vm.of
    BY <1>1, <1>3 DEF NoVMLeftBehind
  <2>2. at[p] = Absent /\ NameOf' = [NameOf EXCEPT ![p] = Absent] /\ NameOf[p] = Absent
    BY <1>0, <1>3, NameLeft DEF Killed, Placed, Unnamed, NameOf
  <2>3. PhaseOf' = [PhaseOf EXCEPT ![p] = Phase["idle"]]
    BY <1>0, PhaseFollows DEF Killed, Idle, Labels
  <2>4. PhaseOf[p] = "none" /\ Phase["idle"] = "none"
    BY <1>0, <1>3 DEF Phase
  <2>5. PhaseOf' = PhaseOf /\ NameOf' = NameOf
    BY <2>2, <2>3, <2>4 DEF PhaseOf, NameOf
  <2>6. left' = left
    <3>1. \A f \in left : f[1][2] # Absent
      BY <1>0 DEF TypeOK, Names
    <3>2. \A f \in FilesOf(Name(p)) : f[1][2] = Absent
      BY <2>2 DEF FilesOf, Name
    <3> QED BY <3>1, <3>2 DEF Killed
  <2> QED BY <2>1, <2>5, <2>6, SaidStays DEF Killed, Litter, Leased!vars
<1> QED BY <1>2, <1>3

LEMMA GuestIsLease ==
  ASSUME TInv, Clean \/ GuestUp \/ GuestEnds \/ \E p \in Tests : Cancel(p) \/ KillOnCancel(p)
  PROVE  Leased!Next \/ UNCHANGED Leased!vars
<1>0. TypeOK
  BY DEF TInv
<1>1. /\ PhaseOf' = PhaseOf /\ NameOf' = NameOf /\ Said' = Said
      /\ ~Clean => Litter' = Litter
  <2>1. UNCHANGED <<pc, kind, got, at, verdict>> /\ (~Clean => left' = left)
    BY DEF Clean, GuestUp, GuestEnds, Cancel, KillOnCancel, cli
  <2> QED BY <2>1, NameStays, SaidStays DEF PhaseOf, Litter
<1>2. CASE Clean
  <2>1. vm.of = Nobody /\ vm'.of = Nobody /\ Litter' = {}
    BY <1>2 DEF Clean, NoVM, Litter
  <2>2. \A p \in Tests : PhaseOf[p] = "none"
    BY <1>2 DEF Clean, Active, PhaseOf, Phase
  <2> QED BY <1>1, <2>1, <2>2 DEF Leased!Next, Leased!Clean
<1>3. CASE ~Clean
  <2>1. vm'.of \in {vm.of, Nobody}
    BY <1>0, <1>3 DEF GuestUp, GuestEnds, Cancel, KillOnCancel, Dies, NoVM, host, TypeOK, Guests
  <2> QED BY <1>1, <1>3, <2>1 DEF Leased!Next, Leased!GuestEnds, Leased!vars
<1> QED BY <1>2, <1>3

LEMMA StepIsLease ==
  TInv /\ NoVMLeftBehind /\ Silent /\ [Next]_vars => [Leased!Next]_(Leased!vars)
<1> SUFFICES ASSUME TInv, NoVMLeftBehind, Silent, [Next]_vars
             PROVE  Leased!Next \/ UNCHANGED Leased!vars
  OBVIOUS
<1>1. CASE UNCHANGED vars
  BY <1>1 DEF vars, cli, host, Leased!vars, PhaseOf, NameOf, Name, Litter, Said
<1>2. CASE Next
  BY <1>2, BeginIsLease, MakeIsLease, StartIsLease, UseIsLease, EndIsLease, KilledIsLease,
     GuestIsLease DEF Next
<1> QED BY <1>1, <1>2

(* However many tests share the port and the runtime directory, and        *)
(* however each one ends: none takes a port that is held or ends another's *)
(* guest, each is rid of its own guest and files before it ends, and what  *)
(* it says, it says of the guest that has the port.                        *)
THEOREM Refinement == Spec => Implements
<1>1. Init => NoVMLeftBehind /\ Silent
  BY DEF Init, NoVMLeftBehind, NoVM, Silent
<1>2. Init => Leased!Init
  BY DEF Init, NoVM, Unsaid, PhaseOf, Phase, NameOf, Litter, Said, Leased!Init
<1> QED
  BY <1>1, <1>2, InitTypes, StepTypes, StepVM, StepSilent, StepIsLease, PTL
     DEF Spec, Implements, Leased!Spec
=============================================================================

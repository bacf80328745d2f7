-------------------------------- MODULE Lease --------------------------------
(***************************************************************************)
(* What one throwaway test may do to what it shares with every other       *)
(* command: it takes the port only when it is free, gives up its own guest *)
(* and never another's, makes files of one name only while it is making    *)
(* its fork, and is gone only when neither is left.  What it says, it says *)
(* of the guest that has the port.  No steps, no errors, no kinds of test: *)
(* TestFork implements this.                                               *)
(***************************************************************************)
CONSTANTS Tests, Names, NoName, Nobody, Outsider

VARIABLES
  phase,      \* of each test
  name,       \* what its files are named
  holder,     \* whose guest has the port
  litter,     \* the names some file has
  said        \* whose guest a test last spoke of

vars == <<phase, name, holder, litter, said>>

Phases == {"none", "making", "using", "ending", "clearing"}

Init ==
  /\ phase = [p \in Tests |-> "none"] /\ name = [p \in Tests |-> NoName]
  /\ holder = Nobody /\ litter = {}
  /\ said = [p \in Tests |-> Nobody]

Becomes(p, from, to) == phase[p] = from /\ phase' = [phase EXCEPT ![p] = to]

MayLitter(p) == litter' \in {litter, litter \cup {name[p]}}

Forget(p) ==
  /\ phase[p] = "none"
  /\ said' = [said EXCEPT ![p] = Nobody]
  /\ UNCHANGED <<phase, name, holder, litter>>

Enter(p) ==
  /\ Becomes(p, "none", "making") /\ holder # p
  /\ \E n \in Names : name' = [name EXCEPT ![p] = n]
  /\ said' = [said EXCEPT ![p] = Nobody]
  /\ UNCHANGED <<holder, litter>>

Make(p) ==
  /\ phase[p] = "making" /\ MayLitter(p)
  /\ UNCHANGED <<phase, name, holder, said>>

Fail(p) ==
  /\ Becomes(p, "making", "clearing") /\ MayLitter(p)
  /\ UNCHANGED <<name, holder, said>>

(* With the port or, if somebody has it, without: nothing looks. *)
Use(p) ==
  /\ Becomes(p, "making", "using") /\ MayLitter(p)
  /\ holder' \in IF holder = Nobody THEN {Nobody, p} ELSE {holder}
  /\ UNCHANGED <<name, said>>

Say(p) ==
  /\ Becomes(p, "using", "ending")
  /\ holder # Nobody
  /\ said' = [said EXCEPT ![p] = holder]
  /\ UNCHANGED <<name, holder, litter>>

Stop(p) == Becomes(p, "using", "ending") /\ UNCHANGED <<name, holder, litter, said>>

Release(p) ==
  /\ Becomes(p, "ending", "clearing")
  /\ holder' = IF holder = p THEN Nobody ELSE holder
  /\ UNCHANGED <<name, litter, said>>

(* Another test's files of the same name go too. *)
Gone(p) ==
  /\ phase' = [phase EXCEPT ![p] = "none"]
  /\ name' = [name EXCEPT ![p] = NoName]
  /\ litter' = litter \ {name[p]}
  /\ UNCHANGED said

Leave(p) == phase[p] = "clearing" /\ holder # p /\ Gone(p) /\ UNCHANGED holder

(* Killed: its guest is nobody's, and the files nobody will read. *)
Abandon(p) ==
  /\ phase[p] # "none" /\ Gone(p)
  /\ holder' = IF holder = p THEN Outsider ELSE holder

(* A guest ends by itself, or with the context of its test. *)
GuestEnds == holder' = Nobody /\ UNCHANGED <<phase, name, litter, said>>

Clean ==
  /\ holder = Nobody /\ \A p \in Tests : phase[p] = "none"
  /\ litter' = {}
  /\ UNCHANGED <<phase, name, holder, said>>

Next ==
  \/ \E p \in Tests :
       \/ Forget(p) \/ Enter(p) \/ Make(p) \/ Fail(p) \/ Use(p)
       \/ Say(p) \/ Stop(p) \/ Release(p) \/ Leave(p) \/ Abandon(p)
  \/ GuestEnds \/ Clean

Spec == Init /\ [][Next]_vars
=============================================================================

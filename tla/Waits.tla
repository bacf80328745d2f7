-------------------------------- MODULE Waits --------------------------------
(***************************************************************************)
(* What the waits for a guest promise to the commands that use them: the   *)
(* host key is that of the guest on the port when it was pinned, and a     *)
(* wait ends well only on a guest that then takes the login and has done   *)
(* what was waited for.  A sealing command otherwise fails for a cause.    *)
(* No attempts, pauses or sessions: SealPipeline takes its waits as these  *)
(* steps, and Access implements them.                                      *)
(***************************************************************************)
CONSTANTS Keys, NoKey, Commands

VARIABLES
  at,         \* "idle", "pin" (for a host key) or "wait" (for the guest)
  cmd,        \* "seal" waits for cloud-init, "verify" for one login
  result,     \* how the last command's wait ended
  over,       \* the wait's time is up, or the user pressed Ctrl-C
  pinned,     \* the keys strict checking accepts for the port
  vm          \* the guest on the port

command == <<at, cmd, result, over>>
vars == <<command, pinned, vm>>

NoVM == [key |-> NoKey, stage |-> "off", authorized |-> FALSE]

Listens == vm.stage \in {"up", "failed", "done"}
CanLogIn == Listens /\ vm.key \in pinned /\ vm.authorized

Init ==
  /\ at = "idle" /\ cmd = "none" /\ result = "none" /\ over = FALSE
  /\ pinned = {} /\ vm = NoVM

End(r) == at' = "idle" /\ cmd' = "none" /\ result' = r /\ over' = FALSE

Start(c) ==
  /\ at = "idle" /\ vm = NoVM
  /\ at' = "pin" /\ cmd' = c /\ result' = "none" /\ over' = FALSE
  /\ pinned' = {}
  /\ \E k \in Keys : vm' = [key |-> k, stage |-> "boot", authorized |-> FALSE]

PinOk ==
  /\ at = "pin" /\ Listens /\ ~over
  /\ at' = "wait" /\ pinned' = {vm.key}
  /\ UNCHANGED <<cmd, result, over, vm>>

(* To run --seal and pipeline only a warning; their next wait has a time   *)
(* of its own, but Ctrl-C lasts.                                           *)
PinGaveUp ==
  /\ at = "pin" /\ over
  /\ \/ cmd = "seal" /\ at' = "wait" /\ over' \in BOOLEAN /\ UNCHANGED <<cmd, result>>
     \/ cmd = "verify" /\ End("failed")
  /\ UNCHANGED <<pinned, vm>>

CloudInitDone ==
  /\ at = "wait" /\ cmd = "seal" /\ CanLogIn /\ vm.stage = "done"
  /\ End("ok")
  /\ UNCHANGED <<pinned, vm>>

LoggedIn ==
  /\ at = "wait" /\ cmd = "verify" /\ CanLogIn
  /\ End("ok")
  /\ UNCHANGED <<pinned, vm>>

(* The causes of a sealing command; a test's single login needs none. *)
WaitFailed ==
  /\ at = "wait"
  /\ cmd = "seal" => over \/ (CanLogIn /\ vm.stage = "failed")
  /\ End("failed")
  /\ UNCHANGED <<pinned, vm>>

Expire ==
  /\ at # "idle" /\ ~over /\ over' = TRUE
  /\ UNCHANGED <<at, cmd, result, pinned, vm>>

GuestBecomes(g) == vm' = g /\ UNCHANGED <<command, pinned>>

Boots == vm.stage = "boot" /\ GuestBecomes([vm EXCEPT !.stage = "up"])
KeyInstalled ==
  /\ Listens /\ ~vm.authorized
  /\ GuestBecomes([key |-> vm.key, stage |-> vm.stage, authorized |-> TRUE])
CloudInitEnds ==
  /\ vm.stage = "up" /\ vm.authorized
  /\ \E s \in {"failed", "done"} : GuestBecomes([vm EXCEPT !.stage = s])
Vanishes == vm # NoVM /\ GuestBecomes(NoVM)

Next ==
  \/ \E c \in Commands : Start(c)
  \/ PinOk \/ PinGaveUp \/ CloudInitDone \/ LoggedIn \/ WaitFailed \/ Expire
  \/ Boots \/ KeyInstalled \/ CloudInitEnds \/ Vanishes

Spec == Init /\ [][Next]_vars
=============================================================================

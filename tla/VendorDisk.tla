------------------------------ MODULE VendorDisk ------------------------------
(***************************************************************************)
(* What `astroimg download` promises about the two files other commands    *)
(* read, whatever its invocations run into: an image is published once,    *)
(* then accepted, removed or left unchecked; the base disk is made once,   *)
(* of that image and never of one whose answer is still out, and neither   *)
(* is touched again before `clean` -- nor is a disk that was left          *)
(* unfinished.  BaseDisk implements this.                                  *)
(***************************************************************************)
CONSTANTS Images, Absent

VARIABLES
  image,      \* the downloaded image
  disk        \* the base disk

files == <<image, disk>>

Image == [of : Images, trust : {"published", "accepted", "unchecked"}]
Disk == [of : Images, state : {"making", "ready", "abandoned"}]

Init == image = Absent /\ disk = Absent

Becomes(trust) == image' = [of |-> image.of, trust |-> trust]

(* Once the image is accepted a missing disk is begun at once. *)
Begun(i) == disk' = IF disk = Absent THEN [of |-> i, state |-> "making"] ELSE disk

(* Where the distro publishes no manifest there is nothing to wait for. *)
Publish ==
  /\ image = Absent
  /\ \E i \in Images :
       \/ image' = [of |-> i, trust |-> "published"] /\ disk' = disk
       \/ image' = [of |-> i, trust |-> "accepted"] /\ Begun(i)

Published == image # Absent /\ image.trust = "published"

Accept == Published /\ Becomes("accepted") /\ Begun(image.of)
Reject == Published /\ image' = Absent /\ disk' = disk
Slip == Published /\ Becomes("unchecked") /\ disk' = disk

Begin ==
  /\ image # Absent /\ image.trust # "published"
  /\ disk = Absent /\ Begun(image.of)
  /\ image' = image

Making == disk # Absent /\ disk.state = "making"

Finish ==
  /\ Making
  /\ disk' = [of |-> disk.of, state |-> "ready"]
  /\ image' = image

Abandon ==
  /\ Making
  /\ disk' \in {Absent, [of |-> disk.of, state |-> "abandoned"]}
  /\ image' = image

Clean == image' = Absent /\ disk' = Absent

Next ==
  Publish \/ Accept \/ Reject \/ Slip \/ Begin \/ Finish \/ Abandon \/ Clean

Spec == Init /\ [][Next]_files
=============================================================================

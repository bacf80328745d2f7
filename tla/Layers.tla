------------------------------- MODULE Layers -------------------------------
(***************************************************************************)
(* What a layer's artifact stands on.  A layer is built in a copy-on-write *)
(* overlay over its source image and, unless flattened, packaged as a      *)
(* delta whose backing file is named, not identified: the file under that  *)
(* name may be rebuilt in place, and `push` bundles the file the flags     *)
(* name (cmd/astroimg/run.go createInstanceDisk, build.go, pipeline.go     *)
(* --all, push.go, helpers.go, internal/config/config.go Resolve).         *)
(*                                                                         *)
(* One command runs at a time and may fail, or be killed, at every step.   *)
(* Booting and sealing is one step here; SealPipeline is about its inside. *)
(***************************************************************************)
EXTENDS Naturals, Sequences

CONSTANTS Layers,       \* the distro's layers
          Base,         \* its base image
          Sources,      \* images --layer-base-image may name
          AllOrder,     \* base, then the layers as os.ReadDir lists them
          NoTarget,     \* no backing file; no target
          Bundled,      \* the backing file name "base.qcow2"
          Absent,       \* no such file
          MaxBuilds     \* bound: images packaged in a behaviour

Targets == Layers \cup {Base}

ASSUME TargetAssumption ==
  /\ Base \notin Layers
  /\ NoTarget \notin Targets /\ Bundled \notin Targets /\ NoTarget # Bundled
ASSUME SourcesAssumption == Sources \subseteq Targets
ASSUME OrderAssumption ==
  /\ AllOrder \in Seq(Targets) /\ AllOrder # <<>> /\ Head(AllOrder) = Base
  /\ \A i \in 2 .. Len(AllOrder) : AllOrder[i] \in Layers
ASSUME BoundAssumption == MaxBuilds \in Nat

(* An image: its content's identity, whether it was written to its end and *)
(* holds what the guest saw, the backing file its header names, and the    *)
(* content that file had when the delta was recorded.                      *)
Image == [id : Nat, whole : BOOLEAN, good : BOOLEAN,
          backing : Targets \cup {NoTarget, Bundled}, over : Nat]
Overlay == [src : Targets, over : Nat]

(* The two staged files, and whether image.qcow2 is the artifact's own     *)
(* file under a second name.                                               *)
NoImages == [image |-> Absent, base |-> Absent, linked |-> FALSE]
ImageSet == [image : Image \cup {Absent}, base : Image \cup {Absent},
             linked : BOOLEAN]

ASSUME AbsentAssumption == Absent \notin Image \cup Overlay

VARIABLES
  job,    \* the command: kind, target, --layer-base-image, source, --flatten
  pc,     \* where it is
  todo,   \* pipeline --all: targets still to build
  fresh,  \* the running pipeline made its overlay itself
  ended,  \* how the last command ended
  art,    \* build/<FinalImageName> of each target
  inst,   \* each layer's InstanceDisk
  stage,  \* push's staging directory
  built   \* packaged images so far

command == <<job, pc, todo, fresh, ended>>
vars == <<command, art, inst, stage, built>>

NoJob == [kind |-> "none", of |-> NoTarget, flag |-> NoTarget,
          src |-> NoTarget, flat |-> FALSE]
Jobs == [kind : {"none", "pipeline", "all", "push"},
         of : Targets \cup {NoTarget}, flag : Targets \cup {NoTarget},
         src : Targets \cup {NoTarget}, flat : BOOLEAN]
Labels == {"idle", "clone", "seal", "stat", "convert", "remove", "inspect",
           "image", "rebase", "upload"}

TypeOK ==
  /\ job \in Jobs /\ pc \in Labels /\ todo \in Seq(Targets)
  /\ fresh \in BOOLEAN /\ ended \in {"none", "ok", "all", "over", "error"}
  /\ art \in [Targets -> Image \cup {Absent}]
  /\ inst \in [Layers -> Overlay \cup {Absent}]
  /\ stage \in ImageSet
  /\ pc = "idle" => job = NoJob /\ stage = NoImages
  /\ built \in Nat

Init ==
  /\ job = NoJob /\ pc = "idle" /\ todo = <<>> /\ fresh = FALSE
  /\ ended = "none"
  /\ art = [t \in Targets |-> Absent] /\ inst = [l \in Layers |-> Absent]
  /\ stage = NoImages /\ built = 0

-----------------------------------------------------------------------------
(* Whether what a reader of an image sees is what was built: every image   *)
(* down the chain is there, finished, and the one the next was made over.  *)
Sound(t) == art[t] # Absent /\ art[t].whole /\ art[t].good

StandsOn(t) ==
  art[t].backing # NoTarget =>
    /\ art[t].backing \in Targets /\ art[art[t].backing] # Absent
    /\ art[art[t].backing].id = art[t].over

Coherent(t) ==
  \E chain \in SUBSET Targets :
    /\ t \in chain
    /\ \A x \in chain :
         /\ Sound(x) /\ StandsOn(x)
         /\ art[x].backing # NoTarget => art[x].backing \in chain

OverlayCoherent(l) ==
  /\ inst[l].src \in Targets /\ Coherent(inst[l].src)
  /\ art[inst[l].src].id = inst[l].over

(* What a tag pulls to lands as image.qcow2 and base.qcow2 in one          *)
(* directory, and nothing else is there.                                   *)
Boots(files) ==
  /\ files.image # Absent /\ files.image.whole /\ files.image.good
  /\ files.image.backing # NoTarget =>
       /\ files.image.backing = Bundled
       /\ files.base # Absent /\ files.base.whole /\ files.base.good
       /\ files.base.id = files.image.over
       /\ files.base.backing = NoTarget

-----------------------------------------------------------------------------
Goto(from, to) ==
  /\ pc = from /\ pc' = to
  /\ UNCHANGED <<job, todo, ended>>

(* Mutant of End: push leaves its staging directory behind. *)
EndKeepsStaging(how) ==
  /\ pc' = "idle" /\ job' = NoJob /\ todo' = <<>> /\ fresh' = FALSE
  /\ ended' = how
  /\ UNCHANGED stage

(* The command ends.  push's deferred RemoveAll clears the staging area.   *)
End(how) ==
  /\ pc' = "idle" /\ job' = NoJob /\ todo' = <<>> /\ fresh' = FALSE
  /\ ended' = how
  /\ stage' = NoImages

(* config.Resolve: a base build's source is its base disk (no image here), *)
(* a layer's is what --layer-base-image names, or the distro's base.       *)
Source(t, flag) ==
  IF t = Base THEN NoTarget ELSE IF flag = NoTarget THEN Base ELSE flag

(* Mutant of PipelineAll: the base comes after its layers. *)
LayersBeforeBase(flag, flat) ==
  /\ pc = "idle"
  /\ job' = [kind |-> "all", of |-> AllOrder[2], flag |-> flag,
             src |-> Source(AllOrder[2], flag), flat |-> flat]
  /\ pc' = "clone" /\ ended' = "none" /\ fresh' = TRUE
  /\ todo' = Tail(Tail(AllOrder)) \o <<Head(AllOrder)>>
  /\ UNCHANGED <<art, inst, stage, built>>

(* pipeline for one target, with or without --layer-base-image, --flatten. *)
Pipeline(t, flag, flat) ==
  /\ pc = "idle"
  /\ job' = [kind |-> "pipeline", of |-> t, flag |-> flag,
             src |-> Source(t, flag), flat |-> flat]
  /\ pc' = "clone" /\ todo' = <<>> /\ ended' = "none" /\ fresh' = FALSE
  /\ UNCHANGED <<art, inst, stage, built>>

(* pipeline --all: the base first, then every layer -- over it, unless     *)
(* --layer-base-image, which --all does not reject, names another image.   *)
PipelineAll(flag, flat) ==
  /\ pc = "idle"
  /\ job' = [kind |-> "all", of |-> Head(AllOrder), flag |-> flag,
             src |-> Source(Head(AllOrder), flag), flat |-> flat]
  /\ pc' = "clone" /\ todo' = Tail(AllOrder) /\ ended' = "none"
  /\ fresh' = TRUE
  /\ UNCHANGED <<art, inst, stage, built>>

(* prepareVMDisks: a source image that exists, then an overlay over it -- *)
(* or whatever overlay is there.  A base build clones its base disk.       *)
SourceMissing ==
  /\ pc = "clone" /\ job.of # Base /\ art[job.src] = Absent
  /\ End("error")
  /\ UNCHANGED <<art, inst, built>>

CloneBase ==
  /\ Goto("clone", "seal") /\ job.of = Base
  /\ UNCHANGED <<fresh, art, inst, stage, built>>

NewOverlay ==
  /\ Goto("clone", "seal")
  /\ job.of # Base /\ art[job.src] # Absent /\ inst[job.of] = Absent
  /\ inst' = [inst EXCEPT ![job.of] =
                [src |-> job.src, over |-> art[job.src].id]]
  /\ fresh' = IF job.kind = "all" THEN fresh ELSE TRUE
  /\ UNCHANGED <<art, stage, built>>

OldOverlay ==
  /\ Goto("clone", "seal")
  /\ job.of # Base /\ art[job.src] # Absent /\ inst[job.of] # Absent
  /\ fresh' = FALSE
  /\ UNCHANGED <<art, inst, stage, built>>

(* Boot, provision, sysprep, power off: it works or the pipeline fails.    *)
Sealed ==
  /\ Goto("seal", "stat")
  /\ UNCHANGED <<fresh, art, inst, stage, built>>

Fails ==
  /\ pc \in {"clone", "seal", "stat", "inspect", "image", "rebase", "upload"}
  /\ End("error")
  /\ UNCHANGED <<art, inst, built>>

(* doBuild's qemu-img convert truncates the artifact in place, then writes *)
(* it: a whole image for the base and with --flatten, else the delta, with *)
(* the source image's file name as its backing file.                       *)
Partial == [id |-> 0, whole |-> FALSE, good |-> FALSE, backing |-> NoTarget,
            over |-> 0]

ConvertStarts ==
  /\ Goto("stat", "convert")
  /\ built < MaxBuilds
  /\ art' = [art EXCEPT ![job.of] = Partial]
  /\ UNCHANGED <<fresh, inst, stage, built>>

(* Mutant of Packaged: the delta's backing file is the distro's base, not  *)
(* the image --layer-base-image names.                                     *)
PackagedOverBase(t) ==
  [id |-> built + 1, whole |-> TRUE, good |-> TRUE,
   backing |-> Source(t, NoTarget),
   over |-> IF t = Base THEN 0 ELSE inst[t].over]

Packaged(t) ==
  IF t = Base
  THEN [id |-> built + 1, whole |-> TRUE, good |-> TRUE,
        backing |-> NoTarget, over |-> 0]
  ELSE IF job.flat
  THEN [id |-> built + 1, whole |-> TRUE, good |-> OverlayCoherent(t),
        backing |-> NoTarget, over |-> 0]
  ELSE [id |-> built + 1, whole |-> TRUE, good |-> TRUE,
        backing |-> job.src, over |-> inst[t].over]

ConvertEnds ==
  /\ Goto("convert", "remove")
  /\ art' = [art EXCEPT ![job.of] = Packaged(job.of)]
  /\ built' = built + 1
  /\ UNCHANGED <<fresh, inst, stage>>

ConvertFails ==
  /\ pc = "convert"
  /\ End("error")
  /\ UNCHANGED <<art, inst, built>>

(* The instance disk goes, and --all takes the next target.  "over": every *)
(* layer was asked for over an image other than the base --all built.      *)
Finish ==
  /\ pc = "remove"
  /\ inst' = IF job.of = Base THEN inst ELSE [inst EXCEPT ![job.of] = Absent]
  /\ \/ /\ todo # <<>>
        /\ job' = [job EXCEPT !.of = Head(todo),
                              !.src = Source(Head(todo), job.flag)]
        /\ pc' = "clone" /\ todo' = Tail(todo)
        /\ UNCHANGED <<fresh, ended, stage>>
     \/ /\ todo = <<>>
        /\ pc' = "idle" /\ job' = NoJob /\ stage' = NoImages
        /\ ended' = IF job.kind # "all" THEN "ok"
                    ELSE IF job.flag \in {NoTarget, Base} THEN "all"
                    ELSE "over"
        /\ UNCHANGED <<todo, fresh>>
  /\ UNCHANGED <<art, built>>

-----------------------------------------------------------------------------
(* `astroimg push`, with the flags of the day. *)
Push(t, flag) ==
  /\ pc = "idle"
  /\ job' = [kind |-> "push", of |-> t, flag |-> flag,
             src |-> Source(t, flag), flat |-> FALSE]
  /\ pc' = "inspect" /\ todo' = <<>> /\ ended' = "none" /\ fresh' = FALSE
  /\ UNCHANGED <<art, inst, stage, built>>

(* An artifact without a backing file is staged as a hard link, or a copy  *)
(* where the file system has none; with one, the image the flags call its  *)
(* source is staged as base.qcow2.                                         *)
StageAlone ==
  /\ Goto("inspect", "upload")
  /\ art[job.of] # Absent
  /\ job.of = Base \/ art[job.of].backing = NoTarget
  /\ \E linked \in BOOLEAN :
       stage' = [stage EXCEPT !.image = art[job.of], !.linked = linked]
  /\ UNCHANGED <<fresh, art, inst, built>>

StageBase ==
  /\ Goto("inspect", "image")
  /\ art[job.of] # Absent /\ job.of # Base /\ art[job.of].backing # NoTarget
  /\ art[job.src] # Absent
  /\ stage' = [stage EXCEPT !.base = art[job.src]]
  /\ UNCHANGED <<fresh, art, inst, built>>

(* Mutant of StageImage: the layer is linked too, where it can be. *)
LinkImage ==
  /\ Goto("image", "rebase")
  /\ \E linked \in BOOLEAN :
       stage' = [stage EXCEPT !.image = art[job.of], !.linked = linked]
  /\ UNCHANGED <<fresh, art, inst, built>>

(* The layer itself is copied, never linked: what follows writes to it. *)
StageImage ==
  /\ Goto("image", "rebase")
  /\ stage' = [stage EXCEPT !.image = art[job.of]]
  /\ UNCHANGED <<fresh, art, inst, built>>

(* Mutant of Rebase: it is left out. *)
NoRebase ==
  /\ Goto("rebase", "upload")
  /\ UNCHANGED <<fresh, art, inst, stage, built>>

(* qemu-img rebase -u writes to the file itself: only the backing file's   *)
(* name in its header changes, for every name the file has.                *)
Rebase ==
  /\ Goto("rebase", "upload")
  /\ stage' = [stage EXCEPT !.image.backing = Bundled]
  /\ art' = IF stage.linked THEN [art EXCEPT ![job.of].backing = Bundled]
            ELSE art
  /\ UNCHANGED <<fresh, inst, built>>

(* oras push: what is staged is what the target's tag pulls to, all or     *)
(* nothing.                                                                *)
Upload ==
  /\ pc = "upload"
  /\ End("ok")
  /\ UNCHANGED <<art, inst, built>>

-----------------------------------------------------------------------------
(* kill -9 leaves everything where it is, the staging directory included;  *)
(* no later command reads that one.                                        *)
Killed ==
  /\ pc # "idle"
  /\ End("error")
  /\ UNCHANGED <<art, inst, built>>

(* `astroimg clean`: the overlays go, the artifacts stay. *)
Clean ==
  /\ pc = "idle"
  /\ inst' = [l \in Layers |-> Absent]
  /\ UNCHANGED <<command, art, stage, built>>

Next ==
  \/ \E t \in Targets, flag \in Sources \cup {NoTarget} :
       Push(t, flag) \/ \E flat \in BOOLEAN : Pipeline(t, flag, flat)
  \/ \E flag \in Sources \cup {NoTarget}, flat \in BOOLEAN :
       PipelineAll(flag, flat)
  \/ SourceMissing \/ CloneBase \/ NewOverlay \/ OldOverlay \/ Sealed
  \/ ConvertStarts \/ ConvertEnds \/ ConvertFails \/ Finish \/ Fails
  \/ StageAlone \/ StageBase \/ StageImage \/ Rebase \/ Upload
  \/ Killed \/ Clean

Spec == Init /\ [][Next]_vars

-----------------------------------------------------------------------------
(* "the build/ artifact must stay byte-identical and unmutated"            *)
(* (push.go:48-49): no step of a push changes an artifact or an overlay,   *)
(* though it links artifacts into its staging directory and writes there.  *)
PushOnlyReads ==
  [][job.kind = "push" => UNCHANGED <<art, inst>>]_vars

(* A pipeline that made its overlay itself, over an image that holds       *)
(* together, leaves a layer that does.                                     *)
FreshLayerCoherent ==
  pc = "remove" /\ job.of # Base /\ fresh /\ Coherent(job.src) =>
    Coherent(job.of)

(* pipeline --all leaves a distro whose images all hold together, unless   *)
(* it picked up an overlay some earlier run had left (fresh), or was told  *)
(* to build its layers over another image (ended is "over").               *)
AllCoherentUnlessReused ==
  ended = "all" /\ fresh =>
    \A i \in 1 .. Len(AllOrder) : Coherent(AllOrder[i])

(* What push uploads for a coherent artifact -- one that stands alone, or  *)
(* a delta over a self-contained image that the flags name -- is bootable  *)
(* as pulled.                                                              *)
PushedBoots ==
  /\ pc = "upload" /\ Coherent(job.of)
  /\ art[job.of].backing # NoTarget =>
       art[job.of].backing = job.src /\ art[job.src].backing = NoTarget
  => Boots(stage)

-----------------------------------------------------------------------------
(* What the code's own words claim.                                        *)

(* "for each distro, builds its base image first, then every one of its    *)
(* layers in turn" (pipeline.go:24-26): a finished --all whose flags name  *)
(* no other image leaves images built on the base it built.                *)
AllCoherent ==
  ended = "all" => \A i \in 1 .. Len(AllOrder) : Coherent(AllOrder[i])
=============================================================================

---------------------------- MODULE Layers_proofs ----------------------------
(***************************************************************************)
(* Which images hold together, in Layers, for any layers, sources they may *)
(* name, order of --all and number of builds.                              *)
(***************************************************************************)
EXTENDS Layers, TLAPS

USE TargetAssumption, AbsentAssumption, SourcesAssumption

Packing == {"clone", "seal", "stat", "convert", "remove"}
Pushing == {"inspect", "image", "rebase", "upload"}

(* What a command is and holds at a label.                                 *)
Placed ==
  /\ pc \in Packing => job.kind \in {"pipeline", "all"}
  /\ pc \in Pushing => job.kind = "push"
  /\ pc # "idle" => job.of \in Targets
  /\ pc # "idle" => job.src = Source(job.of, job.flag)
  /\ pc \in Packing \ {"clone"} /\ job.of # Base => inst[job.of] # Absent
  /\ pc = "image" => art[job.of] # Absent
  /\ pc \in {"rebase", "upload"} => stage.image # Absent
  /\ pc # "upload" => ~stage.linked
  /\ ended \in {"all", "over"} => pc = "idle"
  /\ pc # "idle" => ended = "none"

TInv == TypeOK /\ Placed

LEMMA Nothing ==
  /\ NoJob \in Jobs /\ NoJob.kind = "none"
  /\ NoImages \in ImageSet /\ ~NoImages.linked
  /\ <<>> \in Seq(Targets)
<1>1. NoJob \in Jobs /\ NoJob.kind = "none"
  BY DEF NoJob, Jobs
<1>2. NoImages \in ImageSet /\ ~NoImages.linked
  BY DEF NoImages, ImageSet
<1>3. <<>> \in Seq(Targets)
  OBVIOUS
<1> QED BY <1>1, <1>2, <1>3

LEMMA Sourced ==
  ASSUME NEW t \in Targets, NEW flag \in Targets \cup {NoTarget}
  PROVE  IF t = Base THEN Source(t, flag) = NoTarget ELSE Source(t, flag) \in Targets
BY DEF Source, Targets

(* What is read of a layer's source while its command runs.                *)
LEMMA SourceKnown ==
  ASSUME TInv, pc # "idle"
  PROVE  IF job.of = Base THEN job.src = NoTarget ELSE job.src \in Targets
<1>1. job.of \in Targets /\ job.flag \in Targets \cup {NoTarget}
      /\ job.src = Source(job.of, job.flag)
  BY DEF TInv, TypeOK, Placed, Jobs
<1> QED BY <1>1, Sourced

LEMMA InitTypes == Init => TInv
<1> SUFFICES ASSUME Init PROVE TInv
  OBVIOUS
<1>1. TypeOK
  BY Nothing DEF Init, TypeOK, Labels
<1>2. Placed
  BY Nothing DEF Init, Placed, Packing, Pushing
<1> QED BY <1>1, <1>2 DEF TInv

LEMMA Ending ==
  ASSUME TInv, NEW how \in {"ok", "error"}, End(how), UNCHANGED <<art, inst, built>>
  PROVE  TInv'
BY Nothing DEF TInv, TypeOK, Placed, Packing, Pushing, End, Labels

LEMMA BeginTypes ==
  ASSUME TInv,
         \/ \E t \in Targets, flag \in Sources \cup {NoTarget} :
              Push(t, flag) \/ \E flat \in BOOLEAN : Pipeline(t, flag, flat)
         \/ \E flag \in Sources \cup {NoTarget}, flat \in BOOLEAN : PipelineAll(flag, flat)
  PROVE  TInv'
<1> USE DEF TInv, TypeOK, Placed, Packing, Pushing, Labels
<1>0. \A flag \in Sources \cup {NoTarget} : flag \in Targets \cup {NoTarget}
  BY SourcesAssumption
<1>1. ASSUME NEW t \in Targets, NEW flag \in Sources \cup {NoTarget}, Push(t, flag)
      PROVE  TInv'
  <2>1. Source(t, flag) \in Targets \cup {NoTarget}
    BY <1>0, Sourced
  <2>2. job' \in Jobs /\ job'.kind = "push" /\ job'.of = t /\ job'.src = Source(t, flag)
        /\ job'.flag = flag
    BY <1>0, <1>1, <2>1 DEF Push, Jobs
  <2>3. pc' = "inspect" /\ todo' = <<>> /\ ended' = "none" /\ fresh' = FALSE
        /\ UNCHANGED <<art, inst, stage, built>>
    BY <1>1 DEF Push
  <2> QED BY Nothing, <1>1, <2>2, <2>3 DEF Push
<1>2. ASSUME NEW t \in Targets, NEW flag \in Sources \cup {NoTarget}, NEW flat \in BOOLEAN,
             Pipeline(t, flag, flat)
      PROVE  TInv'
  <2>1. Source(t, flag) \in Targets \cup {NoTarget}
    BY <1>0, Sourced
  <2>2. job' \in Jobs /\ job'.kind = "pipeline" /\ job'.of = t /\ job'.src = Source(t, flag)
        /\ job'.flag = flag
    BY <1>0, <1>2, <2>1 DEF Pipeline, Jobs
  <2>3. pc' = "clone" /\ todo' = <<>> /\ ended' = "none" /\ fresh' = FALSE
        /\ UNCHANGED <<art, inst, stage, built>>
    BY <1>2 DEF Pipeline
  <2> QED BY Nothing, <1>2, <2>2, <2>3 DEF Pipeline
<1>3. ASSUME NEW flag \in Sources \cup {NoTarget}, NEW flat \in BOOLEAN, PipelineAll(flag, flat)
      PROVE  TInv'
  <2>1. Head(AllOrder) = Base /\ Base \in Targets /\ Tail(AllOrder) \in Seq(Targets)
    BY OrderAssumption DEF Targets
  <2>2. Source(Base, flag) \in Targets \cup {NoTarget}
    BY <1>0, <2>1, Sourced
  <2>3. job' \in Jobs /\ job'.kind = "all" /\ job'.of = Base /\ job'.src = Source(Base, flag)
        /\ job'.flag = flag
    BY <1>0, <1>3, <2>1, <2>2 DEF PipelineAll, Jobs
  <2>4. pc' = "clone" /\ todo' \in Seq(Targets) /\ ended' = "none" /\ fresh' = TRUE
        /\ UNCHANGED <<art, inst, stage, built>>
    BY <1>3, <2>1 DEF PipelineAll
  <2> QED BY <1>3, <2>1, <2>3, <2>4 DEF PipelineAll
<1> QED BY <1>1, <1>2, <1>3

LEMMA CloneTypes ==
  ASSUME TInv, SourceMissing \/ CloneBase \/ NewOverlay \/ OldOverlay \/ Sealed
  PROVE  TInv'
<1> USE DEF TInv, TypeOK, Placed, Packing, Pushing, Labels, Goto
<1>1. CASE SourceMissing
  BY <1>1, Ending DEF SourceMissing
<1>2. CASE CloneBase
  BY <1>2 DEF CloneBase
<1>3. CASE NewOverlay
  <2>1. job.of \in Layers /\ job.src \in Targets /\ art[job.src] \in Image
    BY <1>3, SourceKnown DEF NewOverlay, Targets
  <2>2. [src |-> job.src, over |-> art[job.src].id] \in Overlay
    BY <2>1 DEF Overlay, Image
  <2>3. inst' \in [Layers -> Overlay \cup {Absent}] /\ inst'[job.of] # Absent
    BY <1>3, <2>1, <2>2 DEF NewOverlay
  <2>4. fresh' \in BOOLEAN
    BY <1>3 DEF NewOverlay
  <2> QED BY <1>3, <2>3, <2>4 DEF NewOverlay
<1>4. CASE OldOverlay
  BY <1>4 DEF OldOverlay
<1>5. CASE Sealed
  BY <1>5 DEF Sealed
<1> QED BY <1>1, <1>2, <1>3, <1>4, <1>5

LEMMA PackagedTypes == ASSUME TInv, pc = "convert" PROVE Packaged(job.of) \in Image
<1>1. built + 1 \in Nat /\ 0 \in Nat
  BY DEF TInv, TypeOK
<1>2. CASE job.of = Base
  BY <1>1, <1>2 DEF Packaged, Image
<1>3. CASE job.of # Base
  <2>1. inst[job.of] \in Overlay /\ job.src \in Targets
    BY <1>3, SourceKnown DEF TInv, TypeOK, Placed, Packing, Targets
  <2>2. inst[job.of].over \in Nat
    BY <2>1 DEF Overlay
  <2>3. OverlayCoherent(job.of) \in BOOLEAN
    BY DEF OverlayCoherent
  <2> QED BY <1>1, <1>3, <2>1, <2>2, <2>3 DEF Packaged, Image
<1> QED BY <1>2, <1>3

LEMMA ConvertTypes ==
  ASSUME TInv, ConvertStarts \/ ConvertEnds \/ ConvertFails \/ Fails \/ Killed
  PROVE  TInv'
<1> USE DEF TInv, TypeOK, Placed, Packing, Pushing, Labels, Goto
<1>1. CASE ConvertStarts
  <2>1. Partial \in Image
    BY DEF Partial, Image
  <2> QED BY <1>1, <2>1 DEF ConvertStarts
<1>2. CASE ConvertEnds
  <2>1. Packaged(job.of) \in Image
    BY <1>2, PackagedTypes DEF ConvertEnds
  <2> QED BY <1>2, <2>1 DEF ConvertEnds
<1>3. CASE ConvertFails \/ Fails \/ Killed
  BY <1>3, Ending DEF ConvertFails, Fails, Killed
<1> QED BY <1>1, <1>2, <1>3

LEMMA FinishTypes == ASSUME TInv, Finish PROVE TInv'
<1> USE DEF TInv
<1>1. /\ pc = "remove" /\ UNCHANGED <<art, built>>
      /\ inst' \in [Layers -> Overlay \cup {Absent}]
  BY DEF Finish, TypeOK
<1>2. CASE /\ todo # <<>>
           /\ job' = [job EXCEPT !.of = Head(todo), !.src = Source(Head(todo), job.flag)]
           /\ pc' = "clone" /\ todo' = Tail(todo)
           /\ UNCHANGED <<fresh, ended, stage>>
  <2>1. Head(todo) \in Targets /\ Tail(todo) \in Seq(Targets)
    BY <1>2 DEF TypeOK
  <2>2. job.flag \in Targets \cup {NoTarget}
        /\ Source(Head(todo), job.flag) \in Targets \cup {NoTarget}
    <3>1. job.flag \in Targets \cup {NoTarget}
      BY DEF TypeOK, Jobs
    <3> QED BY <2>1, <3>1, Sourced
  <2>3. job' \in Jobs /\ job'.of = Head(todo) /\ job'.src = Source(Head(todo), job.flag)
        /\ job'.kind = job.kind /\ job'.flag = job.flag
    BY <1>2, <2>1, <2>2 DEF TypeOK, Jobs
  <2>4. TypeOK'
    BY <1>1, <1>2, <2>1, <2>3 DEF TypeOK, Labels
  <2>5. Placed'
    BY <1>1, <1>2, <2>1, <2>2, <2>3 DEF Placed, Packing, Pushing
  <2> QED BY <2>4, <2>5
<1>3. CASE /\ todo = <<>>
           /\ pc' = "idle" /\ job' = NoJob /\ stage' = NoImages
           /\ ended' = IF job.kind # "all" THEN "ok"
                       ELSE IF job.flag \in {NoTarget, Base} THEN "all" ELSE "over"
           /\ UNCHANGED <<todo, fresh>>
  <2>1. TypeOK'
    BY <1>1, <1>3 DEF TypeOK, NoJob, Jobs, Labels, NoImages, ImageSet
  <2>2. Placed'
    BY <1>3, Nothing DEF Placed, Packing, Pushing
  <2> QED BY <2>1, <2>2
<1> QED BY <1>2, <1>3 DEF Finish

(* What rebase writes to is never the artifact's own file.                 *)
LEMMA RebaseApart == ASSUME TInv, Rebase PROVE art' = art
BY DEF TInv, Placed, Rebase, Goto

LEMMA PushTypes ==
  ASSUME TInv, StageAlone \/ StageBase \/ StageImage \/ Rebase \/ Upload
  PROVE  TInv'
<1> USE DEF TInv, TypeOK, Placed, Packing, Pushing, Labels, Goto, ImageSet
<1>1. CASE StageAlone
  BY <1>1 DEF StageAlone
<1>2. CASE StageBase
  BY <1>2, SourceKnown DEF StageBase
<1>3. CASE StageImage
  BY <1>3 DEF StageImage
<1>4. CASE Rebase
  <2>1. stage.image \in Image
    BY <1>4 DEF Rebase
  <2>2. stage' \in ImageSet /\ stage'.image # Absent
    <3>1. [stage.image EXCEPT !.backing = Bundled] \in Image
      BY <2>1 DEF Image
    <3>2. stage' = [stage EXCEPT !.image = [stage.image EXCEPT !.backing = Bundled]]
      BY <1>4 DEF Rebase
    <3> QED BY <3>1, <3>2
  <2> QED BY <1>4, <2>2, RebaseApart DEF Rebase
<1>5. CASE Upload
  BY <1>5, Ending DEF Upload
<1> QED BY <1>1, <1>2, <1>3, <1>4, <1>5

LEMMA CleanTypes == ASSUME TInv, Clean PROVE TInv'
BY DEF Clean, TInv, TypeOK, Placed, Packing, command

LEMMA StepTypes == TInv /\ [Next]_vars => TInv'
<1> SUFFICES ASSUME TInv, [Next]_vars PROVE TInv'
  OBVIOUS
<1>1. CASE UNCHANGED vars
  BY <1>1 DEF TInv, TypeOK, Placed, vars, command
<1> QED BY <1>1, BeginTypes, CloneTypes, ConvertTypes, FinishTypes, PushTypes, CleanTypes DEF Next

(* Every state is well typed.                                              *)
THEOREM TypeCorrect == Spec => []TypeOK
<1>1. TInv => TypeOK
  BY DEF TInv
<1> QED BY <1>1, InitTypes, StepTypes, PTL DEF Spec

-----------------------------------------------------------------------------
(* push. *)

(* A push writes to no artifact and to no overlay: the image it repoints   *)
(* in its staging directory is never one it linked there.                  *)
THEOREM PushOnlyReadsHolds == Spec => PushOnlyReads
<1>1. TInv /\ [Next]_vars => [job.kind = "push" => UNCHANGED <<art, inst>>]_vars
  <2> SUFFICES ASSUME TInv, Next, job.kind = "push" PROVE UNCHANGED <<art, inst>>
    OBVIOUS
  <2>1. pc \notin Packing /\ pc # "idle"
    BY DEF TInv, TypeOK, Placed, NoJob
  <2> QED BY <2>1, RebaseApart DEF Next, Push, Pipeline, PipelineAll, SourceMissing, CloneBase, NewOverlay,
      OldOverlay, Sealed, ConvertStarts, ConvertEnds, ConvertFails, Finish, Fails, StageAlone,
      StageBase, StageImage, Rebase, Upload, Killed, Clean, Goto, Packing
<1> QED BY <1>1, InitTypes, StepTypes, PTL DEF Spec, PushOnlyReads

(* What the staging directory holds on the way to the registry.            *)
Staged ==
  /\ pc \in {"image", "rebase"} =>
       /\ job.of # Base /\ art[job.of] # Absent /\ art[job.src] # Absent
       /\ art[job.of].backing # NoTarget
       /\ stage.base = art[job.src]
  /\ pc = "rebase" => stage.image = art[job.of]
  /\ pc = "upload" =>
       \/ stage.image = art[job.of] /\ (job.of = Base \/ art[job.of].backing = NoTarget)
       \/ /\ job.of # Base /\ art[job.of].backing # NoTarget /\ stage.base = art[job.src]
          /\ stage.image = [art[job.of] EXCEPT !.backing = Bundled]

LEMMA StepStaged == TInv /\ Staged /\ [Next]_vars => Staged'
<1> SUFFICES ASSUME TInv, Staged, [Next]_vars PROVE Staged'
  OBVIOUS
<1> USE DEF Staged, Goto
<1>1. CASE UNCHANGED vars
  BY <1>1 DEF vars, command
<1>2. ASSUME NEW t \in Targets, NEW flag \in Sources \cup {NoTarget},
             Push(t, flag) \/ \E flat \in BOOLEAN : Pipeline(t, flag, flat)
      PROVE  Staged'
  BY <1>2 DEF Push, Pipeline
<1>3. ASSUME NEW flag \in Sources \cup {NoTarget}, NEW flat \in BOOLEAN, PipelineAll(flag, flat)
      PROVE  Staged'
  BY <1>3 DEF PipelineAll
<1>4. CASE \/ SourceMissing \/ CloneBase \/ NewOverlay \/ OldOverlay \/ Sealed
           \/ ConvertStarts \/ ConvertEnds \/ ConvertFails \/ Finish \/ Fails
           \/ Upload \/ Killed
  <2>1. pc' \in Packing \cup {"idle"}
    BY <1>4 DEF SourceMissing, CloneBase, NewOverlay, OldOverlay, Sealed, ConvertStarts,
       ConvertEnds, ConvertFails, Finish, Fails, Upload, Killed, End, Packing
  <2> QED BY <2>1 DEF Packing
<1>5. CASE StageAlone
  BY <1>5 DEF StageAlone, TInv, TypeOK, ImageSet
<1>6. CASE StageBase
  BY <1>6 DEF StageBase, TInv, TypeOK, ImageSet
<1>7. CASE StageImage
  BY <1>7 DEF StageImage, TInv, TypeOK, ImageSet
<1>8. CASE Rebase
  <2>1. stage' = [stage EXCEPT !.image = [stage.image EXCEPT !.backing = Bundled]]
    BY <1>8 DEF Rebase
  <2>2. stage'.image = [art[job.of] EXCEPT !.backing = Bundled] /\ stage'.base = stage.base
    BY <1>8, <2>1 DEF Rebase, TInv, TypeOK, ImageSet
  <2> QED BY <1>8, <2>2, RebaseApart DEF Rebase
<1>9. CASE Clean
  BY <1>9 DEF Clean, command, TInv, TypeOK, NoJob
<1> QED BY <1>1, <1>2, <1>3, <1>4, <1>5, <1>6, <1>7, <1>8, <1>9 DEF Next

(* What is uploaded for an artifact that holds together, over an image     *)
(* that stands alone and that the flags name, boots as pulled.             *)
THEOREM PushedBootsHolds == Spec => []PushedBoots
<1>1. Init => Staged
  BY DEF Init, Staged
<1>2. TInv /\ Staged => PushedBoots
  <2> SUFFICES ASSUME TInv, Staged, pc = "upload", Coherent(job.of),
                      art[job.of].backing # NoTarget =>
                        art[job.of].backing = job.src /\ art[job.src].backing = NoTarget
               PROVE  Boots(stage)
    BY DEF PushedBoots
  <2>1. PICK chain \in SUBSET Targets :
          /\ job.of \in chain
          /\ \A x \in chain : /\ Sound(x) /\ StandsOn(x)
                              /\ art[x].backing # NoTarget => art[x].backing \in chain
    BY DEF Coherent
  <2>2. art[job.of] \in Image /\ Sound(job.of) /\ StandsOn(job.of)
    BY <2>1 DEF TInv, TypeOK, Sound
  <2>3. CASE art[job.of].backing = NoTarget
    <3>1. stage.image # Absent /\ stage.image.whole /\ stage.image.good
      BY <2>2 DEF Staged, Sound, TInv, Placed, Image
    <3> QED BY <2>3, <3>1 DEF Boots, Staged
  <2>4. CASE art[job.of].backing # NoTarget
    <3>1. /\ art[job.of].backing = job.src /\ art[job.src].backing = NoTarget
          /\ job.src \in Targets /\ Sound(job.src) /\ art[job.src].id = art[job.of].over
      BY <2>1, <2>2, <2>4 DEF StandsOn
    <3>2. /\ stage.base = art[job.src]
          /\ stage.image = [art[job.of] EXCEPT !.backing = Bundled]
      BY <2>4, <3>1, SourceKnown DEF Staged, TInv, Placed
    <3>3. /\ stage.image.whole /\ stage.image.good /\ stage.image.backing = Bundled
          /\ stage.image.over = art[job.of].over /\ stage.image # Absent
      BY <2>2, <3>2 DEF Sound, Image, TInv, Placed
    <3> QED BY <3>1, <3>2, <3>3 DEF Boots, Sound
  <2> QED BY <2>3, <2>4
<1> QED BY <1>1, <1>2, InitTypes, StepTypes, StepStaged, PTL DEF Spec

-----------------------------------------------------------------------------
(* Layers. *)

(* Nothing was recorded over an image that is not made yet.                *)
Ages ==
  /\ \A t \in Targets : art[t] # Absent => art[t].id <= built /\ art[t].over <= built
  /\ \A l \in Layers : inst[l] # Absent => inst[l].over <= built

(* An overlay the command made itself is over its source image as it is.   *)
Own ==
  fresh /\ pc \in {"seal", "stat", "convert"} /\ job.of # Base /\ job.src # job.of =>
    /\ inst[job.of].src = job.src /\ art[job.src] # Absent
    /\ inst[job.of].over = art[job.src].id

(* What a step of a command that is packing something leaves alone.        *)
LEMMA StepAges == TInv /\ Ages /\ [Next]_vars => Ages'
<1> SUFFICES ASSUME TInv, Ages, [Next]_vars PROVE Ages'
  OBVIOUS
<1> USE DEF Ages, Goto
<1>0. TypeOK /\ Placed
  BY DEF TInv
<1>1. CASE UNCHANGED vars
  BY <1>1 DEF vars
<1>2. CASE \/ \E t \in Targets, flag \in Sources \cup {NoTarget} :
                Push(t, flag) \/ \E flat \in BOOLEAN : Pipeline(t, flag, flat)
           \/ \E flag \in Sources \cup {NoTarget}, flat \in BOOLEAN : PipelineAll(flag, flat)
           \/ SourceMissing \/ CloneBase \/ OldOverlay \/ Sealed \/ ConvertFails \/ Fails
           \/ StageAlone \/ StageBase \/ StageImage \/ Rebase \/ Upload \/ Killed
  <2>1. UNCHANGED <<art, inst, built>>
    BY <1>2, RebaseApart DEF Push, Pipeline, PipelineAll, SourceMissing, CloneBase, OldOverlay, Sealed,
       ConvertFails, Fails, StageAlone, StageBase, StageImage, Rebase, Upload, Killed
  <2> QED BY <2>1
<1>3. CASE NewOverlay
  <2>1. /\ UNCHANGED <<art, built>> /\ job.of \in Layers /\ job.src \in Targets
        /\ art[job.src] # Absent
        /\ inst' = [inst EXCEPT ![job.of] = [src |-> job.src, over |-> art[job.src].id]]
    BY <1>0, <1>3, SourceKnown DEF NewOverlay, Placed, Targets
  <2> QED BY <1>0, <2>1 DEF TypeOK
<1>4. CASE ConvertStarts
  <2>1. UNCHANGED <<inst, built>> /\ art' = [art EXCEPT ![job.of] = Partial]
    BY <1>4 DEF ConvertStarts
  <2>2. Partial.id <= built /\ Partial.over <= built
    BY <1>0 DEF Partial, TypeOK
  <2> QED BY <1>0, <2>1, <2>2 DEF TypeOK
<1>5. CASE ConvertEnds
  <2>1. inst' = inst /\ built' = built + 1 /\ art' = [art EXCEPT ![job.of] = Packaged(job.of)]
    BY <1>5 DEF ConvertEnds
  <2>2. Packaged(job.of).id = built + 1
    BY DEF Packaged
  <2>3. Packaged(job.of).over <= built
    <3>1. job.of # Base => job.of \in Layers /\ inst[job.of] # Absent
      BY <1>0, <1>5 DEF ConvertEnds, Placed, Packing, Targets
    <3> QED BY <1>0, <3>1 DEF Packaged, TypeOK
  <2>4. \A t \in Targets : art[t] # Absent => art[t].id \in Nat /\ art[t].over \in Nat
    BY <1>0 DEF TypeOK, Image
  <2>5. \A l \in Layers : inst[l] # Absent => inst[l].over \in Nat
    BY <1>0 DEF TypeOK, Overlay
  <2>6. Packaged(job.of).over \in Nat
    BY <1>5, PackagedTypes DEF ConvertEnds, TInv, Image
  <2>7. \A l \in Layers : inst'[l] # Absent => inst'[l].over <= built'
    BY <1>0, <2>1, <2>5 DEF TypeOK
  <2>8. \A t \in Targets : art'[t] # Absent => art'[t].id <= built' /\ art'[t].over <= built'
    BY <1>0, <2>1, <2>2, <2>3, <2>4, <2>6 DEF TypeOK
  <2> QED BY <2>7, <2>8
<1>6. CASE Finish
  BY <1>0, <1>6 DEF Finish, TypeOK
<1>7. CASE Clean
  BY <1>7 DEF Clean
<1> QED BY <1>1, <1>2, <1>3, <1>4, <1>5, <1>6, <1>7 DEF Next

LEMMA StepOwn == TInv /\ Own /\ [Next]_vars => Own'
<1> SUFFICES ASSUME TInv, Own, [Next]_vars PROVE Own'
  OBVIOUS
<1> USE DEF Own, Goto
<1>0. TypeOK /\ Placed
  BY DEF TInv
<1>1. CASE UNCHANGED vars
  BY <1>1 DEF vars, command
<1>2. CASE \/ \E t \in Targets, flag \in Sources \cup {NoTarget} :
                Push(t, flag) \/ \E flat \in BOOLEAN : Pipeline(t, flag, flat)
           \/ \E flag \in Sources \cup {NoTarget}, flat \in BOOLEAN : PipelineAll(flag, flat)
           \/ SourceMissing \/ ConvertFails \/ Fails \/ ConvertEnds \/ Finish
           \/ StageAlone \/ StageBase \/ StageImage \/ Rebase \/ Upload \/ Killed
  <2>1. pc' \notin {"seal", "stat", "convert"}
    BY <1>2 DEF Push, Pipeline, PipelineAll, SourceMissing, ConvertFails, Fails, ConvertEnds,
       Finish, StageAlone, StageBase, StageImage, Rebase, Upload, Killed, End
  <2> QED BY <2>1
<1>3. CASE CloneBase \/ OldOverlay
  BY <1>3 DEF CloneBase, OldOverlay
<1>4. CASE NewOverlay
  <2>1. /\ UNCHANGED <<art, job>> /\ job.of \in Layers /\ art[job.src] # Absent
        /\ inst' = [inst EXCEPT ![job.of] = [src |-> job.src, over |-> art[job.src].id]]
    BY <1>0, <1>4 DEF NewOverlay, Placed, Targets
  <2> QED BY <1>0, <2>1 DEF TypeOK
<1>5. CASE Sealed
  BY <1>5 DEF Sealed
<1>6. CASE ConvertStarts
  <2>1. /\ UNCHANGED <<job, fresh, inst>> /\ pc = "stat" /\ job.of \in Targets
        /\ art' = [art EXCEPT ![job.of] = Partial]
        /\ job.of # Base => job.src \in Targets
    BY <1>0, <1>6, SourceKnown DEF ConvertStarts, Goto, Placed
  <2> QED BY <1>0, <2>1 DEF TypeOK
<1>7. CASE Clean
  <2>1. pc' = "idle"
    BY <1>7 DEF Clean, command
  <2> QED BY <2>1
<1> QED BY <1>1, <1>2, <1>3, <1>4, <1>5, <1>6, <1>7 DEF Next

(* A delta over an image that holds together, recorded with the identity   *)
(* it has, holds together; so does the copy of one.                        *)
LEMMA PackedCoherent ==
  ASSUME TInv, Ages, Own, ConvertEnds, fresh, job.of # Base, Coherent(job.src)'
  PROVE  Coherent(job.of)'
<1>0. TypeOK /\ Placed
  BY DEF TInv
<1>1. /\ pc = "convert" /\ job' = job /\ inst' = inst
      /\ art' = [art EXCEPT ![job.of] = Packaged(job.of)]
      /\ job.of \in Targets /\ job.src \in Targets /\ job.of \in Layers
  BY <1>0, SourceKnown DEF ConvertEnds, Goto, Placed, Targets
<1>2. CASE job.src = job.of
  BY <1>1, <1>2
<1>3. CASE job.src # job.of
  <2>1. /\ inst[job.of].src = job.src /\ art[job.src] # Absent
        /\ inst[job.of].over = art[job.src].id
    BY <1>1, <1>3 DEF Own
  <2>2. PICK chain \in SUBSET Targets :
          /\ job.src \in chain
          /\ \A x \in chain : /\ Sound(x)' /\ StandsOn(x)'
                              /\ art'[x].backing # NoTarget => art'[x].backing \in chain
    BY <1>1 DEF Coherent
  <2>3. art'[job.of] = Packaged(job.of) /\ \A x \in Targets \ {job.of} : art'[x] = art[x]
    BY <1>0, <1>1 DEF TypeOK
  <2>4. Packaged(job.of) \in Image /\ Packaged(job.of) # Absent
    BY <1>1, PackagedTypes
  <2>5. CASE ~job.flat
    <3>1. /\ art'[job.of].whole /\ art'[job.of].good /\ art'[job.of] # Absent
          /\ art'[job.of].backing = job.src /\ art'[job.of].over = art[job.src].id
      BY <1>1, <2>1, <2>3, <2>4, <2>5 DEF Packaged
    <3>2. \A x \in {job.of} : Sound(x)'
      BY <3>1 DEF Sound
    <3>3. \A x \in {job.of} : StandsOn(x)'
      BY <1>1, <1>3, <2>1, <2>3, <3>1 DEF StandsOn
    <3>4. \A x \in chain \cup {job.of} :
            /\ Sound(x)' /\ StandsOn(x)'
            /\ art'[x].backing # NoTarget => art'[x].backing \in chain \cup {job.of}
      <4>1. job.src \in chain /\ art'[job.of].backing = job.src
        BY <2>2, <3>1
      <4> QED BY <2>2, <3>2, <3>3, <4>1
    <3>5. chain \cup {job.of} \in SUBSET Targets
      BY <1>1
    <3> QED BY <1>1, <3>4, <3>5 DEF Coherent
  <2>6. CASE job.flat
    <3> DEFINE below == chain \ {job.of}
    <3>1. \A x \in below : art'[x].backing # job.of
      <4> SUFFICES ASSUME NEW x \in below, art'[x].backing = job.of PROVE FALSE
        OBVIOUS
      <4>1. job.of # NoTarget /\ x \in Targets /\ art'[x] = art[x] /\ art[x] # Absent
        BY <1>1, <2>2, <2>3 DEF Sound
      <4>2. art'[job.of].id = art'[x].over
        BY <2>2, <4>1 DEF StandsOn
      <4>3. art'[job.of].id = built + 1
        BY <2>3 DEF Packaged
      <4>4. art[x].over <= built /\ art[x].over \in Nat /\ built \in Nat
        BY <1>0, <4>1 DEF Ages, TypeOK, Image
      <4> QED BY <4>1, <4>2, <4>3, <4>4
    <3>2. \A x \in below : /\ Sound(x) /\ StandsOn(x)
                           /\ art[x].backing # NoTarget => art[x].backing \in below
      <4> SUFFICES ASSUME NEW x \in below
                   PROVE  /\ Sound(x) /\ StandsOn(x)
                          /\ art[x].backing # NoTarget => art[x].backing \in below
        OBVIOUS
      <4>1. x \in Targets /\ art'[x] = art[x] /\ Sound(x)' /\ StandsOn(x)'
        BY <2>2, <2>3
      <4>2. Sound(x)
        BY <4>1 DEF Sound
      <4>3. art[x].backing # NoTarget => art[x].backing \in below
        BY <2>2, <3>1, <4>1
      <4>4. art[x].backing # NoTarget => art'[art[x].backing] = art[art[x].backing]
        BY <2>3, <4>3
      <4>5. StandsOn(x)
        BY <4>1, <4>4 DEF StandsOn
      <4> QED BY <4>2, <4>3, <4>5
    <3>3. Coherent(job.src)
      <4>1. below \in SUBSET Targets /\ job.src \in below
        BY <1>3, <2>2
      <4> HIDE DEF below
      <4> QED BY <3>2, <4>1 DEF Coherent
    <3>4. OverlayCoherent(job.of)
      BY <1>1, <2>1, <3>3 DEF OverlayCoherent
    <3>5. /\ art'[job.of].whole /\ art'[job.of].good /\ art'[job.of] # Absent
          /\ art'[job.of].backing = NoTarget
      BY <1>1, <2>3, <2>4, <2>6, <3>4 DEF Packaged
    <3>6. \A x \in {job.of} : Sound(x)' /\ StandsOn(x)'
      BY <3>5 DEF Sound, StandsOn
    <3>7. \A x \in {job.of} : /\ Sound(x)' /\ StandsOn(x)'
                              /\ art'[x].backing # NoTarget => art'[x].backing \in {job.of}
      BY <3>5, <3>6
    <3>8. {job.of} \in SUBSET Targets
      BY <1>1
    <3> QED BY <1>1, <3>7, <3>8 DEF Coherent
  <2> QED BY <2>5, <2>6
<1> QED BY <1>2, <1>3

CInv == Ages /\ Own /\ FreshLayerCoherent

LEMMA StepC == TInv /\ CInv /\ [Next]_vars => CInv'
<1> SUFFICES ASSUME TInv, CInv, [Next]_vars PROVE CInv'
  OBVIOUS
<1>1. Ages' /\ Own'
  BY StepAges, StepOwn DEF CInv
<1>2. CASE UNCHANGED vars
  <2>1. FreshLayerCoherent'
    BY <1>2 DEF CInv, FreshLayerCoherent, Coherent, Sound, StandsOn, vars, command
  <2> QED BY <1>1, <2>1 DEF CInv
<1>3. CASE ConvertEnds
  <2>1. job' = job /\ fresh' = fresh
    BY <1>3 DEF ConvertEnds, Goto
  <2>2. fresh /\ job.of # Base /\ Coherent(job.src)' => Coherent(job.of)'
    BY <1>3, PackedCoherent DEF CInv
  <2>3. FreshLayerCoherent'
    BY <2>1, <2>2 DEF FreshLayerCoherent
  <2> QED BY <1>1, <2>3 DEF CInv
<1>4. CASE Next /\ ~ConvertEnds
  <2>1. pc' # "remove"
    BY <1>4 DEF Next, Push, Pipeline, PipelineAll, SourceMissing, CloneBase, NewOverlay,
      OldOverlay, Sealed, ConvertStarts, ConvertFails, Finish, Fails, StageAlone,
      StageBase, StageImage, Rebase, Upload, Killed, Clean, Goto, End, command, TInv, TypeOK,
      Placed, NoJob
  <2> QED BY <1>1, <2>1 DEF CInv, FreshLayerCoherent
<1> QED BY <1>2, <1>3, <1>4

(* A layer whose overlay its own pipeline made, over an image that holds   *)
(* together, holds together -- packed as a delta or flattened, over any    *)
(* chain.                                                                  *)
THEOREM FreshLayerCoherentHolds == Spec => []FreshLayerCoherent
<1>1. Init => CInv
  BY DEF Init, CInv, Ages, Own, FreshLayerCoherent
<1>2. CInv => FreshLayerCoherent
  BY DEF CInv
<1> QED BY <1>1, <1>2, InitTypes, StepTypes, StepC, PTL DEF Spec

-----------------------------------------------------------------------------
(* pipeline --all. *)

(* An image on its own, or a delta over the base as it is.                 *)
Standing(t) ==
  /\ t \in Targets /\ Sound(t)
  /\ \/ art[t].backing = NoTarget
     \/ /\ art[t].backing = Base /\ t # Base /\ Sound(Base)
        /\ art[Base].backing = NoTarget /\ art[Base].id = art[t].over

LEMMA StandingCoherent == ASSUME NEW t, Standing(t) PROVE Coherent(t)
<1> USE DEF Standing
<1>1. CASE art[t].backing = NoTarget
  <2>1. {t} \in SUBSET Targets /\ StandsOn(t)
    BY <1>1 DEF StandsOn
  <2> QED BY <1>1, <2>1 DEF Coherent
<1>2. CASE art[t].backing # NoTarget
  <2>1. StandsOn(t) /\ StandsOn(Base)
    BY <1>2 DEF StandsOn, Sound, Targets
  <2>2. {t, Base} \in SUBSET Targets
    BY DEF Targets
  <2>3. \A x \in {t, Base} : /\ Sound(x) /\ StandsOn(x)
                             /\ art[x].backing # NoTarget => art[x].backing \in {t, Base}
    BY <1>2, <2>1
  <2> QED BY <2>2, <2>3 DEF Coherent
<1> QED BY <1>1, <1>2

Waiting(t) == \E j \in 1 .. Len(todo) : todo[j] = t

(* While --all runs on overlays of its own, over its own base: what it has *)
(* packed stands.                                                          *)
OwnAll == job.kind = "all" /\ fresh /\ job.flag \in {NoTarget, Base}

Packs ==
  OwnAll =>
    /\ \A j \in 1 .. Len(todo) : todo[j] \in Layers
    /\ \A i \in 1 .. Len(AllOrder) :
         \/ AllOrder[i] = job.of \/ Waiting(AllOrder[i])
         \/ job.of # Base /\ Standing(AllOrder[i])
    /\ job.of # Base => job.src = Base /\ Standing(Base)
    /\ pc = "remove" => Standing(job.of)

Packed == ended = "all" /\ fresh => \A i \in 1 .. Len(AllOrder) : Standing(AllOrder[i])

AInv == Packs /\ Packed

(* Standing images are undisturbed by what is done to another layer.       *)
LEMMA StandingKept ==
  ASSUME NEW t, Standing(t), TypeOK,
         \/ art' = art
         \/ \E l \in Layers \ {t}, i \in Image : art' = [art EXCEPT ![l] = i]
  PROVE  Standing(t)'
<1>1. CASE art' = art
  BY <1>1 DEF Standing, Sound
<1>2. ASSUME NEW l \in Layers \ {t}, NEW i \in Image, art' = [art EXCEPT ![l] = i]
      PROVE  Standing(t)'
  <2>1. t \in Targets /\ art'[t] = art[t] /\ art'[Base] = art[Base]
    BY <1>2 DEF Standing, TypeOK, Targets
  <2> QED BY <2>1 DEF Standing, Sound
<1> QED BY <1>1, <1>2

LEMMA Ordered ==
  /\ AllOrder \in Seq(Targets) /\ Len(AllOrder) \in Nat \ {0} /\ AllOrder[1] = Base
  /\ Tail(AllOrder) \in Seq(Targets) /\ Len(Tail(AllOrder)) = Len(AllOrder) - 1
  /\ \A j \in 1 .. Len(AllOrder) - 1 : Tail(AllOrder)[j] = AllOrder[j + 1]
  /\ \A j \in 1 .. Len(AllOrder) - 1 : Tail(AllOrder)[j] \in Layers
<1>1. /\ AllOrder \in Seq(Targets) /\ AllOrder # <<>> /\ Head(AllOrder) = Base
      /\ \A i \in 2 .. Len(AllOrder) : AllOrder[i] \in Layers
  BY OrderAssumption
<1>2. /\ Len(AllOrder) \in Nat \ {0} /\ AllOrder[1] = Base
      /\ Tail(AllOrder) \in Seq(Targets) /\ Len(Tail(AllOrder)) = Len(AllOrder) - 1
      /\ \A j \in 1 .. Len(AllOrder) - 1 : Tail(AllOrder)[j] = AllOrder[j + 1]
  BY <1>1
<1>3. \A j \in 1 .. Len(AllOrder) - 1 : AllOrder[j + 1] \in Layers
  BY <1>1, <1>2
<1> QED BY <1>1, <1>2, <1>3

LEMMA AllBegins ==
  ASSUME TInv, NEW flag, NEW flat \in BOOLEAN, PipelineAll(flag, flat)
  PROVE  AInv'
<1>1. /\ job'.kind = "all" /\ job'.of = Base /\ todo' = Tail(AllOrder) /\ pc' = "clone"
      /\ ended' = "none"
  BY Ordered DEF PipelineAll, OrderAssumption
<1>2. \A j \in 1 .. Len(todo') : todo'[j] \in Layers
  BY <1>1, Ordered
<1>3. \A i \in 1 .. Len(AllOrder) : AllOrder[i] = Base \/ Waiting(AllOrder[i])'
  <2> SUFFICES ASSUME NEW i \in 1 .. Len(AllOrder), AllOrder[i] # Base PROVE Waiting(AllOrder[i])'
    OBVIOUS
  <2>1. i # 1 /\ i \in Nat /\ i - 1 \in 1 .. Len(AllOrder) - 1
    BY Ordered
  <2>2. todo'[i - 1] = AllOrder[(i - 1) + 1] /\ i - 1 \in 1 .. Len(todo')
    BY <1>1, <2>1, Ordered
  <2>3. (i - 1) + 1 = i
    BY <2>1
  <2> QED BY <2>2, <2>3 DEF Waiting
<1> QED BY <1>1, <1>2, <1>3 DEF AInv, Packs, Packed

LEMMA AllConverts ==
  ASSUME TInv, Own, AInv, ConvertStarts \/ ConvertEnds
  PROVE  AInv'
<1>0. TypeOK /\ Placed /\ Packs
  BY DEF TInv, AInv
<1>1. UNCHANGED <<job, todo, fresh, ended, inst>> /\ job.of \in Targets /\ pc \in Packing
      /\ ended # "all"
  BY <1>0 DEF ConvertStarts, ConvertEnds, Goto, Placed, Packing
<1>2. PICK i \in Image : art' = [art EXCEPT ![job.of] = i]
  <2>1. Partial \in Image
    BY <1>0 DEF Partial, Image
  <2> QED BY <2>1, PackagedTypes DEF ConvertStarts, ConvertEnds, Goto
<1>3. ASSUME OwnAll, job.of # Base
      PROVE  \A t \in Targets : Standing(t) /\ t # job.of => Standing(t)'
  <2>1. job.of \in Layers
    BY <1>1, <1>3 DEF Targets
  <2> QED BY <1>0, <1>2, <2>1, StandingKept
<1>4. ASSUME OwnAll
      PROVE  /\ \A k \in 1 .. Len(AllOrder) :
                  \/ AllOrder[k] = job.of \/ Waiting(AllOrder[k])'
                  \/ job.of # Base /\ Standing(AllOrder[k])'
             /\ job.of # Base => job.src = Base /\ Standing(Base)'
  <2>1. \A t : Waiting(t)' <=> Waiting(t)
    BY <1>1 DEF Waiting
  <2>2. job.of # Base => job.src = Base /\ Standing(Base)'
    BY <1>0, <1>3, <1>4 DEF Packs, Targets
  <2>3. ASSUME NEW k \in 1 .. Len(AllOrder)
        PROVE  \/ AllOrder[k] = job.of \/ Waiting(AllOrder[k])'
               \/ job.of # Base /\ Standing(AllOrder[k])'
    <3>1. AllOrder[k] \in Targets
      BY Ordered
    <3>2. \/ AllOrder[k] = job.of \/ Waiting(AllOrder[k])
          \/ job.of # Base /\ Standing(AllOrder[k])
      BY <1>0, <1>4 DEF Packs
    <3> QED BY <1>3, <1>4, <2>1, <3>1, <3>2
  <2> QED BY <2>2, <2>3
<1>5. ASSUME OwnAll, pc' = "remove" PROVE \A t \in {job.of} : Standing(t)'
  <2>1. pc = "convert" /\ art' = [art EXCEPT ![job.of] = Packaged(job.of)]
    BY <1>5 DEF ConvertStarts, ConvertEnds, Goto
  <2>2. art'[job.of] = Packaged(job.of) /\ Packaged(job.of) # Absent
    BY <1>0, <1>1, <2>1, PackagedTypes DEF TypeOK
  <2>3. CASE job.of = Base
    BY <1>1, <2>2, <2>3 DEF Packaged, Standing, Sound
  <2>4. CASE job.of # Base
    <3>1. /\ job.src = Base /\ Standing(Base) /\ Standing(Base)'
          /\ inst[job.of].src = Base /\ inst[job.of].over = art[Base].id
          /\ art'[Base] = art[Base]
      BY <1>0, <1>2, <1>4, <1>5, <2>1, <2>4 DEF OwnAll, Packs, Own, TypeOK, Targets
    <3>2. OverlayCoherent(job.of)
      BY <3>1, StandingCoherent DEF OverlayCoherent, Targets
    <3>3. Sound(Base)' /\ art'[Base].backing = NoTarget
      BY <3>1 DEF Standing, Sound
    <3>4. CASE job.flat
      BY <1>1, <2>2, <2>4, <3>2, <3>4 DEF Packaged, Standing, Sound
    <3>5. CASE ~job.flat
      <4>1. /\ art'[job.of].whole /\ art'[job.of].good /\ art'[job.of] # Absent
            /\ art'[job.of].backing = Base /\ art'[job.of].over = art[Base].id
        BY <2>2, <2>4, <3>1, <3>5 DEF Packaged
      <4> QED BY <1>1, <2>4, <3>1, <3>3, <4>1 DEF Standing, Sound
    <3> QED BY <3>4, <3>5
  <2> QED BY <2>3, <2>4
<1>6. Packs'
  <2>1. OwnAll => \A j \in 1 .. Len(todo) : todo[j] \in Layers
    BY <1>0 DEF Packs
  <2>2. OwnAll /\ pc' = "remove" => Standing(job.of)'
    BY <1>1, <1>5 DEF Standing, Sound
  <2>3. OwnAll' <=> OwnAll
    BY <1>1 DEF OwnAll
  <2> QED BY <1>1, <1>4, <2>1, <2>2, <2>3 DEF Packs
<1> QED BY <1>1, <1>6 DEF AInv, Packed

LEMMA AllGoesOn == ASSUME TInv, AInv, Finish PROVE AInv'
<1>0. TypeOK /\ Placed /\ Packs /\ pc = "remove" /\ art' = art
  BY DEF TInv, AInv, Finish
<1>1. \A t : Standing(t)' <=> Standing(t)
  BY <1>0 DEF Standing, Sound
<1>2. CASE /\ todo # <<>>
           /\ job' = [job EXCEPT !.of = Head(todo), !.src = Source(Head(todo), job.flag)]
           /\ pc' = "clone" /\ todo' = Tail(todo)
           /\ UNCHANGED <<fresh, ended, stage>>
  <2>1. Packed'
    BY <1>0, <1>2 DEF Packed, Placed
  <2>2. ASSUME OwnAll'
        PROVE  /\ \A j \in 1 .. Len(todo') : todo'[j] \in Layers
               /\ \A i \in 1 .. Len(AllOrder) :
                    \/ AllOrder[i] = job'.of \/ Waiting(AllOrder[i])'
                    \/ job'.of # Base /\ Standing(AllOrder[i])'
               /\ job'.of # Base => job'.src = Base /\ Standing(Base)'
               /\ pc' = "remove" => Standing(job'.of)
    <3>1. /\ job'.of = Head(todo) /\ job'.src = Source(Head(todo), job.flag)
          /\ job'.kind = job.kind /\ job'.flag = job.flag
      BY <1>0, <1>2 DEF TypeOK, Jobs
    <3>0. OwnAll /\ job.flag \in {NoTarget, Base}
      BY <1>2, <2>2, <3>1 DEF OwnAll
    <3>2. /\ todo \in Seq(Targets) /\ Len(todo) \in Nat \ {0} /\ Head(todo) = todo[1]
          /\ Len(todo') = Len(todo) - 1
          /\ \A j \in 1 .. Len(todo) - 1 : todo'[j] = todo[j + 1]
      BY <1>0, <1>2 DEF TypeOK
    <3>3. /\ \A j \in 1 .. Len(todo) : todo[j] \in Layers
          /\ Standing(job.of) /\ (job.of # Base => Standing(Base))
      BY <1>0, <3>0 DEF Packs
    <3>4. Head(todo) \in Layers /\ job'.of # Base /\ job'.src = Base /\ Standing(Base)
      BY <3>0, <3>1, <3>2, <3>3 DEF Source
    <3>5. \A j \in 1 .. Len(todo') : todo'[j] \in Layers
      BY <3>2, <3>3
    <3>6. \A i \in 1 .. Len(AllOrder) :
            \/ AllOrder[i] = job'.of \/ Waiting(AllOrder[i])' \/ Standing(AllOrder[i])
      <4> SUFFICES ASSUME NEW i \in 1 .. Len(AllOrder), AllOrder[i] # Head(todo),
                          Waiting(AllOrder[i])
                   PROVE  Waiting(AllOrder[i])'
        BY <1>0, <3>0, <3>1, <3>3 DEF Packs
      <4>1. PICK j \in 1 .. Len(todo) : todo[j] = AllOrder[i]
        BY DEF Waiting
      <4>2. j # 1 /\ j - 1 \in 1 .. Len(todo') /\ (j - 1) + 1 = j
        BY <3>2, <4>1
      <4>3. todo'[j - 1] = AllOrder[i]
        BY <3>2, <4>1, <4>2
      <4> QED BY <4>2, <4>3 DEF Waiting
    <3> QED BY <1>1, <1>2, <3>4, <3>5, <3>6
  <2>3. Packs'
    BY <1>2, <2>2 DEF Packs
  <2> QED BY <2>1, <2>3 DEF AInv
<1>3. CASE /\ todo = <<>>
           /\ pc' = "idle" /\ job' = NoJob /\ stage' = NoImages
           /\ ended' = IF job.kind # "all" THEN "ok"
                       ELSE IF job.flag \in {NoTarget, Base} THEN "all" ELSE "over"
           /\ UNCHANGED <<todo, fresh>>
  <2>1. job'.kind # "all"
    BY <1>3 DEF NoJob
  <2>2. ASSUME ended' = "all", fresh' PROVE \A i \in 1 .. Len(AllOrder) : Standing(AllOrder[i])
    <3>1. OwnAll /\ Len(todo) = 0
      BY <1>3, <2>2 DEF OwnAll
    <3>2. \A t : ~Waiting(t)
      BY <3>1 DEF Waiting
    <3> QED BY <1>0, <3>1, <3>2 DEF Packs
  <2> QED BY <1>1, <2>1, <2>2 DEF AInv, OwnAll, Packs, Packed
<1> QED BY <1>2, <1>3 DEF Finish

LEMMA StepA == TInv /\ CInv /\ AInv /\ [Next]_vars => AInv'
<1> SUFFICES ASSUME TInv, CInv, AInv, [Next]_vars PROVE AInv'
  OBVIOUS
<1>0. TypeOK /\ Placed
  BY DEF TInv
<1>1. ASSUME UNCHANGED <<job, art>>, UNCHANGED todo, pc' = "remove" => pc = "remove",
             fresh' => fresh, ended' = "all" => ended = "all"
      PROVE  AInv'
  <2>1. \A t : (Standing(t)' <=> Standing(t)) /\ (Waiting(t)' <=> Waiting(t))
    BY <1>1 DEF Standing, Sound, Waiting
  <2>2. Standing(job.of)' <=> Standing(job.of)
    BY <1>1 DEF Standing, Sound
  <2>3. OwnAll' => OwnAll
    BY <1>1 DEF OwnAll
  <2> QED BY <1>1, <2>1, <2>2, <2>3 DEF AInv, Packs, Packed
<1>2. ASSUME job'.kind # "all", ended' # "all" PROVE AInv'
  BY <1>2 DEF AInv, OwnAll, Packs, Packed
<1>3. CASE UNCHANGED vars
  BY <1>1, <1>3 DEF vars, command
<1>4. ASSUME NEW t \in Targets, NEW flag \in Sources \cup {NoTarget},
             Push(t, flag) \/ \E flat \in BOOLEAN : Pipeline(t, flag, flat)
      PROVE  AInv'
  BY <1>2, <1>4 DEF Push, Pipeline
<1>5. ASSUME NEW flag \in Sources \cup {NoTarget}, NEW flat \in BOOLEAN, PipelineAll(flag, flat)
      PROVE  AInv'
  BY <1>5, AllBegins
<1>6. CASE SourceMissing \/ ConvertFails \/ Fails \/ Upload \/ Killed
  BY <1>2, <1>6 DEF SourceMissing, ConvertFails, Fails, Upload, Killed, End, NoJob
<1>7. CASE CloneBase \/ OldOverlay \/ Sealed
  BY <1>1, <1>7 DEF CloneBase, OldOverlay, Sealed, Goto
<1>8. CASE NewOverlay
  <2>1. CASE job.kind = "all"
    BY <1>1, <1>8, <2>1 DEF NewOverlay, Goto
  <2>2. CASE job.kind # "all"
    <3>1. ended # "all"
      BY <1>0, <1>8 DEF NewOverlay, Goto, Placed
    <3> QED BY <1>2, <1>8, <2>2, <3>1 DEF NewOverlay, Goto
  <2> QED BY <2>1, <2>2
<1>9. CASE ConvertStarts \/ ConvertEnds
  BY <1>9, AllConverts DEF CInv
<1>10. CASE Finish
  BY <1>10, AllGoesOn
<1>11. CASE StageAlone \/ StageBase \/ StageImage \/ Rebase
  BY <1>1, <1>11, RebaseApart DEF StageAlone, StageBase, StageImage, Rebase, Goto
<1>12. CASE Clean
  BY <1>1, <1>12 DEF Clean, command
<1> QED BY <1>3, <1>4, <1>5, <1>6, <1>7, <1>8, <1>9, <1>10, <1>11, <1>12 DEF Next

(* A finished --all that made every overlay itself, and was not told to    *)
(* make them over another image than its base, leaves images that all hold *)
(* together, whatever lay under build/ before.                             *)
THEOREM AllCoherentUnlessReusedHolds == Spec => []AllCoherentUnlessReused
<1>1. Init => CInv /\ AInv
  BY DEF Init, CInv, Ages, Own, FreshLayerCoherent, AInv, OwnAll, Packs, Packed, NoJob
<1>2. AInv => AllCoherentUnlessReused
  BY StandingCoherent DEF AInv, Packed, AllCoherentUnlessReused
<1> QED BY <1>1, <1>2, InitTypes, StepTypes, StepC, StepA, PTL DEF Spec
=============================================================================

--------------------------- MODULE MCSealPipeline ---------------------------
(* SealPipeline on the base alone, and on a base and a layer whose commands *)
(* overlap.                                                                 *)
EXTENDS SealPipeline, TLC

(* Builds differ in name only. *)
Interchangeable == Permutations(Builds)

(* Bounds of the shared run.  A truncated clone is a build's own affair and *)
(* is left to the run of one build; with one artifact at a time every       *)
(* interleaving up to and past the first packaging is still there.          *)
WholeClones == \A b \in Builds : disk[b] # Absent => disk[b].whole
OneArtifact == \A b, c \in Builds : art[b] # Absent /\ art[c] # Absent => b = c
SharedBound == WholeClones /\ OneArtifact
=============================================================================

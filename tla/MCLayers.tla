------------------------------ MODULE MCLayers ------------------------------
(* Layers on one base and two layers.  --layer-base-image may name the     *)
(* first layer, also for that layer itself, or is not used.                *)
EXTENDS Layers

CONSTANTS docker, tools

Unnamed == {}
Named == {docker}
BaseFirst == <<Base, docker, tools>>
=============================================================================

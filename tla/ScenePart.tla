----------------------------- MODULE ScenePart -----------------------------
(* The scene, as one of the parts of a window. *)
EXTENDS Integers, Sequences

CONSTANTS Kinds, Tiles, Sprite, NoTile, AllBounds, MaxChildren, MaxPrimitives, MaxLayers

VARIABLES part, nodes, root, maxLeaf, layers, prims

sceneVars == <<nodes, root, maxLeaf, layers, prims>>

Scene == INSTANCE SceneOrder

ASSUME SceneAssumption == Scene!SceneAssumption

OverlapsInOrder == part = "scene" => Scene!OverlapsInOrder
=============================================================================

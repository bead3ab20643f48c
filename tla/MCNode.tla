------------------------------- MODULE MCNode -------------------------------
(***************************************************************************)
(* Values of Node's constants for TLC: one or two extensions, one or two   *)
(* events, commands that differ by their extension.                        *)
(***************************************************************************)
EXTENDS Node

OneCmd    == {"c"}
OneEvent  == {"e"}
Ext1      == {1}
Ext2      == {2}
Ext12     == {1, 2}
=============================================================================

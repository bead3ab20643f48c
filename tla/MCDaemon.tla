------------------------------ MODULE MCDaemon ------------------------------
(* Small instances of Daemon for TLC. *)
EXTENDS Daemon

CONSTANTS c1, c2

OneCmd  == {c1}
TwoCmds == {c1, c2}

(* no node ever signals *)
NoMask     == {{}}
NoPreamble == {0}

(* nodes 1 .. MaxNodes-1 signal in any combination, and the preamble bytes *)
(* of several of them collide into any value up to two ids or'ed           *)
AllMasks     == SUBSET (1..(MaxNodes - 1))
AllPreambles == 0..MaxNodes
OneMask      == {{}, {1}}
OnePreamble  == {0, 1}
=============================================================================

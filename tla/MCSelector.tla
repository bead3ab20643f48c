----------------------------- MODULE MCSelector -----------------------------
(***************************************************************************)
(* Selector for TLC: keys and tags that occur on every level of the tree.  *)
(***************************************************************************)
EXTENDS Selector

CONSTANTS a, b, out, s1, s2
MCTerms == { [key |-> a, tags |-> {}], [key |-> NoKey, tags |-> {out}],
             [key |-> a, tags |-> {out}] }
=============================================================================

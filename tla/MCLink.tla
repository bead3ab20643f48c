------------------------------ MODULE MCLink --------------------------------
(***************************************************************************)
(* Link for TLC: either one node that is sent commands; or two that signal,*)
(* and together signal the id of a third, which is sent commands but is not*)
(* there.                                                                  *)
(***************************************************************************)
EXTENDS Link

CONSTANTS c1, e1

WiredOr(ids) == LET Bit(b) == IF \E i \in ids : (i \div b) % 2 = 1 THEN b ELSE 0
                IN Bit(1) + Bit(2) + Bit(4)
OneDisturbed == {S \in SUBSET Parts : Cardinality(S) <= 1}
EchoDisturbed == {{}, {"echo"}}
=============================================================================

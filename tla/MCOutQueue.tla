---------------------------- MODULE MCOutQueue ------------------------------
(***************************************************************************)
(* Values of OutQueue's constants for TLC: an inverted output, a plain one *)
(* that shares its messages, and one PWM channel of two levels, a dim one  *)
(* (pwm(0) and pwm(1) clamp to it) and a bright one (enable() clamps to    *)
(* it).                                                                    *)
(***************************************************************************)
EXTENDS OutQueue

PlainInv  == {"d", "di"}
Channel   == {"p"}
InvPlain  == {"di"}
Written   == {"di", "p"}
NoOutput  == {}
TwoLevels == {0, 1}
=============================================================================

----------------------------- MODULE MCButtons ------------------------------
(***************************************************************************)
(* Buttons for TLC: the walls of the room and of the living room, all keys *)
(* wired as in the house; in a behaviour somebody touches one or two of    *)
(* them, chosen so that every kind of handler meets those it shares        *)
(* something with: a closure, an interface, a port, or its lamps.          *)
(***************************************************************************)
EXTENDS Buttons

MCWalls == {"room-north", "room-south", "living-fire", "hall-east"}
Touching(keys, n) == [keys |-> keys, reloads |-> n]
MCUsed ==
  { Touching({<<"room-north", "b3">>}, 1),
    Touching({<<"room-north", "b3">>, <<"room-south", "b3">>}, 0),
    Touching({<<"room-north", "b3">>, <<"room-north", "b2">>}, 0),
    Touching({<<"room-north", "b1">>, <<"room-north", "b3">>}, 0),
    Touching({<<"room-north", "b1">>, <<"room-south", "b1">>}, 1),
    Touching({<<"room-north", "b1">>, <<"room-south", "b2">>}, 1),
    Touching({<<"living-fire", "b1">>, <<"hall-east", "b1">>}, 1),
    Touching({<<"living-fire", "b1">>, <<"hall-east", "b4">>}, 0),
    Touching({<<"living-fire", "b3">>, <<"hall-east", "b4">>}, 1) }
=============================================================================

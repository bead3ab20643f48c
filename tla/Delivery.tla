------------------------------ MODULE Delivery ------------------------------
(***************************************************************************)
(* What becomes of the commands and events that Link carries: Link, and    *)
(* beside it, which no step depends on, what was heard of them and what    *)
(* may have been lost, and why. With that, the commands for a node and the *)
(* events of a node are each shown to be a Channel.                        *)
(***************************************************************************)
EXTENDS Link

VARIABLES
  took,    \* the oldest command of a row was taken by its node
  passed,  \* the event in outBuffer was passed on by the daemon
  over,    \* the event that is in the packet has left outBuffer
  lost,    \* why the packet's command was acknowledged and not taken
  last     \* what the last step delivered, and may have lost something to

history == <<took, passed, over, lost>>

Delivers(commands, events, cause) == [taken |-> commands, heard |-> events, cause |-> cause]
NoCommands == [n \in Dests |-> None]
NoEvents == [n \in Node |-> None]

DeliveryInit ==
  /\ Init
  /\ took = [n \in Dests |-> FALSE] /\ passed = [n \in Node |-> FALSE]
  /\ over = FALSE /\ lost = {}
  /\ last = Delivers(NoCommands, NoEvents, {})

Silent == last' = Delivers(NoCommands, NoEvents, {}) /\ UNCHANGED history

Taking == /\ \/ BeginAny
             \/ \E n \in Dests, c \in Cmd : Accept(n, c)
             \/ \E n \in Node : Main(n)
          /\ Silent

(* A command goes unheard that is acknowledged and not taken; an event if  *)
(* it is taken down and has not reached the daemon.                        *)
Unheard(bad) == IF \E n \in Dests : Acked(n, bad)
                THEN (bad \cap {"sum"}) \cup
                     (IF pkt.out \in clearMasterInquiry THEN {"swallowed"} ELSE {})
                ELSE {}
Wasted(bad) ==
  (IF \E n \in Node : Gone(n, bad) THEN bad \cap {"eventSum"} ELSE {})
    \cup (IF over \/ pkt.stream # pkt.sum THEN {"overwritten"} ELSE {})

Ending(bad) ==
  /\ End(bad)
  /\ over' = (Received(bad) /\ pkt.sum # None /\ (over \/ Gone(pkt.inq, bad)))
  /\ lost' = Unheard(bad)
  /\ took' = [n \in Dests |-> took[n] \/ Taken(n, bad)]
  /\ passed' = [n \in Node |->
                  passed[n] /\ (\/ InHand(n) /\ Received(bad)
                                \/ ~Gone(n, bad) /\ ~(n = pkt.inq /\ over))]
  /\ last' = Delivers([n \in Dests |-> IF Taken(n, bad) THEN Head(row[n]) ELSE None],
                      NoEvents, Wasted(bad))

Concluding ==
  /\ Conclude
  /\ over' = FALSE /\ lost' = {}
  /\ took' = [n \in Dests |-> took[n] /\ ~Settled(n)]
  /\ passed' = [n \in Node |-> IF InHand(n) THEN ~over ELSE passed[n]]
  /\ last' = Delivers(NoCommands, [n \in Node |-> IF InHand(n) THEN pkt.sum ELSE None],
                      lost \cup IF \E n \in Dests : GivenUp(n) THEN {"gaveUp"} ELSE {})

(* An event that has left outBuffer whole may still reach the daemon.      *)
Finishing(n, return, trigger) ==
  /\ Finish(n, return, trigger)
  /\ over' = (over \/ (InHand(n) /\ event[n] # return))
  /\ passed' = [passed EXCEPT ![n] =
                  @ /\ (InHand(n) \/ (n = pkt.inq /\ over) \/ event[n] = return)]
  /\ last' = Delivers(NoCommands, NoEvents,
                      IF event[n] = None \/ event[n] = return THEN {} ELSE {"overwritten"})
  /\ UNCHANGED <<took, lost>>

Resetting(n) ==
  /\ Reset(n)
  /\ over' = IF n # pkt.inq THEN over ELSE pkt.at = "end" /\ InHand(n)
  /\ passed' = [passed EXCEPT ![n] = @ /\ pkt.at = "end" /\ InHand(n)]
  /\ last' = Delivers(NoCommands, NoEvents, {"reset"})
  /\ UNCHANGED <<took, lost>>

Restarting ==
  /\ Restart
  /\ over' = FALSE /\ lost' = {}
  /\ took' = [n \in Dests |-> FALSE]
  /\ passed' = [n \in Node |-> passed[n] /\ ~(n = pkt.inq /\ over)]
  /\ last' = Delivers(NoCommands, NoEvents, {"restart"})

DeliveryNext ==
  \/ Taking
  \/ \E bad \in Disturbances : Ending(bad)
  \/ Concluding
  \/ \E n \in Node : Resetting(n) \/ \E e \in Event, t \in BOOLEAN : Finishing(n, e, t)
  \/ Restarting

DeliverySpec == DeliveryInit /\ [][DeliveryNext]_<<vars, history, last>>

-----------------------------------------------------------------------------
(* The events of a node: that the daemon has, or may yet have, although the*)
(* node does not, and that in outBuffer.                                   *)
Events(n) ==
  (IF n = pkt.inq /\ over THEN << pkt.sum >> ELSE << >>)
    \o (IF event[n] = None THEN << >> ELSE << event[n] >>)
CommandChannel(n) == INSTANCE Channel WITH
  Message <- Cmd, Nothing <- None, queue <- row[n], told <- took[n], got <- last.taken[n],
  excuse <- last.cause \cap {"sum", "swallowed", "gaveUp", "restart"} # {}
EventChannel(n) == INSTANCE Channel WITH
  Message <- Event, Nothing <- None,
  queue <- Events(n), told <- passed[n], got <- last.heard[n],
  excuse <- last.cause \cap {"eventSum", "overwritten", "reset", "restart"} # {}

(* Commands are taken in the order the daemon accepted them, and go unheard*)
(* only if it gives up after MaxErrors, is restarted, the checksum to the  *)
(* node is disturbed and the one back is not, or the node swallows what it *)
(* acknowledged, because its main set clearMasterInquiry for a packet that *)
(* had ended. Events are delivered in the order they were raised, and go   *)
(* unheard only if main overwrites them, their node is reset, the daemon is*)
(* restarted, or the checksum to the daemon is disturbed and the one back  *)
(* is not (daemon.c:190, :199, node.c:266, :280, :291, :344).              *)
ChannelSpec ==
  /\ \A n \in Dests : CommandChannel(n)!Init
  /\ \A n \in Node : EventChannel(n)!Init
  /\ [][/\ \A n \in Dests : CommandChannel(n)!Step
        /\ \A n \in Node : EventChannel(n)!Step]_<<vars, history, last>>
=============================================================================

----------------------------- MODULE NodeProofs -----------------------------
(***************************************************************************)
(* Theorems about Node, for every set of commands, events and extensions.  *)
(*                                                                         *)
(* IInv is inductive: the four properties it consists of need the types,   *)
(* and EventKept needs ChecksumTaken, without which the daemon could echo  *)
(* the checksum of an empty outBuffer.                                     *)
(***************************************************************************)
EXTENDS Node, TLAPS

USE DEF incomplete, synced, Announced

(* What the buffers can hold *)
LEMMA Contents ==
  /\ "blank" \in Content \ {"torn"} /\ "torn" \in Content
  /\ \A e \in Event : e \in Content /\ e # "torn"
  BY EventAssumption DEF Content

(* Only a packet with a command is one whose command arrives whole. *)
LEMMA Packets ==
  /\ NoPacket \in Packet
  /\ \A p \in Packet : p.whole => p.cmd \in Command
  BY DEF NoPacket, Packet, NoCmd

(* adceSignalCmd leaves a command, of an extension there is an output for. *)
LEMMA Commands ==
  ASSUME NEW c \in Command \cup {NoCmd}
  PROVE  /\ c.ext \in {1, 2, 4}
         /\ [c EXCEPT !.ext = 1] \in Command \cup {NoCmd}
  BY ExtensionAssumption DEF Command, NoCmd

USE DEF IInv, TypeOK, CpuOK, PortsOK, ReceiverOK, FlagsOK, BuffersOK, JobOK,
        TriggerHeld, NotSleptOver, BusyNotAcked, ChecksumTaken,
        cpuVars, portVars, rxVars, flagVars, bufVars, jobVars

(* At power on nothing is pending and the framing is lost. *)
LEMMA InitIInv == Init => IInv
  BY Contents, Packets DEF Init

(* Every step of the interrupt, of main and of the extensions keeps IInv. *)
LEMMA NextIInv == IInv /\ [Next]_vars => IInv'
<1> SUFFICES ASSUME IInv, [Next]_vars PROVE IInv'
  OBVIOUS
<1>1. CASE FirstByte
  <2>1. (CpuOK /\ PortsOK /\ FlagsOK /\ JobOK)'
    BY <1>1 DEF FirstByte, IsrExit
  <2>2. (ReceiverOK /\ BuffersOK)'
    BY <1>1 DEF FirstByte, IsrExit
  <2>3. (TriggerHeld /\ NotSleptOver)'
    BY <1>1 DEF FirstByte, IsrExit
  <2>4. (BusyNotAcked /\ ChecksumTaken)'
    BY <1>1 DEF FirstByte, IsrExit
  <2> QED
    BY <2>1, <2>2, <2>3, <2>4
<1>2. ASSUME NEW ok \in BOOLEAN, endOfHeaderEvent(ok) PROVE IInv'
  <2>1. (CpuOK /\ PortsOK /\ FlagsOK /\ JobOK)'
    BY <1>2 DEF endOfHeaderEvent, IsrExit
  <2>2. (ReceiverOK /\ BuffersOK)'
    BY <1>2 DEF endOfHeaderEvent, IsrExit
  <2>3. (TriggerHeld /\ NotSleptOver)'
    BY <1>2 DEF endOfHeaderEvent, IsrExit
  <2>4. (BusyNotAcked /\ ChecksumTaken)'
    BY <1>2 DEF endOfHeaderEvent, IsrExit
  <2> QED
    BY <2>1, <2>2, <2>3, <2>4
<1>3. ASSUME NEW ok \in BOOLEAN, NEW p \in Packet, endOfDestinationEvent(ok, p) PROVE IInv'
  <2>1. (CpuOK /\ PortsOK /\ FlagsOK /\ JobOK)'
    BY <1>3, Contents DEF endOfDestinationEvent, IsrExit
  <2>2. (ReceiverOK /\ BuffersOK)'
    BY <1>3, Contents DEF endOfDestinationEvent, IsrExit
  <2>3. (TriggerHeld /\ NotSleptOver)'
    BY <1>3, Contents DEF endOfDestinationEvent, IsrExit
  <2>4. (BusyNotAcked /\ ChecksumTaken)'
    BY <1>3, Contents DEF endOfDestinationEvent, IsrExit
  <2> QED
    BY <2>1, <2>2, <2>3, <2>4
<1>4. ASSUME NEW ok \in BOOLEAN, endOfPacketEvent(ok) PROVE IInv'
  <2>1. (CpuOK /\ PortsOK /\ FlagsOK /\ JobOK)'
    BY <1>4, Contents DEF endOfPacketEvent, IsrExit, EventAcknowledged
  <2>2. (ReceiverOK /\ BuffersOK)'
    BY <1>4, Contents DEF endOfPacketEvent, IsrExit, EventAcknowledged
  <2>3. (TriggerHeld /\ NotSleptOver)'
    BY <1>4, Contents DEF endOfPacketEvent, IsrExit, EventAcknowledged
  <2>4. (BusyNotAcked /\ ChecksumTaken)'
    BY <1>4, Contents DEF endOfPacketEvent, IsrExit, EventAcknowledged
  <2> QED
    BY <2>1, <2>2, <2>3, <2>4
<1>5. CASE endOfPacketEvent2
  <2>1. (CpuOK /\ PortsOK /\ FlagsOK /\ JobOK)'
    BY <1>5, Packets DEF endOfPacketEvent2, IsrExit, Wakes, Accepts, Trigger
  <2>2. (ReceiverOK /\ BuffersOK)'
    BY <1>5, Packets DEF endOfPacketEvent2, IsrExit, Wakes, Accepts, Trigger
  <2>3. (TriggerHeld /\ NotSleptOver)'
    BY <1>5, Packets DEF endOfPacketEvent2, IsrExit, Wakes, Accepts, Trigger
  <2>4. (BusyNotAcked /\ ChecksumTaken)'
    BY <1>5, Packets DEF endOfPacketEvent2, IsrExit, Wakes, Accepts, Trigger
  <2> QED
    BY <2>1, <2>2, <2>3, <2>4
<1>6. CASE RescueFails
  BY <1>6, Contents, Packets DEF RescueFails, Reset
<1>7. CASE Overrun
  BY <1>7 DEF Overrun
<1>8. CASE OverrunResets
  BY <1>8, Contents, Packets DEF OverrunResets, Reset
<1>9. CASE Top
  BY <1>9 DEF Top, Goto
<1>10. CASE ExtensionWakes
  BY <1>10 DEF ExtensionWakes, Goto
<1>11. CASE SignalServed
  BY <1>11 DEF SignalServed, Goto
<1>12. CASE Choose
  BY <1>12 DEF Choose, Goto
<1>13. CASE adceSignalTriggerAny
  <2>1. (CpuOK /\ PortsOK /\ FlagsOK /\ JobOK)'
    BY <1>13 DEF adceSignalTriggerAny, Goto
  <2>2. (ReceiverOK /\ BuffersOK)'
    BY <1>13 DEF adceSignalTriggerAny, Goto
  <2>3. (TriggerHeld /\ NotSleptOver)'
    BY <1>13 DEF adceSignalTriggerAny, Goto
  <2>4. (BusyNotAcked /\ ChecksumTaken)'
    BY <1>13 DEF adceSignalTriggerAny, Goto
  <2> QED
    BY <2>1, <2>2, <2>3, <2>4
<1>14. CASE adceSignalCmd
  BY <1>14, Commands DEF adceSignalCmd, Goto
<1>15. CASE ExtensionReady
  BY <1>15 DEF ExtensionReady, Goto
<1>16. CASE ServiceStart
  BY <1>16, Contents DEF ServiceStart, Goto
<1>17. ASSUME NEW e \in Event, ServiceEnd(e) PROVE IInv'
  BY <1>17, Contents DEF ServiceEnd, Goto
<1>18. ASSUME NEW b \in BOOLEAN, ServiceSum(b) PROVE IInv'
  BY <1>18 DEF ServiceSum, Goto, AfterService
<1>19. CASE Announce
  BY <1>19 DEF Announce, Goto
<1>20. CASE SetNow
  BY <1>20 DEF SetNow, Goto, AfterService
<1>21. CASE SetLater
  BY <1>21 DEF SetLater, Goto, AfterService
<1>22. CASE ClearTests
  BY <1>22 DEF ClearTests, Goto
<1>23. CASE ClearNow
  <2>1. (CpuOK /\ PortsOK /\ FlagsOK /\ JobOK)'
    BY <1>23 DEF ClearNow, Goto
  <2>2. (ReceiverOK /\ BuffersOK)'
    BY <1>23 DEF ClearNow, Goto
  <2>3. (TriggerHeld /\ NotSleptOver)'
    BY <1>23 DEF ClearNow, Goto
  <2>4. (BusyNotAcked /\ ChecksumTaken)'
    BY <1>23 DEF ClearNow, Goto
  <2> QED
    BY <2>1, <2>2, <2>3, <2>4
<1>24. CASE ClearLater
  BY <1>24 DEF ClearLater, Goto
<1>25. ASSUME NEW x \in Present, Raise(x) PROVE IInv'
  BY <1>25 DEF Raise
<1>26. CASE UNCHANGED vars
  BY <1>26 DEF vars
<1> QED
  BY <1>1, <1>2, <1>3, <1>4, <1>5, <1>6, <1>7, <1>8, <1>9, <1>10, <1>11, <1>12, <1>13, <1>14, <1>15, <1>16, <1>17, <1>18, <1>19, <1>20, <1>21, <1>22, <1>23, <1>24, <1>25, <1>26 DEF Next, Receive, Main, Serve

(* The flag of an event falls only in the packet that carried the event,   *)
(* or with the node.                                                       *)
LEMMA NextEventStays == IInv /\ [Next]_vars => EventStays
<1> SUFFICES ASSUME IInv, [Next]_vars PROVE EventStays
  OBVIOUS
<1>1. ASSUME NEW intact \in BOOLEAN, endOfPacketEvent(intact) PROVE EventStays
  BY <1>1 DEF EventStays, endOfPacketEvent, EventAcknowledged
<1>2. CASE endOfPacketEvent2
  BY <1>2 DEF EventStays, endOfPacketEvent2
<1>3. CASE RescueFails \/ OverrunResets
  BY <1>3 DEF EventStays, Resets, RescueFails, OverrunResets, Reset
<1>4. CASE SetNow \/ SetLater
  BY <1>4 DEF EventStays, SetNow, SetLater
<1>5. CASE ClearNow \/ ClearLater
  BY <1>5 DEF EventStays, ClearNow, ClearLater
<1>6. CASE FirstByte \/ \E ok \in BOOLEAN : endOfHeaderEvent(ok)
  BY <1>6 DEF EventStays, FirstByte, endOfHeaderEvent
<1>7. CASE \E ok \in BOOLEAN, p \in Packet : endOfDestinationEvent(ok, p)
  BY <1>7 DEF EventStays, endOfDestinationEvent
<1>8. CASE Overrun \/ \E x \in Present : Raise(x)
  BY <1>8 DEF EventStays, Overrun, Raise
<1>9. CASE Top \/ ExtensionWakes \/ SignalServed \/ Choose \/ ExtensionReady
  BY <1>9 DEF EventStays, Top, ExtensionWakes, SignalServed, Choose, ExtensionReady
<1>10. CASE adceSignalTriggerAny \/ adceSignalCmd
  BY <1>10 DEF EventStays, adceSignalTriggerAny, adceSignalCmd
<1>11. CASE \/ ServiceStart \/ \E e \in Event : ServiceEnd(e)
            \/ \E trigger \in BOOLEAN : ServiceSum(trigger)
  BY <1>11 DEF EventStays, ServiceStart, ServiceEnd, ServiceSum
<1>12. CASE Announce \/ ClearTests
  BY <1>12 DEF EventStays, Announce, ClearTests
<1>13. CASE UNCHANGED vars
  BY <1>13 DEF EventStays, vars
<1> QED
  BY <1>1, <1>2, <1>3, <1>4, <1>5, <1>6, <1>7, <1>8, <1>9, <1>10, <1>11, <1>12,
     <1>13 DEF Next, Receive, Main, Serve

-----------------------------------------------------------------------------
HIDE DEF IInv, TypeOK, CpuOK, PortsOK, ReceiverOK, FlagsOK, BuffersOK, JobOK,
         TriggerHeld, NotSleptOver, BusyNotAcked, ChecksumTaken, Announced,
         cpuVars, portVars, rxVars, flagVars, bufVars, jobVars

(* IInv holds in every reachable state. *)
THEOREM Invariance == Spec => []IInv
<1>1. Init => IInv
  BY InitIInv
<1>2. IInv /\ [Next]_vars => IInv'
  BY NextIInv
<1> QED
  BY <1>1, <1>2, PTL DEF Spec

(* Types: in particular no checksum is taken of a half written outBuffer   *)
(* (adceService, node.c:486-529).                                          *)
THEOREM TypeCorrect == Spec => []TypeOK
<1>1. IInv => TypeOK
  BY DEF IInv
<1> QED
  BY <1>1, Invariance, PTL

(* Between two packets a node with an event holds the trigger on the line  *)
(* (node.c:312-322, 472-477).                                              *)
THEOREM TriggerIsHeld == Spec => []TriggerHeld
<1>1. IInv => TriggerHeld
  BY DEF IInv
<1> QED
  BY <1>1, Invariance, PTL

(* main never sleeps over a command: either its event has to leave first,  *)
(* or the packet under way wakes it (node.c:40, 285-303).                  *)
THEOREM NoCommandSleptOver == Spec => []NotSleptOver
<1>1. IInv => NotSleptOver
  BY DEF IInv
<1> QED
  BY <1>1, Invariance, PTL

(* A node that has a command acknowledges no other (node.c:231).           *)
THEOREM BusyIsNotAcked == Spec => []BusyNotAcked
<1>1. IInv => BusyNotAcked
  BY DEF IInv
<1> QED
  BY <1>1, Invariance, PTL

(* An announced event stays announced until a packet returned a whole one  *)
(* and the daemon its checksum (node.c:223-226, 265-269, 312-315).         *)
THEOREM EventsAreKept == Spec => EventKept
<1>1. IInv /\ [Next]_vars => [EventStays]_vars
  BY NextEventStays
<1> QED
  BY <1>1, Invariance, PTL DEF Spec, EventKept

=============================================================================
